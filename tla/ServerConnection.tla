-------------------------- MODULE ServerConnection --------------------------
(***************************************************************************)
(* How the service on one computer gets and keeps its identity and its     *)
(* place on the server (ServerConnection, VorsightSocketClient,            *)
(* FileCredentialStore; on the server machineService.register and the      *)
(* machine:connect handler).  The main thread loads or registers the       *)
(* credentials and then, as the watchdog, checks the connection before     *)
(* every heartbeat; every rejection by the server starts one more recovery *)
(* that runs beside it.                                                    *)
(***************************************************************************)
EXTENDS Naturals, Sequences

CONSTANTS
    Main,         \* the thread of Worker.ExecuteAsync
    Recoveries,   \* HandleCredentialFailureAsync invocations that may run at once
    Nobody,       \* no thread
    Ids,          \* ids this computer may compute: they depend on its network
    NoId,         \* an unset id
    MaxKeys,      \* API keys 1 .. MaxKeys; no fewer than the server creates
    MaxInFlight,  \* handshakes under way beyond which the watchdog starts no more
    MaxFaults     \* faults of a behaviour, of any kind

ASSUME ThreadsAssumption == Main \notin Recoveries /\ Nobody \notin Recoveries \cup {Main}
ASSUME IdsAssumption == Ids # {} /\ NoId \notin Ids
ASSUME BoundsAssumption ==
    MaxKeys \in Nat \ {0} /\ MaxInFlight \in Nat \ {0} /\ MaxFaults \in Nat

Threads == Recoveries \cup {Main}
NoKey == 0
Credentials == [id : Ids \cup {NoId}, key : 0..MaxKeys]
Nothing == [id |-> NoId, key |-> NoKey]

VARIABLES
    machineId, apiKey,  \* _machineId, _apiKey
    isConnected,        \* _isConnected
    file,               \* credentials.json; Nothing if absent or torn
    writer,             \* the thread that has it open
    unsaved,            \* history: the last save could not open the file
    sock,               \* the socket: down, up, or lost
    closing,            \* a lost socket's OnDisconnected is still to be raised
    pc, arg,            \* threads, with the credentials each one carries
    booting,            \* Main is in InitializeAsync
    sent, replies,      \* machine:connect messages and the answers, in order
    confirming,         \* machine:connect handlers that have found the machine
    accepted,           \* socket.machineId is set on the server's end
    rows, keys,         \* the server's rows of this computer; keys handed out
    faults              \* the faults so far

memory == <<machineId, apiKey, isConnected>>
disk   == <<file, writer, unsaved>>
link   == <<sock, closing, sent, replies, confirming, accepted>>
server == <<rows, keys>>
thread == <<pc, arg, booting>>
vars   == <<memory, disk, link, server, thread, faults>>

Answering == {"asked", "creating", "answered"}
Current == [id |-> machineId, key |-> apiKey]
InFlight == Len(sent) + confirming + Len(replies)

(* A fresh installation, one the server knows, and one it knows that has   *)
(* lost its file.                                                          *)
Init ==
    /\ machineId = NoId /\ apiKey = NoKey /\ isConnected = FALSE
    /\ \E i \in Ids :
          LET known == [id |-> i, key |-> 1] IN
          \/ rows = {} /\ keys = 0 /\ file = Nothing
          \/ rows = {known} /\ keys = 1 /\ file \in {known, Nothing}
    /\ writer = Nobody /\ unsaved = FALSE
    /\ sock = "down" /\ closing = FALSE
    /\ sent = <<>> /\ replies = <<>> /\ confirming = 0 /\ accepted = FALSE
    /\ pc = [t \in Threads |-> IF t = Main THEN "boot" ELSE "idle"]
    /\ arg = [t \in Threads |-> Nothing]
    /\ booting = TRUE
    /\ faults = 0

Goto(t, state) == pc' = [pc EXCEPT ![t] = state]

(* A thread returns, or its exception is caught and logged.  What it       *)
(* carries is reset where it is no longer used.                            *)
Resting(t) == IF t = Main THEN "loop" ELSE "idle"
Carry(t, credentials) == arg' = [arg EXCEPT ![t] = credentials]
Return(t) == /\ Goto(t, Resting(t)) /\ Carry(t, Nothing)
             /\ booting' = (booting /\ t # Main)

Fault == faults < MaxFaults /\ faults' = faults + 1

(* ConnectAsync(id, key) is called with the fields' values of the moment.  *)
CallConnect(t, credentials) ==
    /\ Carry(t, credentials)
    /\ Goto(t, "call")

-----------------------------------------------------------------------------
(* InitializeAsync and EnsureConnectedAsync.                               *)

(* Mutant of Start: an id is computed only together with a stored key.     *)
StartWithoutId ==
    /\ pc[Main] = "boot"
    /\ IF file # Nothing
       THEN /\ machineId' = file.id /\ apiKey' = file.key
            /\ CallConnect(Main, file)
       ELSE /\ Goto(Main, "register")
            /\ UNCHANGED <<machineId, apiKey, arg>>
    /\ UNCHANGED <<isConnected, disk, link, server, booting, faults>>

Start ==
    /\ pc[Main] = "boot"
    /\ IF file # Nothing
       THEN /\ machineId' = file.id /\ apiKey' = file.key
            /\ CallConnect(Main, file)
       ELSE /\ machineId' \in Ids
            /\ Goto(Main, "register")
            /\ UNCHANGED <<apiKey, arg>>
    /\ UNCHANGED <<isConnected, disk, link, server, booting, faults>>

(* The watchdog: without a key it registers first ...                      *)
Tick ==
    /\ pc[Main] = "loop"
    /\ Goto(Main, IF apiKey = NoKey THEN "register" ELSE "check")
    /\ UNCHANGED <<memory, disk, link, server, arg, booting, faults>>

(* Mutant of Check: a connected socket is taken for an accepted one.       *)
CheckSocketOnly ==
    /\ pc[Main] = "check"
    /\ IF sock = "up" THEN Goto(Main, "loop") /\ UNCHANGED arg
                      ELSE CallConnect(Main, Current)
    /\ UNCHANGED <<memory, disk, link, server, booting, faults>>

(* ... then it repeats the handshake, or connects.                         *)
Check ==
    /\ pc[Main] = "check"
    /\ IF sock = "up" /\ (isConnected \/ apiKey = NoKey)
       THEN Goto(Main, "loop") /\ UNCHANGED arg
       ELSE CallConnect(Main, Current)
    /\ UNCHANGED <<memory, disk, link, server, booting, faults>>

-----------------------------------------------------------------------------
(* RegisterMachineAsync, by any thread; machineService.register answers.   *)

Ask(t) ==
    /\ pc[t] = "register"
    /\ Carry(t, [id |-> machineId, key |-> NoKey])
    /\ Goto(t, "asked")
    /\ UNCHANGED <<memory, disk, link, server, booting, faults>>

Answer(t, row) == Carry(t, row) /\ Goto(t, "answered")

(* The row with this id, or else one with this computer's name.            *)
FindRow(t) ==
    /\ pc[t] = "asked"
    /\ LET byId == {r \in rows : r.id = arg[t].id} IN
       \/ \E r \in byId : Answer(t, r)
       \/ byId = {} /\ \E r \in rows : Answer(t, r)
       \/ rows = {} /\ Goto(t, "creating") /\ UNCHANGED arg
    /\ UNCHANGED <<memory, disk, link, server, booting, faults>>

(* The id is the table's primary key: of two requests that found no row,   *)
(* one fails.                                                              *)
CreateRow(t) ==
    /\ pc[t] = "creating"
    /\ IF \E r \in rows : r.id = arg[t].id
       THEN Return(t) /\ UNCHANGED server
       ELSE LET row == [id |-> arg[t].id, key |-> keys + 1] IN
            /\ keys < MaxKeys
            /\ keys' = keys + 1
            /\ rows' = rows \cup {row}
            /\ Answer(t, row)
            /\ UNCHANGED booting
    /\ UNCHANGED <<memory, disk, link, faults>>

RegisterFails(t) ==
    /\ pc[t] \in {"asked", "creating"} /\ Fault
    /\ Return(t)
    /\ UNCHANGED <<memory, disk, link, server>>

(* Mutant of TakeAnswer: does not adopt the id of the row found by name.   *)
TakeAnswerKeepsId(t) ==
    /\ pc[t] = "answered"
    /\ apiKey' = arg[t].key
    /\ Carry(t, Nothing) /\ Goto(t, "save")
    /\ UNCHANGED <<machineId, isConnected, disk, link, server, booting, faults>>

TakeAnswer(t) ==
    /\ pc[t] = "answered"
    /\ apiKey' = arg[t].key /\ machineId' = arg[t].id
    /\ Carry(t, Nothing) /\ Goto(t, "save")
    /\ UNCHANGED <<isConnected, disk, link, server, booting, faults>>

(* Mutant of OpenFile: a file that is there is not written again.          *)
OpenFileOnce(t) ==
    /\ pc[t] = "save"
    /\ \/ /\ apiKey # NoKey /\ writer = Nobody /\ file = Nothing
          /\ writer' = t /\ unsaved' = FALSE
          /\ Carry(t, Current) /\ Goto(t, "writing")
          /\ UNCHANGED <<file, booting>>
       \/ apiKey # NoKey /\ writer # Nobody /\ Return(t) /\ UNCHANGED disk
       \/ /\ apiKey = NoKey \/ (writer = Nobody /\ file # Nothing)
          /\ Goto(t, "registered") /\ UNCHANGED <<disk, arg, booting>>
    /\ UNCHANGED <<memory, link, server, faults>>

(* SaveCredentialsAsync truncates, then writes; a second writer finds the  *)
(* file in use and throws.  A key that another recovery has meanwhile      *)
(* forgotten is not saved.                                                 *)
OpenFile(t) ==
    /\ pc[t] = "save"
    /\ \/ /\ apiKey # NoKey /\ writer = Nobody
          /\ writer' = t /\ file' = Nothing /\ unsaved' = FALSE
          /\ Carry(t, Current) /\ Goto(t, "writing")
          /\ UNCHANGED booting
       \/ apiKey # NoKey /\ writer # Nobody /\ Return(t) /\ UNCHANGED disk
       \/ apiKey = NoKey /\ Goto(t, "registered") /\ UNCHANGED <<disk, arg, booting>>
    /\ UNCHANGED <<memory, link, server, faults>>

WriteFile(t) ==
    /\ pc[t] = "writing"
    /\ file' = arg[t] /\ writer' = Nobody /\ UNCHANGED unsaved
    /\ Carry(t, Nothing) /\ Goto(t, "registered")
    /\ UNCHANGED <<memory, link, server, booting, faults>>

(* The file cannot be opened, or not be written to its end.                *)
SaveFails(t) ==
    /\ pc[t] \in {"save", "writing"} /\ apiKey # NoKey /\ Fault
    /\ writer' = IF pc[t] = "writing" THEN Nobody ELSE writer
    /\ unsaved' = (unsaved \/ pc[t] = "save")
    /\ Return(t)
    /\ UNCHANGED <<memory, file, link, server>>

Registered(t) ==
    /\ pc[t] = "registered"
    /\ \/ t = Main /\ booting /\ CallConnect(t, Current) /\ UNCHANGED booting
       \/ t = Main /\ ~booting /\ Goto(t, "check") /\ UNCHANGED <<arg, booting>>
       \/ t # Main /\ apiKey # NoKey /\ CallConnect(t, Current) /\ UNCHANGED booting
       \/ t # Main /\ apiKey = NoKey /\ Return(t)
    /\ UNCHANGED <<memory, disk, link, server, faults>>

-----------------------------------------------------------------------------
(* VorsightSocketClient.ConnectAsync.                                      *)

(* The socket opens, and its OnConnected sends machine:connect at once.    *)
Open ==
    /\ sock' = "up"
    /\ sent' = <<Current>>
    /\ UNCHANGED <<closing, replies, confirming, accepted>>

Dial(t) ==
    /\ pc[t] = "call" /\ sock # "up"
    /\ Open
    /\ Goto(t, "emit")
    /\ UNCHANGED <<memory, disk, server, arg, booting, faults>>

DialFails(t) ==
    /\ pc[t] = "call" /\ sock # "up" /\ Fault
    /\ Return(t)
    /\ UNCHANGED <<memory, disk, link, server>>

(* The caller sends machine:connect as well, with what it was called with. *)
(* (The watchdog's repetitions are 10 seconds apart.)                      *)
Emit(t) ==
    /\ pc[t] \in {"call", "emit"} /\ sock = "up"
    /\ t = Main /\ pc[t] = "call" => InFlight < MaxInFlight
    /\ sent' = Append(sent, arg[t])
    /\ Return(t)
    /\ UNCHANGED <<memory, disk, sock, closing, replies, confirming, accepted,
                   server, faults>>

EmitNothing(t) ==
    /\ pc[t] = "emit" /\ sock # "up"
    /\ Return(t)
    /\ UNCHANGED <<memory, disk, link, server, faults>>

(* The socket library reconnects a lost socket by itself.                  *)
LibraryReconnects ==
    /\ sock = "lost" /\ ~closing
    /\ Open
    /\ UNCHANGED <<memory, disk, server, thread, faults>>

-----------------------------------------------------------------------------
(* The server's machine:connect handler, and the service's handlers of its *)
(* answers.                                                                *)

Verify ==
    /\ sent # <<>>
    /\ LET c == Head(sent)
       IN IF c.key # NoKey /\ c \in rows
          THEN /\ accepted' = TRUE /\ confirming' = confirming + 1
               /\ UNCHANGED replies
          ELSE /\ replies' = Append(replies, IF c.key = NoKey THEN "missing" ELSE "invalid")
               /\ UNCHANGED <<accepted, confirming>>
    /\ sent' = Tail(sent)
    /\ UNCHANGED <<memory, disk, sock, closing, server, thread, faults>>

(* lastSeen and the connection event are written, the dashboards told.     *)
Confirm ==
    /\ confirming > 0
    /\ confirming' = confirming - 1
    /\ replies' = Append(replies, "connected")
    /\ UNCHANGED <<memory, disk, sock, closing, sent, accepted, server, thread, faults>>

ConfirmFails ==
    /\ confirming > 0 /\ Fault
    /\ confirming' = confirming - 1
    /\ replies' = Append(replies, "failed")
    /\ UNCHANGED <<memory, disk, sock, closing, sent, accepted, server, thread>>

HandleReply(kinds) ==
    /\ replies # <<>> /\ Head(replies) \in kinds
    /\ replies' = Tail(replies)
    /\ UNCHANGED <<sock, closing, sent, confirming, accepted, server, booting, faults>>

MachineConnected ==
    /\ HandleReply({"connected"})
    /\ isConnected' = TRUE
    /\ UNCHANGED <<machineId, apiKey, disk, pc, arg>>

ErrorLogged ==
    /\ HandleReply({"failed"})
    /\ UNCHANGED <<memory, disk, pc, arg>>

(* The start of HandleCredentialFailureAsync: deletes the file, forgets    *)
(* the key, registers.  A file that is being written cannot be deleted,    *)
(* which ends the recovery.                                                *)
Rejected ==
    /\ HandleReply({"invalid", "missing"})
    /\ \/ writer # Nobody /\ UNCHANGED <<apiKey, file, unsaved, pc>>
       \/ /\ writer = Nobody
          /\ \E r \in Recoveries : pc[r] = "idle" /\ Goto(r, "register")
          /\ file' = Nothing /\ unsaved' = FALSE /\ apiKey' = NoKey
    /\ UNCHANGED <<machineId, isConnected, writer, arg>>

-----------------------------------------------------------------------------
(* Faults.                                                                 *)

LoseSocket(state) ==
    /\ sock' = state
    /\ sent' = <<>> /\ replies' = <<>> /\ confirming' = 0 /\ accepted' = FALSE

(* The connection breaks; what was under way on it is lost.                *)
Drop ==
    /\ sock = "up" /\ ~closing /\ Fault
    /\ LoseSocket("lost") /\ closing' = TRUE
    /\ UNCHANGED <<memory, disk, server, thread>>

(* Mutant of Disconnected: leaves _isConnected alone.                      *)
DisconnectedIgnored ==
    /\ closing
    /\ closing' = FALSE
    /\ UNCHANGED <<memory, disk, sock, sent, replies, confirming, accepted,
                   server, thread, faults>>

Disconnected ==
    /\ closing
    /\ closing' = FALSE /\ isConnected' = FALSE
    /\ UNCHANGED <<machineId, apiKey, disk, sock, sent, replies, confirming, accepted,
                   server, thread, faults>>

(* The server goes down and comes back with a database from before this    *)
(* computer registered; requests under way fail.  This takes longer than   *)
(* saving an answer that has arrived.                                      *)
Restore ==
    /\ ~closing /\ rows # {} /\ Fault
    /\ \A t \in Threads : pc[t] \notin {"save", "writing"}
    /\ rows' = {}
    /\ IF sock = "up" THEN LoseSocket("lost") /\ closing' = TRUE ELSE UNCHANGED link
    /\ pc' = [t \in Threads |->
                IF pc[t] \in Answering THEN Resting(t) ELSE pc[t]]
    /\ arg' = [t \in Threads |-> IF pc[t] \in Answering THEN Nothing ELSE arg[t]]
    /\ booting' = (booting /\ pc'[Main] = pc[Main])
    /\ UNCHANGED <<memory, disk, keys>>

(* The service process ends and starts again.                              *)
Crash ==
    /\ Fault
    /\ machineId' = NoId /\ apiKey' = NoKey /\ isConnected' = FALSE
    /\ writer' = Nobody /\ unsaved' = FALSE
    /\ LoseSocket("down") /\ closing' = FALSE
    /\ pc' = [t \in Threads |-> IF t = Main THEN "boot" ELSE "idle"]
    /\ arg' = [t \in Threads |-> Nothing]
    /\ booting' = TRUE
    /\ UNCHANGED <<file, server>>

Thread(t) ==
    \/ Ask(t) \/ FindRow(t) \/ CreateRow(t) \/ TakeAnswer(t) \/ OpenFile(t) \/ WriteFile(t)
    \/ Registered(t) \/ Dial(t) \/ Emit(t) \/ EmitNothing(t)

Watchdog == Start \/ Tick \/ Check \/ Thread(Main)
Failures(t) == RegisterFails(t) \/ SaveFails(t) \/ DialFails(t)
ServerSteps == Verify \/ Confirm
Handlers == MachineConnected \/ ErrorLogged \/ Rejected

Next ==
    \/ Watchdog \/ \E r \in Recoveries : Thread(r)
    \/ \E t \in Threads : Failures(t)
    \/ ServerSteps \/ ConfirmFails \/ Handlers \/ Disconnected
    \/ LibraryReconnects
    \/ Drop \/ Restore \/ Crash

(* Threads run, the server handles what it receives, sockets deliver.      *)
Fairness ==
    /\ WF_vars(Watchdog) /\ \A r \in Recoveries : WF_vars(Thread(r))
    /\ WF_vars(Verify) /\ WF_vars(Confirm) /\ WF_vars(Handlers) /\ WF_vars(Disconnected)

Spec == Init /\ [][Next]_vars
LiveSpec == Spec /\ Fairness

-----------------------------------------------------------------------------
Registering == Answering \cup {"register", "save", "writing"}

(* Type invariant of the connection; a started service has an id.          *)
TypeOK ==
    /\ machineId \in Ids \cup {NoId} /\ (pc[Main] # "boot" => machineId \in Ids)
    /\ apiKey \in 0..MaxKeys /\ isConnected \in BOOLEAN
    /\ file \in Credentials /\ writer \in Threads \cup {Nobody} /\ unsaved \in BOOLEAN
    /\ sock \in {"down", "up", "lost"} /\ closing \in BOOLEAN
    /\ pc \in [Threads -> {"boot", "loop", "check", "idle", "registered", "call", "emit"}
                          \cup Registering]
    /\ arg \in [Threads -> Credentials] /\ booting \in BOOLEAN
    /\ sent \in Seq(Credentials)
    /\ replies \in Seq({"connected", "failed", "invalid", "missing"})
    /\ confirming \in Nat /\ accepted \in BOOLEAN
    /\ rows \subseteq [id : Ids, key : 1..MaxKeys] /\ keys \in 0..MaxKeys
    /\ faults \in 0..MaxFaults

(* A service that takes itself for connected has been accepted on the      *)
(* socket it has now, not on an earlier one - from the moment the loss of  *)
(* an earlier one has been announced.                                      *)
OnlineIsReal == isConnected /\ ~closing => sock = "up" /\ accepted

(* While nobody saves, credentials.json is absent or holds what the        *)
(* service uses, whatever recoveries, the watchdog and restored databases  *)
(* have done to both at the same time - unless the last save could not     *)
(* open the file, which leaves an older one in place.                      *)
DiskMatchesMemory ==
    ~unsaved /\ apiKey # NoKey /\ (\A t \in Threads : pc[t] \notin {"save", "writing"})
        => file \in {Nothing, Current}

(* Once the faults are over, the service is connected for good, with       *)
(* credentials the server knows: also after a restored database, a lost    *)
(* file or a new id.                                                       *)
Online == isConnected /\ accepted /\ Current \in rows
ComesOnline == <>[]Online
=============================================================================
