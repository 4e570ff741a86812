---------------------- MODULE ServerConnection_proofs -----------------------
(* Proofs, for any number of concurrent recoveries, ids, keys and faults,  *)
(* of safety properties of ServerConnection.                               *)
EXTENDS ServerConnection, TLAPS

USE ThreadsAssumption, IdsAssumption, BoundsAssumption DEF NoKey

Rows == [id : Ids, key : 1..MaxKeys]

(* What is stored and what is answered are rows, what is asked has an id.  *)
Carried ==
    /\ file \in Rows \cup {Nothing}
    /\ \A t \in Threads : /\ pc[t] \in {"asked", "creating"} => arg[t].id \in Ids
                          /\ pc[t] \in {"answered", "writing"} => arg[t] \in Rows

(* Before the service has started nothing else happens in it.              *)
Started ==
    pc[Main] = "boot" => sock = "down" /\ \A r \in Recoveries : pc[r] = "idle"

(* Nothing is under way on a socket that is not up.                        *)
LinkEmpty ==
    sock # "up" => sent = <<>> /\ replies = <<>> /\ confirming = 0 /\ ~accepted

TInv == TypeOK /\ Carried /\ Started /\ LinkEmpty

LEMMA NothingFacts == /\ Nothing \in Credentials /\ Nothing.id = NoId /\ Nothing.key = 0
                      /\ Nothing \notin Rows /\ Rows \subseteq Credentials
                      /\ \A r \in Rows : r.id \in Ids /\ r.key \in 1..MaxKeys
  BY DEF Nothing, Credentials, Rows

LEMMA InitTInv == Init => TInv
<1> SUFFICES ASSUME Init PROVE TInv
  OBVIOUS
<1>1. /\ machineId = NoId /\ apiKey = 0 /\ isConnected = FALSE
      /\ rows \subseteq Rows /\ file \in Rows \cup {Nothing} /\ keys \in 0..MaxKeys
  BY DEF Init, Rows
<1>2. /\ pc \in [Threads -> {"boot", "idle"}] /\ pc[Main] = "boot"
      /\ \A r \in Recoveries : pc[r] = "idle"
  BY DEF Init, Threads
<1>3. arg \in [Threads -> Credentials]
  BY NothingFacts DEF Init
<1>4. Carried /\ Started /\ LinkEmpty
  BY <1>1, <1>2 DEF Init, Carried, Started, LinkEmpty
<1>5. TypeOK
  <2>1. pc \in [Threads -> {"boot", "loop", "check", "idle", "registered", "call", "emit"}
                           \cup Registering]
    BY <1>2
  <2>2. file \in Credentials
    BY <1>1, NothingFacts
  <2>3. machineId \in Ids \cup {NoId} /\ apiKey \in 0..MaxKeys
    BY <1>1
  <2>5. isConnected \in BOOLEAN
    BY <1>1
  <2>6. writer = Nobody /\ sock = "down" /\ confirming = 0 /\ faults = 0
    BY DEF Init
  <2>7. closing \in BOOLEAN /\ booting \in BOOLEAN /\ accepted \in BOOLEAN /\ unsaved \in BOOLEAN
    BY DEF Init
  <2>8. writer \in Threads \cup {Nobody} /\ sock \in {"down", "up", "lost"}
        /\ confirming \in Nat /\ faults \in 0..MaxFaults
    BY <2>6
  <2>4. sent \in Seq(Credentials) /\ replies \in Seq({"connected", "failed", "invalid", "missing"})
    BY DEF Init
  <2> QED BY <1>1, <1>2, <1>3, <2>1, <2>2, <2>3, <2>4, <2>5, <2>7, <2>8 DEF TypeOK, Rows
<1> QED BY <1>4, <1>5 DEF TInv

(* A thread that moves on, in a service that has started.                  *)
States == {"loop", "check", "idle", "registered", "call", "emit"} \cup Registering

Moves(t, state, c) ==
    /\ pc[t] # "boot" /\ pc[t] # "idle"
    /\ state \in States /\ c \in Credentials
    /\ state = "idle" => t # Main
    /\ state \in {"asked", "creating"} => c.id \in Ids
    /\ state \in {"answered", "writing"} => c \in Rows
    /\ pc' = [pc EXCEPT ![t] = state] /\ arg' = [arg EXCEPT ![t] = c]

(* What a step of a thread does to the rest. *)
Keeps ==
    /\ booting' \in BOOLEAN /\ unsaved' \in BOOLEAN
    /\ machineId' \in Ids /\ apiKey' \in 0..MaxKeys /\ isConnected' = isConnected
    /\ file' \in Rows \cup {Nothing} /\ writer' \in Threads \cup {Nobody}
    /\ rows' \subseteq Rows /\ keys' \in 0..MaxKeys
    /\ sent' \in Seq(Credentials)
    /\ closing' = closing /\ replies' = replies /\ confirming' = confirming
    /\ accepted' = accepted
    /\ \/ sock' = sock /\ sent' = sent
       \/ sock' = "up"
    /\ faults' \in 0..MaxFaults

LEMMA MoveTInv ==
  ASSUME TInv, NEW t \in Threads, NEW state, NEW c, Moves(t, state, c), Keeps
  PROVE  TInv'
<1> USE DEF TInv, Moves, Keeps
<1>1. pc[Main] # "boot" /\ Main \in Threads
  BY DEF Started, Threads
<1>2. pc' \in [Threads -> {"boot", "loop", "check", "idle", "registered", "call", "emit"}
                          \cup Registering]
      /\ arg' \in [Threads -> Credentials]
  BY DEF TypeOK, States
<1>3. pc'[Main] # "boot"
  BY <1>1 DEF TypeOK, States, Registering, Answering
<1>4. TypeOK'
  BY <1>2, <1>3, NothingFacts DEF TypeOK, Rows
<1>5. Carried'
  BY DEF TypeOK, Carried
<1>6. Started' /\ LinkEmpty'
  BY <1>3 DEF Started, LinkEmpty
<1> QED BY <1>4, <1>5, <1>6

(* What a thread knows that is neither starting nor at rest. *)
LEMMA Knows ==
  ASSUME TInv, NEW t \in Threads, pc[t] # "boot", pc[t] # "idle"
  PROVE  /\ machineId \in Ids /\ arg[t] \in Credentials
         /\ [id |-> machineId, key |-> NoKey] \in Credentials
         /\ [id |-> machineId, key |-> NoKey].id = machineId
         /\ Current \in Credentials
         /\ apiKey # 0 => Current \in Rows
         /\ arg = [arg EXCEPT ![t] = arg[t]] /\ pc = [pc EXCEPT ![t] = pc[t]]
         /\ file \in Rows \cup {Nothing} /\ rows \subseteq Rows
<1>1. machineId \in Ids /\ arg \in [Threads -> Credentials] /\ apiKey \in 0..MaxKeys
  BY DEF TInv, TypeOK, Started, Threads
<1>2. file \in Rows \cup {Nothing} /\ rows \subseteq Rows
  BY DEF TInv, TypeOK, Carried, Rows
<1>3. Current \in Credentials /\ (apiKey # 0 => Current \in Rows)
  BY <1>1 DEF Current, Credentials, Rows
<1>4. arg = [arg EXCEPT ![t] = arg[t]] /\ pc = [pc EXCEPT ![t] = pc[t]]
  BY <1>1 DEF TInv, TypeOK
<1> QED BY <1>1, <1>2, <1>3, <1>4 DEF Credentials

LEMMA ThreadTInv ==
  ASSUME TInv, NEW t \in Threads, Thread(t) \/ Failures(t)
  PROVE  TInv'
<1> DEFINE Keep(state, c) == Moves(t, state, c) /\ Keeps
<1>1. ASSUME pc[t] \notin {"boot", "idle"}, UNCHANGED <<memory, disk, link, server>>,
             booting' \in BOOLEAN, faults' \in 0..MaxFaults
      PROVE  Keeps
  BY <1>1, Knows DEF Keeps, memory, disk, link, server, TInv, TypeOK, Rows
<1>2. ASSUME pc[t] \notin {"boot", "idle"}, Return(t)
      PROVE  Moves(t, Resting(t), Nothing) /\ booting' \in BOOLEAN
  BY <1>2, NothingFacts DEF Return, Resting, Moves, Goto, Carry, States, TInv, TypeOK
<1>3. ASSUME pc[t] \notin {"boot", "idle"}, NEW state \in {"registered", "emit", "check", "creating"},
             Goto(t, state), UNCHANGED arg, state = "creating" => arg[t].id \in Ids
      PROVE  Moves(t, state, arg[t])
  BY <1>3, Knows DEF Moves, Goto, States, Registering, Answering
<1>4. faults \in 0..MaxFaults /\ (Fault => faults' \in 0..MaxFaults) /\ booting \in BOOLEAN
  BY DEF TInv, TypeOK, Fault
<1>5. CASE Ask(t)
  <2>1. Moves(t, "asked", [id |-> machineId, key |-> NoKey])
    BY <1>5, Knows DEF Ask, Moves, Goto, Carry, States, Registering, Answering
  <2>2. Keeps
    BY <1>1, <1>4, <1>5 DEF Ask
  <2> QED BY <2>1, <2>2, MoveTInv
<1>6. CASE FindRow(t)
  <2>1. Keeps
    BY <1>1, <1>4, <1>6 DEF FindRow
  <2>2. ASSUME NEW r \in rows, Answer(t, r)
        PROVE  Moves(t, "answered", r)
    BY <1>6, <2>2, Knows, NothingFacts DEF FindRow, Answer, Moves, Goto, Carry, States, Registering, Answering
  <2>3. ASSUME Goto(t, "creating"), UNCHANGED arg
        PROVE  Moves(t, "creating", arg[t])
    BY <1>3, <1>6, <2>3 DEF FindRow, TInv, Carried
  <2>4. (\E r \in rows : Answer(t, r)) \/ (Goto(t, "creating") /\ UNCHANGED arg)
    BY <1>6 DEF FindRow
  <2> QED BY <2>1, <2>2, <2>3, <2>4, MoveTInv
<1>7. CASE CreateRow(t)
  <2>1. CASE Return(t) /\ UNCHANGED server
    BY <1>1, <1>2, <1>4, <1>7, <2>1, MoveTInv DEF CreateRow
  <2>2. CASE ~(Return(t) /\ UNCHANGED server)
    <3> DEFINE row == [id |-> arg[t].id, key |-> keys + 1]
    <3>1. keys < MaxKeys /\ keys' = keys + 1 /\ rows' = rows \cup {row} /\ Answer(t, row)
          /\ UNCHANGED booting /\ UNCHANGED <<memory, disk, link, faults>> /\ pc[t] = "creating"
      BY <1>7, <2>2 DEF CreateRow
    <3>2. arg[t].id \in Ids /\ keys \in 0..MaxKeys
      BY <3>1 DEF TInv, Carried, TypeOK
    <3>3. row \in Rows /\ keys' \in 0..MaxKeys
      BY <3>1, <3>2 DEF Rows
    <3> HIDE DEF row
    <3>4. Moves(t, "answered", row)
      BY <3>1, <3>3, NothingFacts DEF Answer, Moves, Goto, Carry, States, Registering, Answering
    <3>5. Keeps
      BY <1>4, <3>1, <3>3, Knows DEF Keeps, memory, disk, link, TInv, TypeOK
    <3> QED BY <3>4, <3>5, MoveTInv
  <2> QED BY <2>1, <2>2
<1>8. CASE RegisterFails(t) \/ DialFails(t) \/ EmitNothing(t)
  <2>1. pc[t] \notin {"boot", "idle"} /\ Return(t) /\ UNCHANGED <<memory, disk, link, server>>
        /\ faults' \in 0..MaxFaults
    BY <1>4, <1>8 DEF RegisterFails, DialFails, EmitNothing
  <2> QED BY <1>1, <1>2, <2>1, MoveTInv
<1>9. CASE TakeAnswer(t)
  <2>1. arg[t] \in Rows /\ pc[t] = "answered"
    BY <1>9 DEF TakeAnswer, TInv, Carried
  <2>2. Moves(t, "save", Nothing)
    BY <1>9, <2>1, NothingFacts DEF TakeAnswer, Moves, Goto, Carry, States, Registering
  <2>3. machineId' \in Ids /\ apiKey' \in 0..MaxKeys
    BY <1>9, <2>1, NothingFacts DEF TakeAnswer
  <2>4. Keeps
    BY <1>4, <1>9, <2>1, <2>3, Knows DEF TakeAnswer, Keeps, disk, link, server, TInv, TypeOK
  <2> QED BY <2>2, <2>4, MoveTInv
<1>10. CASE OpenFile(t)
  <2>1. pc[t] = "save" /\ UNCHANGED <<memory, link, server, faults>>
    BY <1>10 DEF OpenFile
  <2>2. CASE apiKey # NoKey /\ writer = Nobody
    <3>1. Moves(t, "writing", Current)
      BY <1>10, <2>1, <2>2, Knows
      DEF OpenFile, Moves, Goto, Carry, States, Registering, Answering
    <3>2. file' = Nothing /\ writer' = t /\ booting' = booting /\ unsaved' \in BOOLEAN
      BY <1>10, <2>1, <2>2 DEF OpenFile
    <3>3. Keeps
      BY <1>4, <2>1, <3>2, Knows DEF Keeps, memory, link, server, TInv, TypeOK
    <3> QED BY <3>1, <3>3, MoveTInv
  <2>3. CASE apiKey # NoKey /\ writer # Nobody
    <3>1. Return(t) /\ UNCHANGED disk
      BY <1>10, <2>3 DEF OpenFile
    <3> QED BY <1>1, <1>2, <1>4, <2>1, <3>1, MoveTInv
  <2>4. CASE apiKey = NoKey
    <3>1. Goto(t, "registered") /\ UNCHANGED <<disk, arg, booting>>
      BY <1>10, <2>4 DEF OpenFile
    <3> QED BY <1>1, <1>3, <1>4, <2>1, <3>1, MoveTInv
  <2> QED BY <2>2, <2>3, <2>4
<1>11. CASE WriteFile(t)
  <2>1. pc[t] = "writing" /\ arg[t] \in Rows
    BY <1>11 DEF WriteFile, TInv, Carried
  <2>2. Moves(t, "registered", Nothing)
    BY <1>11, <2>1, NothingFacts DEF WriteFile, Moves, Goto, Carry, States, Registering, Answering
  <2>3. Keeps
    BY <1>4, <1>11, <2>1, Knows DEF WriteFile, Keeps, memory, link, server, TInv, TypeOK
  <2> QED BY <2>2, <2>3, MoveTInv
<1>12. CASE SaveFails(t)
  <2>1. pc[t] \notin {"boot", "idle"} /\ Return(t) /\ faults' \in 0..MaxFaults
        /\ UNCHANGED <<memory, file, link, server>> /\ writer' \in {Nobody, writer}
        /\ unsaved' \in BOOLEAN
    BY <1>4, <1>12 DEF SaveFails, TInv, TypeOK
  <2>2. Keeps
    BY <1>2, <2>1, Knows DEF Keeps, memory, link, server, TInv, TypeOK
  <2> QED BY <1>2, <2>1, <2>2, MoveTInv
<1>13. CASE Registered(t)
  <2>1. pc[t] = "registered" /\ UNCHANGED <<memory, disk, link, server, faults>>
    BY <1>13 DEF Registered
  <2>2. CASE CallConnect(t, Current) /\ UNCHANGED booting
    <3>1. Moves(t, "call", Current)
      BY <2>1, <2>2, Knows DEF CallConnect, Moves, Goto, Carry, States, Registering, Answering
    <3> QED BY <1>1, <1>4, <2>1, <2>2, <3>1, MoveTInv
  <2>3. CASE Goto(t, "check") /\ UNCHANGED <<arg, booting>>
    BY <1>1, <1>3, <1>4, <2>1, <2>3, MoveTInv
  <2>4. CASE Return(t)
    BY <1>1, <1>2, <1>4, <2>1, <2>4, MoveTInv
  <2> QED BY <1>13, <2>2, <2>3, <2>4 DEF Registered
<1>14. CASE Dial(t)
  <2>1. pc[t] = "call" /\ Goto(t, "emit") /\ UNCHANGED arg
    BY <1>14 DEF Dial
  <2>2. sent' \in Seq(Credentials)
    BY <1>14, <2>1, Knows DEF Dial, Open
  <2>3. Keeps
    BY <1>4, <1>14, <2>2, Knows DEF Dial, Open, Keeps, memory, disk, server, TInv, TypeOK
  <2> QED BY <1>3, <2>1, <2>3, MoveTInv
<1>15. CASE Emit(t)
  <2>1. pc[t] \notin {"boot", "idle"} /\ Return(t) /\ sock = "up" /\ sock' = sock
    BY <1>15 DEF Emit
  <2>2. sent' = Append(sent, arg[t]) /\ arg[t] \in Credentials /\ sent \in Seq(Credentials)
    BY <1>15, <2>1, Knows DEF Emit, TInv, TypeOK
  <2>3. sent' \in Seq(Credentials)
    BY <2>2
  <2>4. Keeps
    BY <1>2, <1>4, <1>15, <2>1, <2>3, Knows DEF Emit, Keeps, memory, disk, server, TInv, TypeOK
  <2> QED BY <1>2, <2>1, <2>4, MoveTInv
<1> QED BY <1>5, <1>6, <1>7, <1>8, <1>9, <1>10, <1>11, <1>12, <1>13, <1>14, <1>15 DEF Thread, Failures

(* Steps of Main alone. *)
LEMMA MainTInv == ASSUME TInv, Start \/ Tick \/ Check PROVE TInv'
<1>1. Main \in Threads /\ faults \in 0..MaxFaults /\ booting \in BOOLEAN
  BY DEF Threads, TInv, TypeOK
<1>2. ASSUME UNCHANGED <<memory, disk, link, server, booting, faults>>,
             pc[Main] \notin {"boot", "idle"}
      PROVE  Keeps
  BY <1>1, <1>2, Knows DEF Keeps, memory, disk, link, server, TInv, TypeOK, Rows
<1>3. CASE Tick
  <2>1. Moves(Main, IF apiKey = NoKey THEN "register" ELSE "check", arg[Main])
    BY <1>1, <1>3, Knows DEF Tick, Goto, Moves, States, Registering, Answering
  <2>2. Keeps
    BY <1>2, <1>3 DEF Tick
  <2> QED BY <1>1, <2>1, <2>2, MoveTInv
<1>4. CASE Check
  <2>1. Moves(Main, "loop", arg[Main]) \/ Moves(Main, "call", Current)
    BY <1>1, <1>4, Knows DEF Check, CallConnect, Carry, Goto, Moves, States, Registering, Answering
  <2>2. Keeps
    BY <1>2, <1>4 DEF Check
  <2> QED BY <1>1, <2>1, <2>2, MoveTInv
<1>5. CASE Start
  <2> DEFINE state == IF file # Nothing THEN "call" ELSE "register"
             c == IF file # Nothing THEN file ELSE arg[Main]
  <2>1. pc[Main] = "boot" /\ machineId' \in Ids /\ apiKey' \in 0..MaxKeys
    BY <1>5, NothingFacts DEF Start, TInv, TypeOK, Carried
  <2>2. pc' = [pc EXCEPT ![Main] = state] /\ arg' = [arg EXCEPT ![Main] = c] /\ c \in Credentials
        /\ UNCHANGED <<isConnected, disk, link, server, booting, faults>>
    BY <1>1, <1>5, NothingFacts DEF Start, CallConnect, Carry, Goto, TInv, TypeOK
  <2>3. state \in {"call", "register"}
    OBVIOUS
  <2> HIDE DEF state, c
  <2>4. pc' \in [Threads -> {"boot", "loop", "check", "idle", "registered", "call", "emit"}
                            \cup Registering]
        /\ arg' \in [Threads -> Credentials] /\ pc'[Main] # "boot"
    BY <1>1, <2>2, <2>3 DEF TInv, TypeOK, Registering
  <2>5. TypeOK'
    BY <2>1, <2>2, <2>4 DEF TInv, TypeOK, disk, link, server
  <2>6. Carried'
    BY <1>1, <2>2, <2>3 DEF TInv, TypeOK, Carried, disk
  <2>7. Started' /\ LinkEmpty'
    BY <2>2, <2>4 DEF TInv, Started, LinkEmpty, link
  <2> QED BY <2>5, <2>6, <2>7 DEF TInv
<1> QED BY <1>3, <1>4, <1>5

LEMMA HeadTail ==
  ASSUME NEW S, NEW q \in Seq(S), q # <<>>
  PROVE  Head(q) \in S /\ Tail(q) \in Seq(S)
  OBVIOUS

LEMMA Appended ==
  ASSUME NEW S, NEW q \in Seq(S), NEW e \in S
  PROVE  Append(q, e) \in Seq(S)
  OBVIOUS

Replies == {"connected", "failed", "invalid", "missing"}

(* Steps on the link that leave the threads alone. *)
LEMMA LinkTInv ==
  ASSUME TInv,
         UNCHANGED <<disk, server, thread>> /\ machineId' = machineId /\ apiKey' = apiKey,
         isConnected' \in BOOLEAN, closing' \in BOOLEAN, accepted' \in BOOLEAN,
         confirming' \in Nat, faults' \in 0..MaxFaults,
         sent' \in Seq(Credentials), replies' \in Seq(Replies),
         sock' \in {sock, "up", "lost"}, sock' # "down" => sock # "down",
         sock' # "up" => sent' = <<>> /\ replies' = <<>> /\ confirming' = 0 /\ ~accepted'
  PROVE  TInv'
<1> USE DEF TInv, disk, server, thread
<1>1. Started' /\ LinkEmpty'
  BY DEF Started, LinkEmpty, TypeOK
<1>2. Carried'
  BY DEF Carried
<1>3. TypeOK'
  BY DEF TypeOK, Replies
<1> QED BY <1>1, <1>2, <1>3

LEMMA AnswersTInv ==
  ASSUME TInv, Verify \/ Confirm \/ ConfirmFails \/ MachineConnected \/ ErrorLogged
               \/ LibraryReconnects \/ Drop \/ Disconnected
  PROVE  TInv'
<1>1. /\ isConnected \in BOOLEAN /\ closing \in BOOLEAN /\ accepted \in BOOLEAN
      /\ confirming \in Nat /\ faults \in 0..MaxFaults /\ (Fault => faults' \in 0..MaxFaults)
      /\ sent \in Seq(Credentials) /\ replies \in Seq(Replies)
  BY DEF TInv, TypeOK, Replies, Fault
<1>2. \/ sock = "up"
      \/ sent = <<>> /\ replies = <<>> /\ confirming = 0 /\ ~accepted
  BY DEF TInv, LinkEmpty
<1>3. CASE Verify
  <2>1. Tail(sent) \in Seq(Credentials)
    BY <1>1, <1>3, HeadTail DEF Verify
  <2>2. Append(replies, "missing") \in Seq(Replies) /\ Append(replies, "invalid") \in Seq(Replies)
    BY <1>1, Appended DEF Replies
  <2>3. replies' \in Seq(Replies)
    BY <1>1, <1>3, <2>2 DEF Verify
  <2>4. \/ accepted' = TRUE /\ confirming' = confirming + 1
        \/ accepted' = accepted /\ confirming' = confirming
    BY <1>3 DEF Verify
  <2>5. confirming' \in Nat
    BY <1>1, <2>4
  <2>6. accepted' \in BOOLEAN
    BY <1>1, <2>4
  <2>7. /\ sock = "up" /\ sent' = Tail(sent)
        /\ UNCHANGED <<memory, disk, sock, closing, server, thread, faults>>
    BY <1>2, <1>3 DEF Verify
  <2> QED BY <1>1, <2>1, <2>3, <2>5, <2>6, <2>7, LinkTInv DEF memory
<1>4. CASE Confirm \/ ConfirmFails
  <2>1. Append(replies, "connected") \in Seq(Replies) /\ Append(replies, "failed") \in Seq(Replies)
    BY <1>1, Appended DEF Replies
  <2>2. confirming > 0 /\ confirming' = confirming - 1 /\ faults' \in 0..MaxFaults
        /\ replies' \in {Append(replies, "connected"), Append(replies, "failed")}
    BY <1>1, <1>4 DEF Confirm, ConfirmFails
  <2>3. sock = "up" /\ UNCHANGED <<memory, disk, sock, closing, sent, accepted, server, thread>>
    BY <1>2, <1>4 DEF Confirm, ConfirmFails
  <2>4. replies' \in Seq(Replies)
    BY <2>1, <2>2
  <2>5. confirming' \in Nat
    BY <1>1, <2>2
  <2> QED BY <1>1, <2>2, <2>3, <2>4, <2>5, LinkTInv DEF memory
<1>5. CASE MachineConnected \/ ErrorLogged
  <2>1. replies # <<>> /\ replies' = Tail(replies)
        /\ UNCHANGED <<sock, closing, sent, confirming, accepted, server, booting, faults, disk,
                       pc, arg, machineId, apiKey>>
        /\ isConnected' \in BOOLEAN
    BY <1>1, <1>5 DEF MachineConnected, ErrorLogged, HandleReply, memory
  <2>2. replies' \in Seq(Replies)
    BY <1>1, <2>1, HeadTail
  <2> QED BY <1>1, <1>2, <2>1, <2>2, LinkTInv DEF thread
<1>6. CASE LibraryReconnects
  <2>1. Current \in Credentials
    BY DEF TInv, TypeOK, Current, Credentials
  <2>2. sent' \in Seq(Credentials)
    BY <1>6, <2>1 DEF LibraryReconnects, Open
  <2> QED BY <1>1, <1>6, <2>2, LinkTInv DEF LibraryReconnects, Open, memory
<1>7. CASE Drop
  <2>1. /\ UNCHANGED <<memory, disk, server, thread>> /\ closing' = TRUE /\ Fault
        /\ sock = "up" /\ sock' = "lost" /\ sent' = <<>> /\ replies' = <<>>
        /\ confirming' = 0 /\ accepted' = FALSE
    BY <1>7 DEF Drop, LoseSocket
  <2>2. sent' \in Seq(Credentials) /\ replies' \in Seq(Replies)
    BY <2>1
  <2> QED BY <1>1, <2>1, <2>2, LinkTInv DEF memory
<1>8. CASE Disconnected
  BY <1>1, <1>2, <1>8, LinkTInv DEF Disconnected
<1> QED BY <1>3, <1>4, <1>5, <1>6, <1>7, <1>8

LEMMA RejectedTInv == ASSUME TInv, Rejected PROVE TInv'
<1>1. replies \in Seq(Replies) /\ replies # <<>> /\ replies' = Tail(replies)
      /\ UNCHANGED <<sock, closing, sent, confirming, accepted, server, booting, faults,
                     machineId, isConnected, writer, arg>>
  BY DEF Rejected, HandleReply, TInv, TypeOK, Replies
<1>2. replies' \in Seq(Replies) /\ sock = "up" /\ pc[Main] # "boot"
  BY <1>1, HeadTail DEF TInv, LinkEmpty, Started
<1>3. \/ UNCHANGED <<apiKey, file, unsaved, pc>>
      \/ \E r \in Recoveries : pc[r] = "idle" /\ Goto(r, "register")
                               /\ file' = Nothing /\ unsaved' = FALSE /\ apiKey' = 0
  BY DEF Rejected
<1>4. CASE UNCHANGED <<apiKey, file, unsaved, pc>>
  BY <1>1, <1>2, <1>4
  DEF TInv, TypeOK, Carried, Started, LinkEmpty, Replies, server
<1>5. ASSUME NEW r \in Recoveries, pc[r] = "idle", Goto(r, "register"),
             file' = Nothing, unsaved' = FALSE, apiKey' = 0
      PROVE  TInv'
  <2>1. /\ pc' \in [Threads -> {"boot", "loop", "check", "idle", "registered", "call", "emit"}
                               \cup Registering]
        /\ pc'[Main] = pc[Main] /\ pc' = [pc EXCEPT ![r] = "register"]
        /\ r \in Threads
    BY <1>5 DEF Goto, TInv, TypeOK, Threads, Registering
  <2>2. TypeOK'
    <3>1. unsaved' \in BOOLEAN
      BY <1>5
    <3> QED BY <1>1, <1>2, <1>5, <2>1, <3>1, NothingFacts DEF TInv, TypeOK, Replies, server
  <2>3. Carried'
    BY <1>1, <1>5, <2>1 DEF TInv, TypeOK, Carried
  <2> QED BY <1>1, <1>2, <2>1, <2>2, <2>3 DEF TInv, Started, LinkEmpty
<1> QED BY <1>3, <1>4, <1>5

LEMMA RestoreTInv == ASSUME TInv, Restore PROVE TInv'
<1>1. /\ UNCHANGED <<memory, disk, keys>> /\ rows' = {} /\ faults' \in 0..MaxFaults
      /\ pc' = [t \in Threads |-> IF pc[t] \in Answering THEN Resting(t) ELSE pc[t]]
      /\ arg' = [t \in Threads |-> IF pc[t] \in Answering THEN Nothing ELSE arg[t]]
      /\ booting' \in BOOLEAN
  BY DEF Restore, Fault, TInv, TypeOK
<1>2. Main \in Threads /\ Main \notin Recoveries /\ Recoveries \subseteq Threads
  BY DEF Threads
<1>3. /\ pc' \in [Threads -> {"boot", "loop", "check", "idle", "registered", "call", "emit"}
                             \cup Registering]
      /\ arg' \in [Threads -> Credentials]
      /\ pc'[Main] = "boot" => pc[Main] = "boot"
      /\ \A r \in Recoveries : pc[r] = "idle" => pc'[r] = "idle"
  BY <1>1, <1>2, NothingFacts DEF Resting, Answering, Registering, TInv, TypeOK
<1>9. pc'[Main] # "boot" => pc[Main] # "boot"
  BY <1>1, <1>2 DEF Answering
<1>4. \/ UNCHANGED link
      \/ sock = "up" /\ LoseSocket("lost") /\ closing' = TRUE
  BY DEF Restore
<1>5. Started' /\ LinkEmpty'
  BY <1>3, <1>4 DEF TInv, Started, LinkEmpty, LoseSocket, link
<1>6. Carried'
  BY <1>1 DEF TInv, Carried, disk, Resting, Answering
<1>7. /\ sent' \in Seq(Credentials) /\ replies' \in Seq(Replies) /\ confirming' \in Nat
      /\ accepted' \in BOOLEAN /\ closing' \in BOOLEAN /\ sock' \in {"down", "up", "lost"}
  <2>1. CASE UNCHANGED link
    BY <2>1 DEF TInv, TypeOK, link, Replies
  <2>2. CASE sock = "up" /\ LoseSocket("lost") /\ closing' = TRUE
    <3>1. /\ sent' = <<>> /\ replies' = <<>> /\ confirming' = 0 /\ sock' = "lost"
          /\ accepted' = FALSE /\ closing' = TRUE
      BY <2>2 DEF LoseSocket
    <3>2. sent' \in Seq(Credentials) /\ replies' \in Seq(Replies)
      BY <3>1
    <3> QED BY <3>1, <3>2
  <2> QED BY <1>4, <2>1, <2>2
<1>8. TypeOK'
  <2>1. rows' \subseteq [id : Ids, key : 1..MaxKeys] /\ keys' \in 0..MaxKeys
    BY <1>1 DEF TInv, TypeOK
  <2>2. /\ machineId' \in Ids \cup {NoId} /\ (pc'[Main] # "boot" => machineId' \in Ids)
        /\ apiKey' \in 0..MaxKeys /\ isConnected' \in BOOLEAN
        /\ file' \in Credentials /\ writer' \in Threads \cup {Nobody}
        /\ unsaved' \in BOOLEAN
    BY <1>1, <1>2, <1>9 DEF TInv, TypeOK, memory, disk
  <2> QED BY <1>1, <1>3, <1>7, <2>1, <2>2 DEF TypeOK, Replies
<1> QED BY <1>5, <1>6, <1>8 DEF TInv

LEMMA CrashTInv == ASSUME TInv, Crash PROVE TInv'
<1>1. /\ pc' = [t \in Threads |-> IF t = Main THEN "boot" ELSE "idle"]
      /\ arg' = [t \in Threads |-> Nothing]
      /\ machineId' = NoId /\ apiKey' = 0 /\ writer' = Nobody /\ UNCHANGED <<file, server>>
      /\ sock' = "down" /\ sent' = <<>> /\ replies' = <<>> /\ confirming' = 0
      /\ faults' \in 0..MaxFaults
  BY DEF Crash, LoseSocket, Fault, TInv, TypeOK
<1>2. isConnected' = FALSE /\ accepted' = FALSE /\ closing' = FALSE /\ booting' = TRUE
      /\ unsaved' = FALSE
  BY DEF Crash, LoseSocket
<1>3. /\ pc' \in [Threads -> {"boot", "loop", "check", "idle", "registered", "call", "emit"}
                             \cup Registering]
      /\ arg' \in [Threads -> Credentials] /\ pc'[Main] = "boot"
      /\ \A r \in Recoveries : pc'[r] = "idle"
      /\ \A t \in Threads : pc'[t] \in {"boot", "idle"}
  BY <1>1, NothingFacts DEF Threads
<1>4. Started' /\ LinkEmpty'
  BY <1>1, <1>2, <1>3 DEF Started, LinkEmpty
<1>5. Carried'
  BY <1>1, <1>3 DEF TInv, Carried
<1>6. isConnected' \in BOOLEAN /\ accepted' \in BOOLEAN /\ closing' \in BOOLEAN /\ booting' \in BOOLEAN
      /\ unsaved' \in BOOLEAN
  BY <1>2
<1>7. TypeOK'
  BY <1>1, <1>3, <1>6, NothingFacts DEF TInv, TypeOK, server
<1> QED BY <1>4, <1>5, <1>7 DEF TInv

LEMMA NextTInv == ASSUME TInv, [Next]_vars PROVE TInv'
<1>1. CASE UNCHANGED vars
  <2>1. TypeOK'
    BY <1>1 DEF TInv, TypeOK, vars, memory, disk, link, server, thread
  <2>2. Carried' /\ Started' /\ LinkEmpty'
    BY <1>1 DEF TInv, Carried, Started, LinkEmpty, vars, disk, link, thread
  <2> QED BY <2>1, <2>2 DEF TInv
<1>2. CASE Next
  BY <1>2, MainTInv, ThreadTInv, AnswersTInv, RejectedTInv, RestoreTInv, CrashTInv
  DEF Next, Watchdog, ServerSteps, Handlers, Threads
<1> QED BY <1>1, <1>2

(* Type correctness: every reachable state is well typed, and a service    *)
(* that has started always has an id.                                      *)
THEOREM TypeCorrect == Spec => []TypeOK
<1>1. Spec => []TInv
  BY InitTInv, NextTInv, PTL DEF Spec
<1> QED BY <1>1, PTL DEF TInv

-----------------------------------------------------------------------------
(* OnlineIsReal needs that a confirmation is only under way on a socket    *)
(* the server has accepted.                                                *)
Confirmed(q) == \E i \in 1..Len(q) : q[i] = "connected"
Promised == confirming > 0 \/ Confirmed(replies) => accepted
OInv == TInv /\ OnlineIsReal /\ Promised

LEMMA ConfirmedTail ==
  ASSUME NEW q \in Seq(Replies), q # <<>>
  PROVE  /\ Confirmed(Tail(q)) => Confirmed(q)
         /\ Head(q) = "connected" => Confirmed(q)
<1>1. Len(q) \in Nat /\ Len(q) >= 1 /\ Head(q) = q[1]
  OBVIOUS
<1>2. Len(Tail(q)) = Len(q) - 1 /\ \A i \in 1..Len(q) - 1 : Tail(q)[i] = q[i + 1]
  OBVIOUS
<1>3. \A i \in 1..Len(q) - 1 : i + 1 \in 1..Len(q)
  BY <1>1
<1> QED BY <1>1, <1>2, <1>3 DEF Confirmed

LEMMA ConfirmedAppend ==
  ASSUME NEW q \in Seq(Replies), NEW e \in Replies, Confirmed(Append(q, e))
  PROVE  Confirmed(q) \/ e = "connected"
<1>1. Len(q) \in Nat /\ Len(Append(q, e)) = Len(q) + 1
      /\ Append(q, e)[Len(q) + 1] = e /\ \A i \in 1..Len(q) : Append(q, e)[i] = q[i]
  OBVIOUS
<1> QED BY <1>1 DEF Confirmed

LEMMA ConfirmedEmpty == ~Confirmed(<<>>)
  BY DEF Confirmed

LEMMA InitOInv == Init => OInv
<1> SUFFICES ASSUME Init PROVE OInv
  OBVIOUS
<1>1. isConnected = FALSE /\ confirming = 0 /\ replies = <<>>
  BY DEF Init
<1> QED BY <1>1, InitTInv, ConfirmedEmpty DEF OInv, OnlineIsReal, Promised

(* Threads never touch what the server has accepted or answered.           *)
LEMMA ThreadKeepsLink ==
  ASSUME NEW t \in Threads, Thread(t) \/ Failures(t)
  PROVE  /\ UNCHANGED <<isConnected, closing, replies, confirming, accepted>>
         /\ sock' = sock \/ (sock # "up" /\ sock' = "up")
<1>1. ASSUME \/ UNCHANGED link
             \/ sock # "up" /\ Open
             \/ UNCHANGED <<sock, closing, replies, confirming, accepted>>
      PROVE  /\ UNCHANGED <<closing, replies, confirming, accepted>>
             /\ sock' = sock \/ (sock # "up" /\ sock' = "up")
  BY <1>1 DEF link, Open
<1>2. isConnected' = isConnected
  BY DEF Thread, Failures, Ask, FindRow, CreateRow, TakeAnswer, OpenFile, WriteFile, Registered,
         Dial, Emit, EmitNothing, RegisterFails, SaveFails, DialFails, memory
<1>3. \/ UNCHANGED link
      \/ sock # "up" /\ Open
      \/ UNCHANGED <<sock, closing, replies, confirming, accepted>>
  BY DEF Thread, Failures, Ask, FindRow, CreateRow, TakeAnswer, OpenFile, WriteFile, Registered,
         Dial, Emit, EmitNothing, RegisterFails, SaveFails, DialFails
<1> QED BY <1>1, <1>2, <1>3

LEMMA NextOInv == ASSUME OInv, [Next]_vars PROVE OInv'
<1> USE DEF OInv
<1>1. TInv'
  BY NextTInv
<1> SUFFICES OnlineIsReal' /\ Promised'
  BY <1>1
<1>2. replies \in Seq(Replies) /\ (sock # "up" => replies = <<>> /\ confirming = 0 /\ ~accepted)
      /\ confirming \in Nat
  BY DEF TInv, TypeOK, LinkEmpty, Replies
<1>3. ASSUME UNCHANGED <<isConnected, closing, replies, confirming, accepted>>,
             sock' = sock \/ (sock # "up" /\ sock' = "up")
      PROVE  OnlineIsReal' /\ Promised'
  BY <1>3 DEF OnlineIsReal, Promised, Confirmed
<1>4. CASE UNCHANGED vars
  BY <1>3, <1>4 DEF vars, memory, link
<1>5. CASE Start \/ Tick \/ Check
  BY <1>3, <1>5 DEF Start, Tick, Check, memory, link
<1>6. ASSUME NEW t \in Threads, Thread(t) \/ Failures(t)
      PROVE  OnlineIsReal' /\ Promised'
  BY <1>3, <1>6, ThreadKeepsLink
<1>7. CASE LibraryReconnects
  <2>1. /\ UNCHANGED <<isConnected, closing, replies, confirming, accepted>>
        /\ sock # "up" /\ sock' = "up"
    BY <1>7 DEF LibraryReconnects, Open, memory
  <2> QED BY <1>3, <2>1
<1>8. CASE Verify
  <2>1. /\ UNCHANGED <<isConnected, closing, sock>>
        /\ \/ accepted' = TRUE
           \/ /\ UNCHANGED <<accepted, confirming>>
              /\ \E e \in {"missing", "invalid"} : replies' = Append(replies, e)
    BY <1>8 DEF Verify, memory
  <2>2. Confirmed(replies') => accepted' \/ Confirmed(replies)
    BY <1>2, <2>1, ConfirmedAppend DEF Replies
  <2> QED BY <2>1, <2>2 DEF OnlineIsReal, Promised
<1>9. CASE Confirm \/ ConfirmFails
  <2>1. /\ UNCHANGED <<isConnected, closing, sock, accepted>> /\ confirming > 0
    BY <1>9 DEF Confirm, ConfirmFails, memory
  <2> QED BY <2>1 DEF OnlineIsReal, Promised
<1>10. CASE MachineConnected \/ ErrorLogged \/ Rejected
  <2>1. /\ replies # <<>> /\ replies' = Tail(replies)
        /\ UNCHANGED <<sock, closing, confirming, accepted>>
        /\ isConnected' = isConnected \/ Head(replies) = "connected"
    BY <1>10 DEF MachineConnected, ErrorLogged, Rejected, HandleReply, memory
  <2>2. (Confirmed(replies') => Confirmed(replies))
        /\ (Head(replies) = "connected" => Confirmed(replies))
    BY <1>2, <2>1, ConfirmedTail
  <2>3. sock = "up"
    BY <1>2, <2>1
  <2> QED BY <2>1, <2>2, <2>3 DEF OnlineIsReal, Promised
<1>11. ASSUME NEW state, LoseSocket(state)
       PROVE  Promised'
  BY <1>11, ConfirmedEmpty DEF LoseSocket, Promised
<1>12. CASE Drop
  BY <1>11, <1>12 DEF Drop, OnlineIsReal
<1>13. CASE Disconnected
  BY <1>13 DEF Disconnected, OnlineIsReal, Promised, Confirmed
<1>14. CASE Restore
  <2>1. CASE sock = "up"
    BY <1>11, <1>14, <2>1 DEF Restore, OnlineIsReal
  <2>2. CASE sock # "up"
    BY <1>3, <1>14, <2>2 DEF Restore, link, memory
  <2> QED BY <2>1, <2>2
<1>15. CASE Crash
  BY <1>11, <1>15 DEF Crash, OnlineIsReal
<1>16. Main \in Threads /\ Recoveries \subseteq Threads
  BY DEF Threads
<1> QED
  BY <1>1, <1>4, <1>5, <1>6, <1>7, <1>8, <1>9, <1>10, <1>12, <1>13, <1>14, <1>15, <1>16
  DEF Next, Watchdog, ServerSteps, Handlers

(* A service that takes itself for connected is accepted by the server on  *)
(* the socket it has, once the loss of an earlier one has been announced.  *)
THEOREM OnlineMeansAccepted == Spec => []OnlineIsReal
<1>1. Spec => []OInv
  BY InitOInv, NextOInv, PTL DEF Spec
<1> QED BY <1>1, PTL DEF OInv
-----------------------------------------------------------------------------
(* DiskMatchesMemory needs that the server never has two rows of this      *)
(* computer, that what is on its way into memory or into the file is that  *)
(* row, and that a file somebody has open is empty and his alone.          *)
OneRow ==
    /\ \A r, s \in rows : r = s
    /\ \A t \in Threads :
          /\ pc[t] \in {"answered", "writing"} => arg[t] \in rows
          /\ pc[t] = "creating" => \A r \in rows : r.id = arg[t].id
          /\ pc[t] \in {"asked", "creating"} /\ rows = {} => arg[t].id = machineId

Saving ==
    /\ writer # Nobody => pc[writer] = "writing"
    /\ \A t \in Threads :
          /\ pc[t] = "writing" => writer = t /\ file = Nothing
          /\ pc[t] \in {"save", "writing"} /\ apiKey # NoKey => Current \in rows
    /\ pc[Main] = "boot" => apiKey = NoKey

DInv == TInv /\ OneRow /\ Saving /\ DiskMatchesMemory

(* What a step says of the threads, one by one.                            *)
Stepped(t, state, c) ==
    /\ pc' = [pc EXCEPT ![t] = state] /\ arg' = [arg EXCEPT ![t] = c]

LEMMA SteppedFacts ==
  ASSUME TInv, NEW t \in Threads, NEW state, NEW c, Stepped(t, state, c)
  PROVE  /\ pc'[t] = state /\ arg'[t] = c
         /\ \A u \in Threads \ {t} : pc'[u] = pc[u] /\ arg'[u] = arg[u]
         /\ Main \in Threads /\ (writer # Nobody => writer \in Threads)
  BY DEF Stepped, TInv, TypeOK, Threads

LEMMA ReturnStepped ==
  ASSUME NEW t \in Threads, Return(t)
  PROVE  Stepped(t, Resting(t), Nothing) /\ Resting(t) \in {"loop", "idle"}
  BY DEF Return, Goto, Carry, Stepped, Resting

LEMMA SameStepped ==
  ASSUME TInv, NEW t \in Threads, NEW state, Goto(t, state), UNCHANGED arg
  PROVE  Stepped(t, state, arg[t])
  BY DEF Goto, Stepped, TInv, TypeOK

LEMMA InitDInv == Init => DInv
<1> SUFFICES ASSUME Init PROVE DInv
  OBVIOUS
<1>1. TInv
  BY InitTInv
<1>2. apiKey = NoKey /\ writer = Nobody /\ \A r, s \in rows : r = s
  BY DEF Init
<1>3. \A t \in Threads : pc[t] \in {"boot", "idle"}
  BY DEF Init
<1> QED BY <1>1, <1>2, <1>3 DEF DInv, OneRow, Saving, DiskMatchesMemory

(* Steps that leave the credentials and the threads alone.                 *)
LEMMA StillDInv ==
  ASSUME DInv, TInv', UNCHANGED <<machineId, apiKey, disk, rows, pc, arg>>
  PROVE  DInv'
  BY DEF DInv, OneRow, Saving, DiskMatchesMemory, Current, disk

(* Steps of a thread that neither saves nor is going to.                   *)
LEMMA QuietDInv ==
  ASSUME DInv, TInv', NEW t \in Threads, NEW state, NEW c, Stepped(t, state, c),
         UNCHANGED <<machineId, apiKey, disk, rows>>,
         pc[t] \notin {"boot", "save", "writing"}, state \notin {"boot", "save", "writing"},
         state = "answered" => c \in rows,
         state \in {"asked", "creating"} /\ rows = {} => c.id = machineId,
         state = "creating" => rows = {}
  PROVE  DInv'
<1>1. /\ pc'[t] = state /\ arg'[t] = c
      /\ \A u \in Threads \ {t} : pc'[u] = pc[u] /\ arg'[u] = arg[u]
      /\ Main \in Threads /\ (writer # Nobody => writer \in Threads)
  BY SteppedFacts DEF DInv
<1>2. OneRow'
  BY <1>1 DEF DInv, OneRow
<1>3. Saving'
  BY <1>1 DEF DInv, Saving, Current, disk
<1>4. DiskMatchesMemory'
  BY <1>1 DEF DInv, DiskMatchesMemory, Current, disk
<1> QED BY <1>2, <1>3, <1>4 DEF DInv

LEMMA CreateDInv ==
  ASSUME DInv, TInv', NEW t \in Threads, CreateRow(t)
  PROVE  DInv'
<1>1. pc[t] = "creating" /\ UNCHANGED <<memory, disk, link, faults>>
  BY DEF CreateRow
<1>2. CASE Return(t) /\ UNCHANGED server
  BY <1>1, <1>2, ReturnStepped, QuietDInv DEF memory, server
<1>3. CASE ~(Return(t) /\ UNCHANGED server)
  <2> DEFINE row == [id |-> arg[t].id, key |-> keys + 1]
  <2>1. rows' = rows \cup {row} /\ Answer(t, row) /\ ~ \E r \in rows : r.id = arg[t].id
    BY <1>3 DEF CreateRow
  <2>2. rows = {} /\ arg[t].id = machineId
    BY <1>1, <2>1 DEF DInv, OneRow
  <2>3. row.id = arg[t].id
    OBVIOUS
  <2> HIDE DEF row
  <2>4. Stepped(t, "answered", row)
    BY <2>1 DEF Answer, Carry, Goto, Stepped
  <2>5. /\ pc'[t] = "answered" /\ arg'[t] = row
        /\ \A u \in Threads \ {t} : pc'[u] = pc[u] /\ arg'[u] = arg[u]
        /\ Main \in Threads /\ (writer # Nobody => writer \in Threads)
    BY <2>4, SteppedFacts DEF DInv
  <2>6. OneRow'
    BY <1>1, <2>1, <2>2, <2>3, <2>5 DEF DInv, OneRow, memory
  <2>7. Saving'
    BY <1>1, <2>1, <2>2, <2>5 DEF DInv, Saving, Current, memory, disk
  <2>8. DiskMatchesMemory'
    BY <1>1, <2>5 DEF DInv, DiskMatchesMemory, Current, memory, disk
  <2> QED BY <2>6, <2>7, <2>8 DEF DInv
<1> QED BY <1>2, <1>3

LEMMA TakeDInv ==
  ASSUME DInv, TInv', NEW t \in Threads, TakeAnswer(t)
  PROVE  DInv'
<1>1. /\ pc[t] = "answered" /\ apiKey' = arg[t].key /\ machineId' = arg[t].id
      /\ Stepped(t, "save", Nothing) /\ UNCHANGED <<disk, rows>>
  BY DEF TakeAnswer, Carry, Goto, Stepped, server
<1>2. arg[t] \in rows /\ arg[t] \in Rows
  BY <1>1 DEF DInv, OneRow, TInv, Carried
<1>3. Current' = arg[t]
  BY <1>1, <1>2 DEF Current, Rows
<1>4. /\ pc'[t] = "save" /\ arg'[t] = Nothing
      /\ \A u \in Threads \ {t} : pc'[u] = pc[u] /\ arg'[u] = arg[u]
      /\ Main \in Threads /\ (writer # Nobody => writer \in Threads)
  BY <1>1, SteppedFacts DEF DInv
<1>5. OneRow'
  BY <1>1, <1>2, <1>4 DEF DInv, OneRow
<1>6. pc[Main] # "boot"
  BY <1>1, <1>4 DEF DInv, TInv, Started, Threads
<1>7. Saving'
  BY <1>1, <1>2, <1>3, <1>4, <1>6 DEF DInv, Saving, disk
<1>8. DiskMatchesMemory'
  BY <1>4 DEF DiskMatchesMemory
<1> QED BY <1>5, <1>7, <1>8 DEF DInv

LEMMA OpenDInv ==
  ASSUME DInv, TInv', NEW t \in Threads, OpenFile(t)
  PROVE  DInv'
<1>1. pc[t] = "save" /\ UNCHANGED <<machineId, apiKey, rows>>
  BY DEF OpenFile, memory, server
<1>2. CASE apiKey # NoKey /\ writer = Nobody
  <2>1. writer' = t /\ file' = Nothing /\ Stepped(t, "writing", Current)
    BY <1>1, <1>2 DEF OpenFile, Carry, Goto, Stepped
  <2>2. Current \in rows
    BY <1>1, <1>2 DEF DInv, Saving
  <2>3. /\ pc'[t] = "writing" /\ arg'[t] = Current
        /\ \A u \in Threads \ {t} : pc'[u] = pc[u] /\ arg'[u] = arg[u] /\ Main \in Threads
    BY <2>1, SteppedFacts DEF DInv
  <2>4. OneRow'
    BY <1>1, <2>2, <2>3 DEF DInv, OneRow
  <2>5. \A u \in Threads : pc[u] # "writing"
    BY <1>2 DEF DInv, Saving, Threads
  <2>6. Saving'
    BY <1>1, <1>2, <2>1, <2>2, <2>3, <2>5 DEF DInv, Saving, Current, Threads
  <2>7. DiskMatchesMemory'
    BY <2>3 DEF DiskMatchesMemory
  <2> QED BY <2>4, <2>6, <2>7 DEF DInv
<1>3. CASE ~(apiKey # NoKey /\ writer = Nobody)
  <2>1. UNCHANGED disk /\ \E state, c : state \in {"loop", "idle", "registered"} /\ Stepped(t, state, c)
    <3>1. CASE apiKey # NoKey
      BY <1>1, <1>3, <3>1, ReturnStepped DEF OpenFile
    <3>2. CASE apiKey = NoKey
      BY <1>1, <3>2, SameStepped DEF OpenFile, DInv
    <3> QED BY <3>1, <3>2
  <2>2. PICK state, c : state \in {"loop", "idle", "registered"} /\ Stepped(t, state, c)
    BY <2>1
  <2>3. /\ pc'[t] = state /\ arg'[t] = c
        /\ \A u \in Threads \ {t} : pc'[u] = pc[u] /\ arg'[u] = arg[u]
        /\ Main \in Threads /\ (writer # Nobody => writer \in Threads)
    BY <2>2, SteppedFacts DEF DInv
  <2>4. OneRow'
    BY <1>1, <2>2, <2>3 DEF DInv, OneRow
  <2>5. Saving'
    BY <1>1, <2>1, <2>2, <2>3 DEF DInv, Saving, Current, disk
  <2>6. apiKey = NoKey \/ (writer \in Threads \ {t} /\ pc[writer] = "writing")
    BY <1>1, <1>3, <2>3 DEF DInv, Saving
  <2>7. DiskMatchesMemory'
    BY <1>1, <2>3, <2>6 DEF DiskMatchesMemory
  <2> QED BY <2>4, <2>5, <2>7 DEF DInv
<1> QED BY <1>2, <1>3

LEMMA WriteDInv ==
  ASSUME DInv, TInv', NEW t \in Threads, WriteFile(t)
  PROVE  DInv'
<1>1. /\ pc[t] = "writing" /\ UNCHANGED <<machineId, apiKey, rows, unsaved>>
      /\ file' = arg[t] /\ writer' = Nobody /\ Stepped(t, "registered", Nothing)
  BY DEF WriteFile, memory, server, Carry, Goto, Stepped
<1>2. /\ pc'[t] = "registered" /\ arg'[t] = Nothing
      /\ \A u \in Threads \ {t} : pc'[u] = pc[u] /\ arg'[u] = arg[u]
      /\ Main \in Threads
  BY <1>1, SteppedFacts DEF DInv
<1>3. apiKey # NoKey => file' = Current
  BY <1>1 DEF DInv, OneRow, Saving
<1>4. \A u \in Threads \ {t} : pc[u] # "writing"
  BY <1>1 DEF DInv, Saving
<1>5. OneRow'
  BY <1>1, <1>2 DEF DInv, OneRow
<1>6. Saving'
  BY <1>1, <1>2, <1>4 DEF DInv, Saving, Current
<1>7. DiskMatchesMemory'
  BY <1>1, <1>3 DEF DiskMatchesMemory, Current
<1> QED BY <1>5, <1>6, <1>7 DEF DInv

LEMMA SaveFailsDInv ==
  ASSUME DInv, TInv', NEW t \in Threads, SaveFails(t)
  PROVE  DInv'
<1>1. /\ pc[t] \in {"save", "writing"} /\ UNCHANGED <<machineId, apiKey, rows, file>>
      /\ writer' = IF pc[t] = "writing" THEN Nobody ELSE writer
      /\ pc[t] = "save" => unsaved' = TRUE
      /\ Stepped(t, Resting(t), Nothing) /\ Resting(t) \in {"loop", "idle"}
  BY ReturnStepped DEF SaveFails, memory, server
<1>2. /\ pc'[t] = Resting(t) /\ arg'[t] = Nothing
      /\ \A u \in Threads \ {t} : pc'[u] = pc[u] /\ arg'[u] = arg[u]
      /\ Main \in Threads /\ (writer # Nobody => writer \in Threads)
  BY <1>1, SteppedFacts DEF DInv
<1>3. OneRow'
  BY <1>1, <1>2 DEF DInv, OneRow
<1>4. Saving'
  BY <1>1, <1>2 DEF DInv, Saving, Current
<1>5. unsaved' = TRUE \/ file' = Nothing
  BY <1>1 DEF DInv, Saving
<1>6. DiskMatchesMemory'
  BY <1>5 DEF DiskMatchesMemory
<1> QED BY <1>3, <1>4, <1>6 DEF DInv

LEMMA ThreadDInv ==
  ASSUME DInv, TInv', NEW t \in Threads, Thread(t) \/ Failures(t)
  PROVE  DInv'
<1> USE DEF memory, disk, link, server
<1>1. TInv
  BY DEF DInv
<1>2. CASE Ask(t)
  <2>1. Stepped(t, "asked", [id |-> machineId, key |-> NoKey]) /\ pc[t] = "register"
    BY <1>2 DEF Ask, Carry, Goto, Stepped
  <2> QED BY <1>2, <2>1, QuietDInv DEF Ask
<1>3. CASE FindRow(t)
  <2>1. pc[t] = "asked" /\ UNCHANGED <<machineId, apiKey, disk, rows>>
    BY <1>3 DEF FindRow
  <2>2. ASSUME NEW r \in rows, Answer(t, r) PROVE DInv'
    BY <2>1, <2>2, QuietDInv DEF Answer, Carry, Goto, Stepped
  <2>3. ASSUME rows = {}, Goto(t, "creating"), UNCHANGED arg PROVE DInv'
    <3>1. Stepped(t, "creating", arg[t]) /\ arg[t].id = machineId
      BY <1>1, <2>1, <2>3, SameStepped DEF DInv, OneRow
    <3> QED BY <2>1, <2>3, <3>1, QuietDInv
  <2> QED BY <1>3, <2>2, <2>3 DEF FindRow
<1>4. CASE RegisterFails(t) \/ DialFails(t) \/ EmitNothing(t) \/ Emit(t)
  <2>1. /\ Return(t) /\ UNCHANGED <<machineId, apiKey, disk, rows>>
        /\ pc[t] \notin {"boot", "save", "writing"}
    BY <1>4 DEF RegisterFails, DialFails, EmitNothing, Emit
  <2> QED BY <2>1, ReturnStepped, QuietDInv
<1>5. CASE Registered(t)
  <2>1. pc[t] = "registered" /\ UNCHANGED <<machineId, apiKey, disk, rows>>
    BY <1>5 DEF Registered
  <2>2. CASE CallConnect(t, Current)
    BY <2>1, <2>2, QuietDInv DEF CallConnect, Carry, Goto, Stepped
  <2>3. CASE Goto(t, "check") /\ UNCHANGED <<arg, booting>>
    BY <1>1, <2>1, <2>3, SameStepped, QuietDInv
  <2>4. CASE Return(t)
    BY <2>1, <2>4, ReturnStepped, QuietDInv
  <2> QED BY <1>5, <2>2, <2>3, <2>4 DEF Registered
<1>6. CASE Dial(t)
  <2>1. /\ pc[t] = "call" /\ Goto(t, "emit") /\ UNCHANGED arg
        /\ UNCHANGED <<machineId, apiKey, disk, rows>>
    BY <1>6 DEF Dial
  <2> QED BY <1>1, <2>1, SameStepped, QuietDInv
<1> QED
  BY <1>2, <1>3, <1>4, <1>5, <1>6, CreateDInv, TakeDInv, OpenDInv, WriteDInv, SaveFailsDInv
  DEF Thread, Failures

LEMMA StartDInv == ASSUME DInv, TInv', Start PROVE DInv'
<1>1. /\ pc[Main] = "boot" /\ UNCHANGED <<disk, rows>> /\ apiKey = NoKey
      /\ \A r \in Recoveries : pc[r] = "idle"
      /\ Main \in Threads
  BY DEF Start, server, DInv, TInv, Started, Saving, Threads
<1>2. \/ /\ machineId' = file.id /\ apiKey' = file.key /\ file # Nothing
         /\ Stepped(Main, "call", file)
      \/ apiKey' = apiKey /\ Stepped(Main, "register", arg[Main])
  BY <1>1, SameStepped DEF Start, CallConnect, Carry, Goto, Stepped, DInv
<1>3. PICK state, c : state \in {"call", "register"} /\ Stepped(Main, state, c)
  BY <1>2
<1>4. /\ pc'[Main] = state
      /\ \A u \in Threads \ {Main} : pc'[u] = pc[u]
      /\ (writer # Nobody => writer \in Threads)
  BY <1>1, <1>3, SteppedFacts DEF DInv
<1>5. \A u \in Threads : pc'[u] \in {"call", "register", "idle"}
  BY <1>1, <1>3, <1>4 DEF Threads
<1>6. writer = Nobody
  BY <1>1, <1>4 DEF DInv, Saving, Threads
<1>7. OneRow'
  BY <1>1, <1>5 DEF DInv, OneRow
<1>8. Saving'
  BY <1>1, <1>4, <1>5, <1>6 DEF Saving, disk
<1>9. file \in Rows \cup {Nothing}
  BY DEF DInv, TInv, Carried
<1>10. DiskMatchesMemory'
  BY <1>1, <1>2, <1>9 DEF DiskMatchesMemory, Current, disk, Rows
<1> QED BY <1>7, <1>8, <1>10 DEF DInv

LEMMA RejectedDInv == ASSUME DInv, TInv', Rejected PROVE DInv'
<1>1. UNCHANGED <<machineId, rows, writer, arg>>
  BY DEF Rejected, HandleReply, server
<1>2. CASE UNCHANGED <<apiKey, file, unsaved, pc>>
  BY <1>1, <1>2, StillDInv DEF disk
<1>3. ASSUME writer = Nobody, NEW r \in Recoveries, pc[r] = "idle", Goto(r, "register"),
             file' = Nothing, apiKey' = NoKey
      PROVE  DInv'
  <2>1. r \in Threads /\ r # Main /\ Main \in Threads /\ Stepped(r, "register", arg[r])
    BY <1>1, <1>3, SameStepped DEF Threads, DInv
  <2>2. pc'[r] = "register" /\ \A u \in Threads \ {r} : pc'[u] = pc[u]
    BY <2>1, SteppedFacts DEF DInv
  <2>3. OneRow'
    BY <1>1, <2>2 DEF DInv, OneRow
  <2>4. Saving'
    BY <1>1, <1>3, <2>1, <2>2 DEF DInv, Saving
  <2> QED BY <1>3, <2>3, <2>4 DEF DInv, DiskMatchesMemory
<1> QED BY <1>2, <1>3 DEF Rejected

LEMMA RestoreDInv == ASSUME DInv, TInv', Restore PROVE DInv'
<1>1. /\ UNCHANGED <<machineId, apiKey, disk>> /\ rows' = {}
      /\ \A t \in Threads : pc[t] \notin {"save", "writing"}
      /\ \A t \in Threads :
            /\ pc[t] \in Answering => pc'[t] \in {"loop", "idle"}
            /\ pc[t] \notin Answering => pc'[t] = pc[t]
  BY DEF Restore, memory, Resting
<1>2. Main \in Threads /\ (writer # Nobody => writer \in Threads)
  BY DEF DInv, TInv, TypeOK, Threads
<1>3. \A t \in Threads : pc'[t] \notin {"asked", "creating", "answered", "save", "writing"}
  BY <1>1 DEF Answering
<1>4. OneRow'
  BY <1>1, <1>3 DEF OneRow
<1>5. Saving'
  BY <1>1, <1>2, <1>3 DEF DInv, Saving, disk, Answering
<1>6. DiskMatchesMemory'
  BY <1>1 DEF DInv, DiskMatchesMemory, Current, disk
<1> QED BY <1>4, <1>5, <1>6 DEF DInv

LEMMA CrashDInv == ASSUME DInv, TInv', Crash PROVE DInv'
<1>1. apiKey' = NoKey /\ writer' = Nobody /\ UNCHANGED rows
      /\ \A t \in Threads : pc'[t] \in {"boot", "idle"}
  BY DEF Crash, server
<1> QED BY <1>1 DEF DInv, OneRow, Saving, DiskMatchesMemory

LEMMA NextDInv == ASSUME DInv, [Next]_vars PROVE DInv'
<1> USE DEF memory, disk, link, server, thread
<1>1. TInv' /\ TInv /\ Main \in Threads /\ Recoveries \subseteq Threads
  BY NextTInv DEF DInv, Threads
<1>2. CASE UNCHANGED vars
  BY <1>1, <1>2, StillDInv DEF vars
<1>3. CASE Tick
  <2>1. PICK state \in {"register", "check"} : Goto(Main, state) /\ UNCHANGED arg
    BY <1>3 DEF Tick
  <2>2. pc[Main] = "loop" /\ UNCHANGED <<machineId, apiKey, disk, rows>>
    BY <1>3 DEF Tick
  <2>3. Stepped(Main, state, arg[Main])
    BY <1>1, <2>1, SameStepped
  <2> QED BY <1>1, <2>2, <2>3, QuietDInv
<1>4. CASE Check
  <2>1. pc[Main] = "check" /\ UNCHANGED <<machineId, apiKey, disk, rows>>
    BY <1>4 DEF Check
  <2>2. \/ Goto(Main, "loop") /\ UNCHANGED arg
        \/ CallConnect(Main, Current)
    BY <1>4 DEF Check
  <2>3. Stepped(Main, "loop", arg[Main]) \/ Stepped(Main, "call", Current)
    BY <1>1, <2>2, SameStepped DEF CallConnect, Carry, Goto, Stepped
  <2> QED BY <1>1, <2>1, <2>3, QuietDInv
<1>5. CASE Verify \/ Confirm \/ ConfirmFails \/ MachineConnected \/ ErrorLogged \/ Disconnected
           \/ LibraryReconnects \/ Drop
  <2>1. UNCHANGED <<machineId, apiKey, disk, rows, pc, arg>>
    BY <1>5 DEF Verify, Confirm, ConfirmFails, MachineConnected, ErrorLogged, Disconnected,
                LibraryReconnects, Drop, HandleReply
  <2> QED BY <1>1, <2>1, StillDInv
<1> QED
  BY <1>1, <1>2, <1>3, <1>4, <1>5, ThreadDInv, StartDInv, RejectedDInv, RestoreDInv, CrashDInv
  DEF Next, Watchdog, ServerSteps, Handlers

(* While nobody saves, credentials.json is absent or holds what the        *)
(* service uses, unless the last save could not open it: for any number of *)
(* recoveries, restored databases and other faults.                        *)
THEOREM DiskFollowsMemory == Spec => []DiskMatchesMemory
<1>1. Spec => []DInv
  BY InitDInv, NextDInv, PTL DEF Spec
<1> QED BY <1>1, PTL DEF DInv
=============================================================================
