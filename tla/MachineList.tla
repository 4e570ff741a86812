----------------------------- MODULE MachineList -----------------------------
(***************************************************************************)
(* The life cycle of machines on the server (MachineService.getAll, adopt, *)
(* archive, unarchive, updateDisplayName; routes/web/machines.ts; the      *)
(* connect, disconnect and web:subscribe handlers of socketHandler.ts) and *)
(* the machine list of one dashboard tab (MachineContext.tsx, socket.ts,   *)
(* MachineManager.tsx, MachineItem.tsx, PendingMachineItem.tsx).           *)
(*                                                                         *)
(* A request or handler in progress is a record of "work": one action per  *)
(* await.  Messages the server emits without reading the database first    *)
(* arrive at once; a list is read in one step and arrives in another, so   *)
(* that lists and HTTP answers may overtake each other.                    *)
(***************************************************************************)
EXTENDS Naturals, FiniteSets

CONSTANTS
    Machines,          \* machine ids (a registered row each)
    InitiallyPending,  \* the machines that are not adopted yet
    Absent,            \* no entry for a machine in a list
    Nothing,           \* no selected machine
    MaxOps,            \* bound: connects and disconnects, heartbeats, clicks, failed requests
    MaxLists           \* bound: lists and HTTP answers read and not yet arrived, of each

ASSUME MachineListAssumption ==
    InitiallyPending \subseteq Machines /\ MaxOps \in Nat /\ MaxLists \in Nat \ {0}

VARIABLES
    row,          \* row[m]: status, age of lastSeen, and whether it has a display name
    adopted,      \* history: the machines some adopt request has activated
    halfAdopted,  \* history: those activated by a request that failed before the settings
    configured,   \* machines whose machine_state row holds settings
    sockets,      \* sockets[m]: sockets joined to the room of m by its service
    work,         \* requests, handlers and answers in progress
    ws,           \* the dashboard's socket
    shown,        \* MachineContext.machines
    waiting,      \* MachineContext.pendingMachines
    selected,     \* MachineContext.selectedMachine: a copy of an entry
    showArchived,
    ops           \* operations so far

serverVars == <<row, adopted, halfAdopted, configured, sockets>>
clientVars == <<ws, shown, waiting, selected, showArchived>>
listVars == <<serverVars, work, clientVars, ops>>

Statuses == {"pending", "active", "archived"}
Ages == {"fresh", "recent", "old"}     \* lastSeen < 10 s, < 300 s, older or null
Row == [status : Statuses, seen : Ages, titled : BOOLEAN]
Entry == [status : Statuses, online : BOOLEAN, titled : BOOLEAN]

EntryOf(r, online) == [status |-> r.status, online |-> online, titled |-> r.titled]

(* machines:list of broadcastMachineList and broadcastToSocket: all rows.  *)
SocketList(rows) == [m \in Machines |-> EntryOf(rows[m], rows[m].seen = "fresh")]

(* GET /machines: getAll keeps a machine online for 300 seconds.           *)
HttpList(rows, archived) ==
    [m \in Machines |->
        IF rows[m].status = "archived" /\ ~archived THEN Absent
        ELSE EntryOf(rows[m], rows[m].seen \in {"fresh", "recent"})]

ListTypeOK ==
    /\ row \in [Machines -> Row]
    /\ adopted \subseteq Machines /\ halfAdopted \subseteq Machines
    /\ configured \subseteq Machines
    /\ sockets \in [Machines -> 0 .. 2]
    /\ ws \in {"off", "connecting", "up", "lost"}
    /\ shown \in [Machines -> Entry \cup {Absent}]
    /\ waiting \subseteq Machines
    /\ selected \in [id : Machines, entry : Entry] \cup {Nothing}
    /\ showArchived \in BOOLEAN
    /\ ops \in 0 .. MaxOps

(* Items of work.                                                          *)
Fetch(archived, raw) == [op |-> "fetch", at |-> "sent", archived |-> archived, raw |-> raw]
ListRequest == [op |-> "list", at |-> "sent"]
Click(kind, m) == [op |-> kind, at |-> "sent", m |-> m, archived |-> showArchived]
At(w, stage) == [w EXCEPT !.at = stage]

Kinds == {"adopt", "archive", "unarchive", "rename"}

(* web:subscribe, dropped by socketService.emit without a connection.      *)
Subscribed == IF ws = "up" THEN {ListRequest} ELSE {}

(* refreshMachines: over the socket, else over HTTP, unfiltered.           *)
Refreshed(archived) == IF ws = "up" THEN {ListRequest} ELSE {Fetch(archived, TRUE)}

(* The tab has just been authenticated (for the first time, or again after *)
(* an empty list and a sign-out): the socket connects, the list is fetched *)
(* over HTTP.  Machines may be connected already.                          *)
ListInit ==
    /\ row = [m \in Machines |->
                [status |-> IF m \in InitiallyPending THEN "pending" ELSE "active",
                 seen |-> "old", titled |-> FALSE]]
    /\ adopted = Machines \ InitiallyPending /\ halfAdopted = {}
    /\ configured = Machines \ InitiallyPending
    /\ sockets \in [Machines -> {0, 1}]
    /\ showArchived \in BOOLEAN
    /\ work = {Fetch(showArchived, FALSE)}
    /\ ws = "connecting"
    /\ shown = [m \in Machines |-> Absent]
    /\ waiting = {}
    /\ selected = Nothing
    /\ ops = 0

Spend == ops < MaxOps /\ ops' = ops + 1

-----------------------------------------------------------------------------
(* The machines' side of the server.                                       *)

(* machine:connect with good credentials (MachineAccounts).                *)
MachineConnects(m) ==
    /\ Spend
    /\ work' = work \cup {[op |-> "connect", at |-> "sent", m |-> m]}
    /\ UNCHANGED <<serverVars, clientVars>>

(* The row is read; the socket joins the machine's room.                   *)
ConnectReads(w) ==
    /\ w.op = "connect" /\ w.at = "sent"
    /\ sockets[w.m] < 2
    /\ sockets' = [sockets EXCEPT ![w.m] = @ + 1]
    /\ work' = (work \ {w}) \cup
                 {[op |-> "connect", at |-> "read", m |-> w.m, status |-> row[w.m].status]}
    /\ UNCHANGED <<row, adopted, halfAdopted, configured, clientVars, ops>>

(* machine:online at the dashboard: the entry is edited, or, for a machine *)
(* it does not show, the list is requested.                                *)
MarkOnline(m) == shown' = [shown EXCEPT ![m] = IF @ = Absent THEN @ ELSE [@ EXCEPT !.online = TRUE]]

(* lastSeen is written; an archived machine is not announced, any other is *)
(* announced with machine:online and a broadcast of the list.              *)
ConnectFinishes(w) ==
    /\ w.op = "connect" /\ w.at = "read"
    /\ row' = [row EXCEPT ![w.m].seen = "fresh"]
    /\ IF w.status # "archived" /\ ws = "up"
         THEN MarkOnline(w.m) /\ work' = (work \ {w}) \cup {ListRequest}
         ELSE work' = work \ {w} /\ UNCHANGED shown
    /\ UNCHANGED <<adopted, halfAdopted, configured, sockets, ws, waiting, selected, showArchived, ops>>

(* disconnect of one socket: announced even when another socket of the     *)
(* machine is connected, or when its own connect has not been announced.   *)
MachineDisconnects(m) ==
    /\ sockets[m] > 0
    /\ Spend
    /\ sockets' = [sockets EXCEPT ![m] = @ - 1]
    /\ work' = work \cup Subscribed
    /\ shown' = IF ws = "up" /\ shown[m] # Absent
                  THEN [shown EXCEPT ![m].online = FALSE] ELSE shown
    /\ UNCHANGED <<row, adopted, halfAdopted, configured, ws, waiting, selected, showArchived>>

(* machine:heartbeat as far as the list is concerned (see MachineIngest).  *)
Heartbeat(m) ==
    /\ sockets[m] > 0 /\ row[m].status # "archived" /\ row[m].seen # "fresh"
    /\ Spend
    /\ row' = [row EXCEPT ![m].seen = "fresh"]
    /\ UNCHANGED <<adopted, halfAdopted, configured, sockets, work, clientVars>>

(* Time passes without a sign of the machine.                              *)
Age(m) ==
    /\ row[m].seen # "old"
    /\ row' = [row EXCEPT ![m].seen = IF @ = "fresh" THEN "recent" ELSE "old"]
    /\ UNCHANGED <<adopted, halfAdopted, configured, sockets, work, clientVars, ops>>

-----------------------------------------------------------------------------
(* Requests of the dashboard: the server's part.                           *)

Checks(kind, m) ==
    CASE kind = "adopt" -> row[m].status # "active"
      [] kind = "archive" -> row[m].status # "archived"
      [] kind = "unarchive" -> row[m].status = "archived"
      [] kind = "rename" -> TRUE

(* findUnique and the check of the status; an error answer ends the click. *)
RequestChecks(w) ==
    /\ w.op \in Kinds /\ w.at = "sent"
    /\ work' = (work \ {w}) \cup (IF Checks(w.op, w.m) THEN {At(w, "checked")} ELSE {})
    /\ UNCHANGED <<serverVars, clientVars, ops>>

(* updateDisplayName: a name is given, or taken away.                      *)
Renamed(r) == [r EXCEPT !.titled = ~@]

(* The update of the machine row; the check may be stale by now.  A        *)
(* machine is adopted with the name field left empty.                      *)
RequestWrites(w) ==
    /\ w.op \in Kinds /\ w.at = "checked"
    /\ row' = [row EXCEPT ![w.m] =
                CASE w.op = "adopt" -> [@ EXCEPT !.status = "active", !.titled = FALSE]
                  [] w.op = "archive" -> [@ EXCEPT !.status = "archived"]
                  [] w.op = "unarchive" -> [@ EXCEPT !.status = "active"]
                  [] w.op = "rename" -> Renamed(@)]
    /\ adopted' = IF w.op = "adopt" THEN adopted \cup {w.m} ELSE adopted
    /\ work' = (work \ {w}) \cup {At(w, "written")}
    /\ UNCHANGED <<halfAdopted, configured, sockets, clientVars, ops>>

(* The second statement (settings, or a connection event), and the answer: *)
(* the dashboard refreshes its list.  The "web:subscribe" and the          *)
(* machine:adopted the server emits have no listener in the dashboard.     *)
RequestAnswers(w) ==
    /\ w.op \in Kinds /\ w.at = "written"
    /\ configured' = IF w.op = "adopt" THEN configured \cup {w.m} ELSE configured
    /\ work' = (work \ {w}) \cup Refreshed(w.archived)
    /\ UNCHANGED <<row, adopted, halfAdopted, sockets, clientVars, ops>>

(* A statement fails: the answer is an error, and the dashboard does not   *)
(* refresh its list.  An adoption that fails between its two statements    *)
(* leaves an active machine without settings, which is offered no more.    *)
RequestFails(w) ==
    /\ w.op \in Kinds
    /\ Spend
    /\ halfAdopted' = IF w.op = "adopt" /\ w.at = "written"
                        THEN halfAdopted \cup {w.m} ELSE halfAdopted
    /\ work' = work \ {w}
    /\ UNCHANGED <<row, adopted, configured, sockets, clientVars>>

(* findMany of a list or of GET /machines.                                 *)
ListReads(w) ==
    /\ w.op \in {"list", "fetch"} /\ w.at = "sent"
    /\ Cardinality({v \in work : v.op = w.op /\ v.at = "read"}) < MaxLists
    /\ work' = (work \ {w}) \cup
         {IF w.op = "list"
            THEN [op |-> "list", at |-> "read", list |-> SocketList(row)]
            ELSE [op |-> "fetch", at |-> "read", archived |-> w.archived, raw |-> w.raw,
                  list |-> HttpList(row, w.archived)]}
    /\ UNCHANGED <<serverVars, clientVars, ops>>

-----------------------------------------------------------------------------
(* The dashboard.                                                          *)

Listed(list, m, archived) ==
    /\ list[m] # Absent
    /\ list[m].status # "pending"
    /\ archived \/ list[m].status # "archived"

(* Mutant of HandleMachinesList: without the pending filter and the copy.  *)
HandleMachinesListUnfiltered(list, archived) ==
    /\ shown' = [m \in Machines |-> list[m]]
    /\ waiting' = {m \in Machines : list[m] # Absent /\ list[m].status = "pending"}
    /\ UNCHANGED selected

(* handleMachinesList: pending machines apart, archived ones on demand; a  *)
(* copy of the selected machine is renewed, or the first one is selected.  *)
HandleMachinesList(list, archived) ==
    LET visible == {m \in Machines : Listed(list, m, archived)} IN
    /\ shown' = [m \in Machines |-> IF m \in visible THEN list[m] ELSE Absent]
    /\ waiting' = {m \in Machines : list[m] # Absent /\ list[m].status = "pending"}
    /\ IF selected = Nothing
         THEN IF visible = {} THEN UNCHANGED selected
              ELSE \E m \in visible : selected' = [id |-> m, entry |-> list[m]]
         ELSE selected' = IF selected.id \in visible
                            THEN [selected EXCEPT !.entry = list[selected.id]] ELSE selected

(* A machines:list event, handled with the current showArchived.           *)
ListArrives(w) ==
    /\ w.op = "list" /\ w.at = "read"
    /\ ws = "up"
    /\ HandleMachinesList(w.list, showArchived)
    /\ work' = work \ {w}
    /\ UNCHANGED <<serverVars, ws, showArchived, ops>>

(* The answer of GET /machines: of the effect, handled with the            *)
(* showArchived it was sent with, or of refreshMachines, taken as it is.   *)
FetchArrives(w) ==
    /\ w.op = "fetch" /\ w.at = "read"
    /\ IF w.raw THEN shown' = w.list /\ UNCHANGED <<waiting, selected>>
                ELSE HandleMachinesList(w.list, w.archived)
    /\ work' = work \ {w}
    /\ UNCHANGED <<serverVars, ws, showArchived, ops>>

(* The request failed: logged, the list stays as it is.                    *)
FetchFails(w) ==
    /\ w.op = "fetch"
    /\ Spend
    /\ work' = work \ {w}
    /\ UNCHANGED <<serverVars, clientVars>>

(* socket.connect(): a connection is attempted unless one is up.           *)
Connecting == IF ws = "up" THEN "up" ELSE "connecting"

SocketConnects ==
    /\ ws = "connecting"
    /\ ws' = "up"
    /\ work' = work \cup {ListRequest}
    /\ UNCHANGED <<serverVars, shown, waiting, selected, showArchived, ops>>

NotSocketWork(w) == w.op # "list"

(* connect_error or disconnect: reconnection is off, nothing else happens. *)
SocketLost ==
    /\ ws \in {"connecting", "up"}
    /\ ws' = "lost"
    /\ work' = {w \in work : NotSocketWork(w)}
    /\ UNCHANGED <<serverVars, shown, waiting, selected, showArchived, ops>>

(* The 10 second timer: only over a connected socket.                      *)
RefreshTick ==
    /\ ws = "up"
    /\ work' = work \cup {ListRequest}
    /\ UNCHANGED <<serverVars, clientVars, ops>>

(* Mutant of Offers: a pending machine can be archived.                    *)
OffersArchiveOfPending(kind, m) ==
    \/ kind \in {"adopt", "archive"} /\ m \in waiting
    \/ kind \in {"archive", "rename"} /\ shown[m] # Absent /\ shown[m].status = "active"
    \/ kind \in {"unarchive", "rename"} /\ shown[m] # Absent /\ shown[m].status = "archived"

(* The tabs of MachineManager offer an operation by the displayed status.  *)
Offers(kind, m) ==
    \/ kind = "adopt" /\ m \in waiting
    \/ kind \in {"archive", "rename"} /\ shown[m] # Absent /\ shown[m].status = "active"
    \/ kind \in {"unarchive", "rename"} /\ shown[m] # Absent /\ shown[m].status = "archived"

UserClicks(kind, m) ==
    /\ ws # "off"
    /\ Offers(kind, m)
    /\ Spend
    /\ work' = work \cup {Click(kind, m)}
    /\ UNCHANGED <<serverVars, clientVars>>

(* handleSelect and selectMachine: a copy of the displayed entry.          *)
UserSelects(m) ==
    /\ shown[m] # Absent /\ shown[m].status # "archived"
    /\ selected' = [id |-> m, entry |-> shown[m]]
    /\ UNCHANGED <<serverVars, work, ws, shown, waiting, showArchived, ops>>

(* The archived tab: the effects run again; the socket is connected if it  *)
(* is not, the list is fetched, and refreshed.                             *)
UserShowsArchived ==
    /\ ws # "off" /\ ~showArchived
    /\ Spend
    /\ showArchived' = TRUE
    /\ ws' = Connecting
    /\ work' = work \cup {Fetch(TRUE, FALSE)} \cup Refreshed(TRUE)
    /\ UNCHANGED <<serverVars, shown, waiting, selected>>

(* The verification of the token fails (AuthSession): the socket is        *)
(* closed, the machines stay in the context.                               *)
SignOut ==
    /\ ws # "off"
    /\ Spend
    /\ ws' = "off"
    /\ work' = {w \in work : NotSocketWork(w)}
    /\ UNCHANGED <<serverVars, shown, waiting, selected, showArchived>>

SignIn ==
    /\ ws = "off"
    /\ ws' = "connecting"
    /\ work' = work \cup {Fetch(showArchived, FALSE)}
    /\ UNCHANGED <<serverVars, shown, waiting, selected, showArchived, ops>>

-----------------------------------------------------------------------------
ServerStep(w) ==
    \/ ConnectReads(w) \/ ConnectFinishes(w)
    \/ RequestChecks(w) \/ RequestWrites(w) \/ RequestAnswers(w)
    \/ ListReads(w)

Arrival(w) == ListArrives(w) \/ FetchArrives(w)

ListNext ==
    \/ \E w \in work : ServerStep(w) \/ Arrival(w) \/ FetchFails(w) \/ RequestFails(w)
    \/ \E m \in Machines :
         \/ MachineConnects(m) \/ MachineDisconnects(m) \/ Heartbeat(m) \/ Age(m)
         \/ UserSelects(m)
         \/ \E kind \in Kinds : UserClicks(kind, m)
    \/ SocketConnects \/ SocketLost \/ RefreshTick
    \/ UserShowsArchived \/ SignOut \/ SignIn

(* What is under way proceeds, time passes, and the timer ticks; nothing   *)
(* makes a user, a machine or a network failure act.                       *)
ListFair(k) ==
    \/ k = 1 /\ \E w \in work : ServerStep(w) /\ w.op # "list"
    \/ k = 2 /\ \E w \in work : ServerStep(w) /\ w.op = "list"
    \/ k = 3 /\ \E w \in work : Arrival(w) /\ w.op = "fetch"
    \/ k = 4 /\ \E w \in work : Arrival(w) /\ w.op = "list"
    \/ k = 5 /\ SocketConnects
    \/ k = 6 /\ RefreshTick
    \/ k = 7 /\ \E m \in Machines : Age(m)

ListFairness == (\A k \in 1 .. 7 : WF_listVars(ListFair(k)))

ListSpec == ListInit /\ [][ListNext]_listVars /\ ListFairness

-----------------------------------------------------------------------------
Adopting(m) == \E w \in work : w.op = "adopt" /\ w.m = m /\ w.at = "written"

(* Whatever the dashboard shows, however late: its clicks never activate a *)
(* machine that nobody adopted (unarchive makes any archived row active,   *)
(* and a pending one must not get there), and an active machine has its    *)
(* settings as soon as its adoption is through, unless that failed before  *)
(* it stored them.                                                         *)
ActiveMeansAdopted ==
    \A m \in Machines :
        row[m].status = "active" =>
            /\ m \in adopted
            /\ m \in configured \cup halfAdopted \/ Adopting(m)

(* The list, and the copy of the selected machine if it is listed, are     *)
(* what the server would send now.                                         *)
ListAgrees ==
    LET now == SocketList(row) IN
    /\ shown = [m \in Machines |-> IF Listed(now, m, showArchived) THEN now[m] ELSE Absent]
    /\ waiting = {m \in Machines : row[m].status = "pending"}
    /\ selected # Nothing /\ shown[selected.id] # Absent => selected.entry = shown[selected.id]

(* If the socket stays up, the list ends up right, whatever was overtaken  *)
(* before: late HTTP answers, closures over an old showArchived, online    *)
(* and offline events of old sockets, and the unfiltered fallback.         *)
ListConverges == <>[](ws = "up") => <>[]ListAgrees

============================================================================
