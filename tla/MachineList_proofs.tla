------------------------- MODULE MachineList_proofs -------------------------
(* Proof, for any machines and any number of lists, requests and sockets,  *)
(* that no click of the dashboard activates a machine nobody adopted.      *)
(*                                                                         *)
(* The server does not check it: unarchive makes any archived row active,  *)
(* and archive takes any row that is not archived.  What protects a        *)
(* pending machine is that the dashboard offers archive and unarchive by   *)
(* the status it displays, and that a status which is not pending is never *)
(* displayed, queued in a list or stored in a row before the adoption.     *)
EXTENDS MachineList, TLAPS

List == [Machines -> Entry \cup {Absent}]

Work ==
    [op : {"connect"}, at : {"sent"}, m : Machines]
      \cup [op : {"connect"}, at : {"read"}, m : Machines, status : Statuses]
      \cup [op : {"list"}, at : {"sent"}]
      \cup [op : {"list"}, at : {"read"}, list : List]
      \cup [op : {"fetch"}, at : {"sent"}, archived : BOOLEAN, raw : BOOLEAN]
      \cup [op : {"fetch"}, at : {"read"}, archived : BOOLEAN, raw : BOOLEAN, list : List]
      \cup [op : Kinds, at : {"sent", "checked", "written"}, m : Machines, archived : BOOLEAN]

Shapes ==
    /\ row \in [Machines -> Row]
    /\ shown \in List
    /\ work \subseteq Work
    /\ showArchived \in BOOLEAN

(* A list shows as something other than pending only what was adopted.     *)
Known(list) ==
    \A m \in Machines : list[m] # Absent /\ list[m].status # "pending" => m \in adopted

Fine(w) ==
    /\ w.op \in {"archive", "unarchive"} => w.m \in adopted
    /\ w.op \in {"list", "fetch"} /\ w.at = "read" => Known(w.list)

RowsKnown == \A m \in Machines : row[m].status # "pending" => m \in adopted

WorkFine == \A w \in work : Fine(w)

Settled == \A m \in adopted : m \in configured \cup halfAdopted \/ Adopting(m)

AInv == Shapes /\ RowsKnown /\ Known(shown) /\ WorkFine /\ Settled

LEMMA InitAInv == ListInit => AInv
<1> SUFFICES ASSUME ListInit PROVE AInv
  OBVIOUS
<1> USE DEF ListInit
<1>1. row \in [Machines -> Row]
  BY DEF Row, Statuses, Ages
<1>2. shown \in List /\ showArchived \in BOOLEAN /\ Known(shown)
  BY DEF List, Known
<1>3. work \subseteq Work /\ WorkFine
  BY DEF Fetch, Work, WorkFine, Fine
<1>4. RowsKnown /\ Settled
  BY DEF RowsKnown, Settled
<1> QED BY <1>1, <1>2, <1>3, <1>4 DEF AInv, Shapes

-----------------------------------------------------------------------------
(* Lists read from the database are known, because the rows are.           *)
LEMMA ListsKnown ==
  ASSUME AInv, NEW archived \in BOOLEAN
  PROVE  /\ SocketList(row) \in List /\ Known(SocketList(row))
         /\ HttpList(row, archived) \in List /\ Known(HttpList(row, archived))
<1> USE DEF AInv, Shapes, EntryOf
<1>1. SocketList(row) \in List
  BY DEF SocketList, List, Entry, Row
<1>2. HttpList(row, archived) \in List
  BY DEF HttpList, List, Entry, Row
<1>3. Known(SocketList(row))
  BY DEF SocketList, Known, RowsKnown
<1>4. Known(HttpList(row, archived))
  BY DEF HttpList, Known, RowsKnown
<1> QED BY <1>1, <1>2, <1>3, <1>4

(* The work changes: what is new is fine, and no adoption is forgotten.    *)
LEMMA WorkChanges ==
  ASSUME AInv, \A w \in work' : w \in work \/ (w \in Work /\ Fine(w)),
         \A w \in work : w.op = "adopt" /\ w.at = "written" => w \in work',
         UNCHANGED <<adopted, halfAdopted, configured>>
  PROVE  work' \subseteq Work /\ WorkFine' /\ Settled'
<1>1. work' \subseteq Work
  BY DEF AInv, Shapes
<1>2. WorkFine'
  BY DEF AInv, WorkFine, Fine, Known
<1>3. Settled'
  BY DEF AInv, Settled, Adopting
<1> QED BY <1>1, <1>2, <1>3

(* Requests for a list are always fine.                                    *)
LEMMA RequestsFine ==
  ASSUME AInv, NEW archived \in BOOLEAN, NEW raw \in BOOLEAN
  PROVE  /\ ListRequest \in Work /\ Fine(ListRequest)
         /\ Fetch(archived, raw) \in Work /\ Fine(Fetch(archived, raw))
  BY DEF ListRequest, Fetch, Work, Fine

(* The rows change, but not their statuses.                                *)
LEMMA SeenChanges ==
  ASSUME AInv, NEW m \in Machines, NEW age \in Ages, adopted' = adopted,
         row' = [row EXCEPT ![m].seen = age]
  PROVE  row' \in [Machines -> Row] /\ RowsKnown'
<1> USE DEF AInv, Shapes
<1>1. row' \in [Machines -> Row]
  BY DEF Row
<1>2. \A n \in Machines : row'[n].status = row[n].status
  BY DEF Row
<1> QED BY <1>1, <1>2 DEF RowsKnown

(* An entry changes, but not its status.                                   *)
LEMMA OnlineChanges ==
  ASSUME AInv, NEW m \in Machines, NEW online \in BOOLEAN, adopted' = adopted,
         \/ shown' = shown
         \/ shown[m] # Absent /\ shown' = [shown EXCEPT ![m].online = online]
  PROVE  shown' \in List /\ Known(shown)'
<1> USE DEF AInv, Shapes, List
<1>1. CASE shown' = shown
  BY <1>1 DEF Known
<1>2. CASE shown[m] # Absent /\ shown' = [shown EXCEPT ![m].online = online]
  <2>1. shown[m] \in Entry
    BY <1>2
  <2>2. shown'[m] \in Entry /\ shown'[m].status = shown[m].status
    BY <1>2, <2>1 DEF Entry
  <2>3. \A n \in Machines \ {m} : shown'[n] = shown[n]
    BY <1>2
  <2>4. shown' \in List
    BY <1>2, <2>2, <2>3
  <2> QED BY <1>2, <2>2, <2>3, <2>4 DEF Known
<1> QED BY <1>1, <1>2

-----------------------------------------------------------------------------
(* The machines connect, disconnect, report, or fall silent.               *)
LEMMA MachinesAInv ==
  ASSUME AInv, NEW m \in Machines,
         MachineConnects(m) \/ MachineDisconnects(m) \/ Heartbeat(m) \/ Age(m)
  PROVE  AInv'
<1> USE DEF serverVars, clientVars
<1>1. CASE MachineConnects(m)
  <2>1. LET w == [op |-> "connect", at |-> "sent", m |-> m] IN w \in Work /\ Fine(w)
    BY DEF Work, Fine
  <2>2. work' \subseteq Work /\ WorkFine' /\ Settled'
    BY <1>1, <2>1, WorkChanges DEF MachineConnects
  <2> QED BY <1>1, <2>2 DEF MachineConnects, AInv, Shapes, RowsKnown, Known
<1>2. CASE MachineDisconnects(m)
  <2>1. work' \subseteq Work /\ WorkFine' /\ Settled'
    BY <1>2, RequestsFine, WorkChanges DEF MachineDisconnects, Subscribed
  <2>2. shown' \in List /\ Known(shown)'
    BY <1>2, OnlineChanges DEF MachineDisconnects
  <2> QED BY <1>2, <2>1, <2>2 DEF MachineDisconnects, AInv, Shapes, RowsKnown
<1>3. CASE Heartbeat(m)
  <2>1. row' \in [Machines -> Row] /\ RowsKnown'
    BY <1>3, SeenChanges DEF Heartbeat, Ages
  <2> QED BY <1>3, <2>1 DEF Heartbeat, AInv, Shapes, Known, WorkFine, Fine, Settled, Adopting
<1>4. CASE Age(m)
  <2>1. row' \in [Machines -> Row] /\ RowsKnown'
    BY <1>4, SeenChanges DEF Age, Ages
  <2> QED BY <1>4, <2>1 DEF Age, AInv, Shapes, Known, WorkFine, Fine, Settled, Adopting
<1> QED BY <1>1, <1>2, <1>3, <1>4

(* The connect handler.                                                    *)
LEMMA ConnectAInv ==
  ASSUME AInv, NEW w \in work, ConnectReads(w) \/ ConnectFinishes(w) PROVE AInv'
<1> USE DEF serverVars, clientVars
<1>1. w \in Work
  BY DEF AInv, Shapes
<1>2. CASE ConnectReads(w)
  <2>1. w.m \in Machines
    BY <1>1, <1>2 DEF ConnectReads, Work, Kinds
  <2>2. row[w.m].status \in Statuses
    BY <2>1 DEF AInv, Shapes, Row
  <2>3. LET v == [op |-> "connect", at |-> "read", m |-> w.m, status |-> row[w.m].status]
        IN  v \in Work /\ Fine(v)
    BY <2>1, <2>2 DEF Work, Fine
  <2>4. work' \subseteq Work /\ WorkFine' /\ Settled'
    BY <1>2, <2>3, WorkChanges DEF ConnectReads
  <2> QED BY <1>2, <2>4 DEF ConnectReads, AInv, Shapes, RowsKnown, Known
<1>3. CASE ConnectFinishes(w)
  <2>1. w.m \in Machines
    BY <1>1, <1>3 DEF ConnectFinishes, Work, Kinds
  <2>2. work' \subseteq Work /\ WorkFine' /\ Settled'
    BY <1>3, RequestsFine, WorkChanges DEF ConnectFinishes
  <2>3. row' \in [Machines -> Row] /\ RowsKnown'
    BY <1>3, <2>1, SeenChanges DEF ConnectFinishes, Ages
  <2>4. \/ shown' = shown
        \/ shown[w.m] # Absent /\ shown' = [shown EXCEPT ![w.m].online = TRUE]
    <3>1. CASE UNCHANGED shown
      BY <3>1
    <3>2. CASE MarkOnline(w.m) /\ shown[w.m] # Absent
      BY <3>2 DEF MarkOnline
    <3>3. CASE MarkOnline(w.m) /\ shown[w.m] = Absent
      BY <2>1, <3>3 DEF MarkOnline, AInv, Shapes, List
    <3> QED BY <1>3, <3>1, <3>2, <3>3 DEF ConnectFinishes
  <2>5. shown' \in List /\ Known(shown)'
    BY <1>3, <2>1, <2>4, OnlineChanges DEF ConnectFinishes
  <2> QED BY <1>3, <2>2, <2>3, <2>5 DEF ConnectFinishes, AInv, Shapes
<1> QED BY <1>2, <1>3

(* The requests of the dashboard.                                          *)
LEMMA RequestAInv ==
  ASSUME AInv, NEW w \in work,
         RequestChecks(w) \/ RequestWrites(w) \/ RequestAnswers(w) \/ RequestFails(w)
  PROVE  AInv'
<1> USE DEF serverVars, clientVars
<1>1. /\ w \in [op : Kinds, at : {"sent", "checked", "written"}, m : Machines,
                archived : BOOLEAN]
      /\ Fine(w)
  <2>1. w \in Work /\ w.op \in Kinds
    BY DEF AInv, Shapes, RequestChecks, RequestWrites, RequestAnswers, RequestFails
  <2> QED BY <2>1 DEF Work, Kinds, AInv, WorkFine
<1>2. ASSUME NEW stage \in {"checked", "written"}
      PROVE  At(w, stage) \in Work /\ Fine(At(w, stage))
  <2>1. /\ At(w, stage) \in [op : Kinds, at : {"sent", "checked", "written"}, m : Machines,
                             archived : BOOLEAN]
        /\ At(w, stage).op = w.op /\ At(w, stage).m = w.m
    BY <1>1 DEF At
  <2> QED BY <1>1, <2>1 DEF Work, Fine, Kinds
<1>3. CASE RequestChecks(w)
  <2>1. work' \subseteq Work /\ WorkFine' /\ Settled'
    <3>1. /\ \A v \in work' : v \in work \/ v = At(w, "checked")
          /\ UNCHANGED <<adopted, halfAdopted, configured>>
          /\ \A v \in work : v.op = "adopt" /\ v.at = "written" => v \in work'
      BY <1>3 DEF RequestChecks
    <3> QED BY <1>2, <3>1, WorkChanges
  <2> QED BY <1>3, <2>1 DEF RequestChecks, AInv, Shapes, RowsKnown, Known
<1>4. CASE RequestWrites(w)
  <2>1. row' \in [Machines -> Row]
    <3>1. row[w.m] \in Row /\ w.m \in Machines
      BY <1>1 DEF AInv, Shapes
    <3>2. /\ [row[w.m] EXCEPT !.status = "active", !.titled = FALSE] \in Row
          /\ [row[w.m] EXCEPT !.status = "archived"] \in Row
          /\ [row[w.m] EXCEPT !.status = "active"] \in Row
          /\ Renamed(row[w.m]) \in Row
      BY <3>1 DEF Row, Statuses, Renamed
    <3>3. CASE w.op = "adopt"
      <4>1. row' = [row EXCEPT ![w.m] = [row[w.m] EXCEPT !.status = "active", !.titled = FALSE]]
        BY <1>4, <3>3 DEF RequestWrites
      <4> QED BY <3>2, <4>1 DEF AInv, Shapes
    <3>4. CASE w.op = "archive"
      <4>1. row' = [row EXCEPT ![w.m] = [row[w.m] EXCEPT !.status = "archived"]]
        BY <1>4, <3>4 DEF RequestWrites
      <4> QED BY <3>2, <4>1 DEF AInv, Shapes
    <3>5. CASE w.op = "unarchive"
      <4>1. row' = [row EXCEPT ![w.m] = [row[w.m] EXCEPT !.status = "active"]]
        BY <1>4, <3>5 DEF RequestWrites
      <4> QED BY <3>2, <4>1 DEF AInv, Shapes
    <3>6. CASE w.op = "rename"
      <4>1. row' = [row EXCEPT ![w.m] = Renamed(row[w.m])]
        BY <1>4, <3>6 DEF RequestWrites
      <4> QED BY <3>2, <4>1 DEF AInv, Shapes
    <3> QED BY <1>1, <3>3, <3>4, <3>5, <3>6 DEF Kinds
  <2>2. adopted \subseteq adopted'
    BY <1>4 DEF RequestWrites
  <2>3. RowsKnown'
    <3>1. \A m \in Machines \ {w.m} : row'[m] = row[m]
      BY <1>1, <1>4 DEF RequestWrites, AInv, Shapes
    <3>2. CASE w.op = "adopt"
      <4>1. w.m \in adopted'
        BY <1>4, <3>2 DEF RequestWrites
      <4> QED BY <2>2, <3>1, <4>1 DEF RowsKnown, AInv
    <3>3. CASE w.op \in {"archive", "unarchive"}
      <4>1. w.m \in adopted'
        BY <1>1, <2>2, <3>3 DEF Fine
      <4> QED BY <2>2, <3>1, <4>1 DEF RowsKnown, AInv
    <3>4. CASE w.op = "rename"
      <4>1. row'[w.m].status = row[w.m].status
        BY <1>1, <1>4, <3>4 DEF RequestWrites, AInv, Shapes, Row, Renamed
      <4> QED BY <1>1, <2>2, <3>1, <4>1 DEF RowsKnown, AInv
    <3> QED BY <1>1, <3>2, <3>3, <3>4 DEF Kinds
  <2>4. Known(shown)'
    BY <1>4, <2>2 DEF RequestWrites, Known, AInv
  <2>5. work' \subseteq Work /\ WorkFine'
    <3>1. work' \subseteq work \cup {At(w, "written")}
      BY <1>4 DEF RequestWrites
    <3> QED BY <1>2, <2>2, <3>1 DEF AInv, Shapes, WorkFine, Fine, Known
  <2>6. Settled'
    <3>1. At(w, "written") \in work' /\ UNCHANGED <<configured, halfAdopted>>
      BY <1>4 DEF RequestWrites
    <3>2. \A v \in work : v.op = "adopt" /\ v.at = "written" => v \in work'
      BY <1>4 DEF RequestWrites
    <3>3. \A m \in adopted : m \in configured' \cup halfAdopted' \/ Adopting(m)'
      BY <3>1, <3>2 DEF AInv, Settled, Adopting
    <3>4. CASE w.op = "adopt"
      <4>1. Adopting(w.m)'
        <5>1. At(w, "written").op = "adopt" /\ At(w, "written").m = w.m
              /\ At(w, "written").at = "written"
          BY <1>1, <3>4 DEF At
        <5> QED BY <3>1, <5>1 DEF Adopting
      <4> QED BY <1>4, <3>3, <3>4, <4>1 DEF RequestWrites, Settled
    <3>5. CASE w.op # "adopt"
      BY <1>4, <3>3, <3>5 DEF RequestWrites, Settled
    <3> QED BY <3>4, <3>5
  <2> QED BY <1>4, <2>1, <2>3, <2>4, <2>5, <2>6 DEF RequestWrites, AInv, Shapes
<1>5. CASE RequestAnswers(w)
  <2>1. work' \subseteq work \cup {ListRequest, Fetch(w.archived, TRUE)}
    BY <1>5 DEF RequestAnswers, Refreshed
  <2>2. work' \subseteq Work /\ WorkFine'
    BY <1>1, <1>5, <2>1, RequestsFine
       DEF RequestAnswers, AInv, Shapes, WorkFine, Fine, Known
  <2>3. Settled'
    <3>1. /\ configured \subseteq configured' /\ UNCHANGED <<adopted, halfAdopted>>
          /\ \A v \in work \ {w} : v \in work'
          /\ w.op = "adopt" => w.m \in configured'
      BY <1>5 DEF RequestAnswers
    <3> QED BY <3>1 DEF AInv, Settled, Adopting
  <2> QED BY <1>5, <2>2, <2>3 DEF RequestAnswers, AInv, Shapes, RowsKnown, Known
<1>6. CASE RequestFails(w)
  <2>1. work' \subseteq Work /\ WorkFine'
    BY <1>6 DEF RequestFails, AInv, Shapes, WorkFine, Fine, Known
  <2>2. Settled'
    <3>1. /\ UNCHANGED <<adopted, configured>> /\ halfAdopted \subseteq halfAdopted'
          /\ \A v \in work \ {w} : v \in work'
          /\ w.op = "adopt" /\ w.at = "written" => w.m \in halfAdopted'
      BY <1>6 DEF RequestFails
    <3> QED BY <3>1 DEF AInv, Settled, Adopting
  <2> QED BY <1>6, <2>1, <2>2 DEF RequestFails, AInv, Shapes, RowsKnown, Known
<1> QED BY <1>3, <1>4, <1>5, <1>6

(* A list or an answer is read.                                            *)
LEMMA ReadAInv == ASSUME AInv, NEW w \in work, ListReads(w) PROVE AInv'
<1> USE DEF serverVars, clientVars
<1>1. w \in Work /\ (w.op = "list" \/ w.op = "fetch")
  BY DEF AInv, Shapes, ListReads
<1>2. CASE w.op = "list"
  <2>1. LET v == [op |-> "list", at |-> "read", list |-> SocketList(row)]
        IN  v \in Work /\ Fine(v)
    BY ListsKnown DEF Work, Fine
  <2> QED BY <1>2, <2>1, WorkChanges DEF ListReads, AInv, Shapes, RowsKnown, Known
<1>3. CASE w.op = "fetch"
  <2>1. w.archived \in BOOLEAN /\ w.raw \in BOOLEAN
    BY <1>1, <1>3 DEF Work, Kinds
  <2>2. LET v == [op |-> "fetch", at |-> "read", archived |-> w.archived, raw |-> w.raw,
                  list |-> HttpList(row, w.archived)]
        IN  v \in Work /\ Fine(v)
    BY <2>1, ListsKnown DEF Work, Fine
  <2> QED BY <1>3, <2>2, WorkChanges DEF ListReads, AInv, Shapes, RowsKnown, Known
<1> QED BY <1>1, <1>2, <1>3

(* A list or an answer arrives: filtered or not, the dashboard shows what  *)
(* is known.                                                               *)
LEMMA HandledListKnown ==
  ASSUME AInv, NEW list \in List, NEW archived \in BOOLEAN, Known(list), adopted' = adopted,
         HandleMachinesList(list, archived)
  PROVE  shown' \in List /\ Known(shown)'
<1>1. PICK visible \in SUBSET Machines :
         shown' = [m \in Machines |-> IF m \in visible THEN list[m] ELSE Absent]
  BY DEF HandleMachinesList
<1> QED BY <1>1 DEF List, Known

LEMMA ArrivalAInv ==
  ASSUME AInv, NEW w \in work, Arrival(w) \/ FetchFails(w) PROVE AInv'
<1> USE DEF serverVars, clientVars
<1>1. w \in Work /\ Fine(w)
  BY DEF AInv, Shapes, WorkFine
<1>2. /\ work' = work \ {w} /\ w.op \in {"list", "fetch"}
      /\ UNCHANGED <<row, adopted, halfAdopted, configured, showArchived>>
  BY DEF Arrival, ListArrives, FetchArrives, FetchFails
<1>3. work' \subseteq Work /\ WorkFine' /\ Settled'
  BY <1>2, WorkChanges
<1>4. shown' \in List /\ Known(shown)'
  <2>1. CASE FetchFails(w)
    BY <2>1 DEF FetchFails, AInv, Shapes, Known
  <2>2. CASE ListArrives(w)
    <3>1. w.list \in List /\ Known(w.list)
      BY <1>1, <2>2 DEF ListArrives, Work, Fine, Kinds
    <3> QED BY <2>2, <3>1, <1>2, HandledListKnown DEF ListArrives, AInv, Shapes
  <2>3. CASE FetchArrives(w)
    <3>1. w.list \in List /\ Known(w.list) /\ w.archived \in BOOLEAN
      BY <1>1, <2>3 DEF FetchArrives, Work, Fine, Kinds
    <3>2. CASE w.raw
      BY <1>2, <2>3, <3>1, <3>2 DEF FetchArrives, Known
    <3>3. CASE ~w.raw
      BY <1>2, <2>3, <3>1, <3>3, HandledListKnown DEF FetchArrives
    <3> QED BY <3>2, <3>3
  <2> QED BY <2>1, <2>2, <2>3 DEF Arrival
<1> QED BY <1>2, <1>3, <1>4 DEF AInv, Shapes, RowsKnown

(* The user clicks.  This is where the displayed status is relied on.      *)
LEMMA ClickAInv ==
  ASSUME AInv, NEW kind \in Kinds, NEW m \in Machines, UserClicks(kind, m) PROVE AInv'
<1> USE DEF serverVars, clientVars
<1>1. Click(kind, m) \in Work
  BY DEF Click, Work, AInv, Shapes
<1>2. kind \in {"archive", "unarchive"} => m \in adopted
  BY DEF UserClicks, Offers, AInv, Known
<1>3. Fine(Click(kind, m))
  BY <1>2 DEF Click, Fine, Kinds
<1>4. work' \subseteq Work /\ WorkFine' /\ Settled'
  BY <1>1, <1>3, WorkChanges DEF UserClicks
<1> QED BY <1>4 DEF UserClicks, AInv, Shapes, RowsKnown, Known

(* The socket and the session of the dashboard, and its other requests.    *)
LEMMA SessionAInv ==
  ASSUME AInv, \/ SocketConnects \/ SocketLost \/ RefreshTick
               \/ UserShowsArchived \/ SignOut \/ SignIn
               \/ \E m \in Machines : UserSelects(m)
  PROVE  AInv'
<1> USE DEF serverVars, clientVars, SocketConnects, SocketLost, RefreshTick,
            UserShowsArchived, SignOut, SignIn, UserSelects
<1>1. UNCHANGED <<row, adopted, halfAdopted, configured, shown>> /\ showArchived' \in BOOLEAN
  BY DEF AInv, Shapes
<1>2. \A v \in work' :
        \/ v \in work \/ v = ListRequest
        \/ \E archived \in BOOLEAN, raw \in BOOLEAN : v = Fetch(archived, raw)
  BY DEF Refreshed, AInv, Shapes
<1>3. \A v \in work : v.op = "adopt" /\ v.at = "written" => v \in work'
  BY DEF NotSocketWork
<1>4. work' \subseteq Work /\ WorkFine' /\ Settled'
  BY <1>1, <1>2, <1>3, RequestsFine, WorkChanges
<1> QED BY <1>1, <1>4 DEF AInv, Shapes, RowsKnown, Known

LEMMA NextAInv == ASSUME AInv, [ListNext]_listVars PROVE AInv'
<1>1. CASE UNCHANGED listVars
  BY <1>1 DEF listVars, serverVars, clientVars, AInv, Shapes, RowsKnown, Known, WorkFine,
     Fine, Settled, Adopting
<1> QED BY <1>1, MachinesAInv, ConnectAInv, RequestAInv, ReadAInv, ArrivalAInv, ClickAInv,
           SessionAInv DEF ListNext, ServerStep

(* No click of the dashboard, however stale what it shows, activates a     *)
(* machine that nobody adopted; and the settings of an active machine are  *)
(* there once the adoption is through, unless it failed half way.          *)
THEOREM OnlyAdoptionActivates == ListSpec => []ActiveMeansAdopted
<1>1. AInv => ActiveMeansAdopted
  BY DEF AInv, RowsKnown, Settled, ActiveMeansAdopted
<1> QED BY <1>1, InitAInv, NextAInv, PTL DEF ListSpec
=============================================================================
