------------------------------ MODULE AuditLog ------------------------------
(***************************************************************************)
(* What a dashboard shows of a machine's audit events: the alert card      *)
(* (AuditAlert.tsx) on the dashboard view and the log (AuditPage.tsx,      *)
(* AuditTable.tsx) on the audit view, over GET /audit and PATCH            *)
(* /audit/:id/acknowledge (routes/web/audit.ts).                           *)
(*                                                                         *)
(* Both refetch when an audit:alert arrives.  Alerts go to the sockets in  *)
(* the room of the machine (socketHandler.ts): MachineContext joins it     *)
(* when the machine is selected, ActivityMonitor joins it when the         *)
(* dashboard view opens and leaves it when that view closes.               *)
(*                                                                         *)
(* An event is its position in the log, 1 being the oldest.                *)
(***************************************************************************)
EXTENDS Naturals, Sequences, FiniteSets

CONSTANTS
    MaxEvents,  \* bound: events
    MaxPatches, \* bound: changes of a status that are sent
    PageSize,   \* itemsPerPage of the log (50)
    CardSize,   \* events on the card (5)
    NoRequest   \* no request under way

Events == 1 .. MaxEvents
Row == [id : Events, acknowledged : BOOLEAN, isFlagged : BOOLEAN]
Request == [read : BOOLEAN, rows : SUBSET Row]

ASSUME AuditAssumption == /\ MaxPatches \in Nat
                          /\ {MaxEvents, PageSize, CardSize} \subseteq Nat \ {0}
                          /\ NoRequest \notin Request

VARIABLES
    log,          \* audit_events in the order of their timestamps
    shown,        \* shown[v]: the rows the view holds (SWR data)
    auditView,    \* the view that is open
    currentPage,  \* of the audit view
    statusFilter,
    asked,        \* the request of the open view, and the rows read for it
    patches,      \* status changes sent to the server
    sentPatches,  \* how many were sent
    connected,    \* the socket is connected (it never reconnects)
    joined,       \* the socket is in the room of the machine
    alerts,       \* audit:alert messages under way
    unheard       \* history: the log changed and nobody told the open view

auditVars == <<log, shown, auditView, currentPage, statusFilter, asked, patches,
               sentPatches, connected, joined, alerts, unheard>>
pageVars == <<auditView, currentPage, statusFilter>>
socketVars == <<connected, joined>>

AuditViews == {"dashboard", "audit", "other"}
Fetching == {"dashboard", "audit"}
Filters == {"all", "acknowledged", "unacknowledged"}
Patch == [id : Events, acknowledged : BOOLEAN, written : BOOLEAN, sender : Fetching]

AuditTypeOK ==
    /\ log \in Seq(Row) /\ Len(log) <= MaxEvents
    /\ \A e \in DOMAIN log : log[e].id = e
    /\ shown \in [Fetching -> SUBSET Row]
    /\ auditView \in AuditViews /\ statusFilter \in Filters
    /\ currentPage \in 1 .. MaxEvents
    /\ asked \in Request \cup {NoRequest}
    /\ patches \subseteq Patch /\ sentPatches \in 0 .. MaxPatches
    /\ {connected, joined, unheard} \subseteq BOOLEAN
    /\ alerts \in 0 .. MaxEvents

-----------------------------------------------------------------------------
(* GET /audit: newest first; the card asks for unacknowledged events only. *)
Slice(S, offset, limit) ==
    {r \in S : Cardinality({q \in S : q.id > r.id}) \in offset .. offset + limit - 1}

LogRows == {log[e] : e \in DOMAIN log}

Rows(v) ==
    IF v = "dashboard"
      THEN Slice({r \in LogRows : ~r.acknowledged}, 0, CardSize)
      ELSE Slice(LogRows, (currentPage - 1) * PageSize, PageSize)

(* The filter is applied to the page that was fetched.                     *)
Filtered ==
    {r \in shown["audit"] :
        \/ statusFilter = "all"
        \/ r.acknowledged = (statusFilter = "acknowledged")}

(* totalItems={filteredEvents.length}: of the page, not of the log.        *)
TotalItems == Cardinality(Filtered)

TotalPages == (TotalItems + PageSize - 1) \div PageSize

(* The table takes the page's slice of the page a second time.             *)
Displayed == IF auditView = "audit" THEN Slice(Filtered, (currentPage - 1) * PageSize, PageSize)
             ELSE IF auditView = "dashboard" THEN shown["dashboard"] ELSE {}

(* mutate(): a new request, whose answer replaces any that is under way.   *)
Sent == [read |-> FALSE, rows |-> {}]
Ask(v) == asked' = IF v \in Fetching THEN Sent ELSE NoRequest

-----------------------------------------------------------------------------
(* machine:audit stores an event and tells the room; POST /audit tells     *)
(* nobody.                                                                 *)
EventArrives(flagged) ==
    /\ Len(log) < MaxEvents
    /\ log' = Append(log, [id |-> Len(log) + 1, acknowledged |-> FALSE, isFlagged |-> flagged])
    /\ \/ alerts' = (IF connected /\ joined THEN alerts + 1 ELSE alerts)
          /\ unheard' = (unheard \/ ~(connected /\ joined))
       \/ unheard' = TRUE /\ UNCHANGED alerts
    /\ UNCHANGED <<shown, pageVars, asked, patches, sentPatches, socketVars>>

AlertArrives ==
    /\ alerts > 0
    /\ alerts' = alerts - 1
    /\ Ask(auditView)
    /\ UNCHANGED <<log, shown, pageVars, patches, sentPatches, socketVars, unheard>>

SocketDrops ==
    /\ connected
    /\ connected' = FALSE /\ joined' = FALSE
    /\ alerts' = 0
    /\ unheard' = (unheard \/ alerts > 0)
    /\ UNCHANGED <<log, shown, pageVars, asked, patches, sentPatches>>

-----------------------------------------------------------------------------
(* A view opens: ActivityMonitor joins or leaves the room, the pager and   *)
(* the filter of the log are new, the hooks of the view fetch - or show    *)
(* what SWR keeps when their last request is less than two seconds old.    *)
OpenView(v) ==
    /\ v # auditView
    /\ auditView' = v
    /\ currentPage' = 1 /\ statusFilter' = "all"
    /\ joined' = IF connected /\ "dashboard" \in {v, auditView} THEN v = "dashboard" ELSE joined
    /\ \/ Ask(v) /\ UNCHANGED unheard
       \/ /\ v \in Fetching /\ shown[v] # {}
          /\ asked' = NoRequest /\ unheard' = TRUE
    /\ UNCHANGED <<log, shown, patches, sentPatches, connected, alerts>>

(* refreshInterval of the card; the Try Again button of the log.           *)
FetchAgain ==
    /\ auditView \in Fetching
    /\ Ask(auditView)
    /\ UNCHANGED <<log, shown, pageVars, patches, sentPatches, socketVars, alerts, unheard>>

(* The server reads; the answer comes, or an error.                        *)
FetchReads ==
    /\ asked = Sent
    /\ asked' = [read |-> TRUE, rows |-> Rows(auditView)]
    /\ unheard' = FALSE
    /\ UNCHANGED <<log, shown, pageVars, patches, sentPatches, socketVars, alerts>>

FetchAnswers ==
    /\ asked # NoRequest /\ asked.read
    /\ shown' = [shown EXCEPT ![auditView] = asked.rows]
    /\ asked' = NoRequest
    /\ UNCHANGED <<log, pageVars, patches, sentPatches, socketVars, alerts, unheard>>

FetchFails ==
    /\ asked # NoRequest
    /\ asked' = NoRequest
    /\ unheard' = TRUE
    /\ UNCHANGED <<log, shown, pageVars, patches, sentPatches, socketVars, alerts>>

(* The pager is there when there is more than one page.                    *)
PagerOffers ==
    IF TotalPages > 1 THEN {currentPage - 1, currentPage + 1} \cap 1 .. TotalPages ELSE {}

(* The status filter and the pager of the log.                             *)
Choose(f, p) ==
    /\ auditView = "audit" /\ <<f, p>> # <<statusFilter, currentPage>>
    /\ p \in {currentPage} \cup PagerOffers
    /\ statusFilter' = f /\ currentPage' = p
    /\ IF p # currentPage THEN Ask(auditView) ELSE UNCHANGED asked
    /\ UNCHANGED <<log, shown, auditView, patches, sentPatches, socketVars, alerts, unheard>>

-----------------------------------------------------------------------------
(* Acknowledge and Undo of the log, Dismiss of the card.                   *)
Acknowledge(e, ack) ==
    /\ \E r \in Displayed : r.id = e /\ r.acknowledged # ack
    /\ sentPatches < MaxPatches
    /\ sentPatches' = sentPatches + 1
    /\ patches' = patches \cup
         {[id |-> e, acknowledged |-> ack, written |-> FALSE, sender |-> auditView]}
    /\ UNCHANGED <<log, shown, pageVars, asked, socketVars, alerts, unheard>>

SetStatus(e, ack) ==
    log' = [log EXCEPT ![e].acknowledged = ack, ![e].isFlagged = FALSE]

(* PATCH: the flag goes, whichever way the status changes.  Only the view   *)
(* it was sent from will be told.                                          *)
PatchWrites(p) ==
    /\ ~p.written
    /\ SetStatus(p.id, p.acknowledged)
    /\ patches' = (patches \ {p}) \cup {[p EXCEPT !.written = TRUE]}
    /\ unheard' = (unheard \/ p.sender # auditView)
    /\ UNCHANGED <<shown, pageVars, asked, sentPatches, socketVars, alerts>>

(* Mutant of Refetches: nothing is fetched after the answer.               *)
RefetchesNothing(p) == UNCHANGED asked

(* On status 200 mutate() fetches again what the sender shows.  It is bound *)
(* to the sender's key: when another view is open by now, no hook has that *)
(* key and nothing is fetched.                                             *)
Refetches(p) == IF p.sender = auditView THEN Ask(auditView) ELSE UNCHANGED asked

PatchAnswers(p) ==
    /\ p.written
    /\ patches' = patches \ {p}
    /\ Refetches(p)
    /\ UNCHANGED <<log, shown, pageVars, sentPatches, socketVars, alerts, unheard>>

(* The call fails, before or after the row was written.                    *)
PatchFails(p) ==
    /\ patches' = patches \ {p}
    /\ unheard' = (unheard \/ p.written)
    /\ UNCHANGED <<log, shown, pageVars, asked, sentPatches, socketVars, alerts>>

(* Another dashboard changes a status: no event is emitted.                *)
OtherChanges(e, ack) ==
    /\ sentPatches < MaxPatches /\ sentPatches' = sentPatches + 1
    /\ SetStatus(e, ack)
    /\ unheard' = TRUE
    /\ UNCHANGED <<shown, pageVars, asked, patches, socketVars, alerts>>

AuditInit ==
    /\ log = <<>>
    /\ shown = [v \in Fetching |-> {}]
    /\ auditView = "dashboard"
    /\ currentPage = 1 /\ statusFilter = "all"
    /\ asked = Sent
    /\ patches = {} /\ sentPatches = 0
    /\ connected = TRUE /\ joined = TRUE
    /\ alerts = 0 /\ unheard = FALSE

AuditNext ==
    \/ \E f \in BOOLEAN : EventArrives(f)
    \/ AlertArrives \/ SocketDrops
    \/ \E v \in AuditViews : OpenView(v)
    \/ FetchAgain \/ FetchReads \/ FetchAnswers \/ FetchFails
    \/ \E f \in Filters, p \in Events : Choose(f, p)
    \/ \E e \in DOMAIN log, a \in BOOLEAN : Acknowledge(e, a) \/ OtherChanges(e, a)
    \/ \E p \in patches : PatchWrites(p) \/ PatchAnswers(p) \/ PatchFails(p)

AuditSpec == AuditInit /\ [][AuditNext]_auditVars

-----------------------------------------------------------------------------
(* The open view shows the current rows once nothing is under way, unless  *)
(* the log changed in a way nobody told it of: another dashboard, a lost   *)
(* alert, a failed request, or a change sent from the other view and       *)
(* written after this one had read; or unless it was opened again without  *)
(* a request.  The changes sent from the view itself and the alerts that   *)
(* reach it are never overtaken by the answer to an earlier request.       *)
ViewIsCurrent ==
    auditView \in Fetching /\ asked = NoRequest /\ patches = {} /\ alerts = 0 /\ ~unheard =>
        shown[auditView] = Rows(auditView)

=============================================================================
