---------------------------- MODULE MachineIngest ----------------------------
(***************************************************************************)
(* What the server stores of one machine's reports: the machine:activity,  *)
(* machine:audit and machine:screenshot handlers (socketHandler.ts) and    *)
(* the older POST /activity (routes/machine/activity.ts).                  *)
(*                                                                         *)
(* socket.io starts a handler for every message without waiting for the    *)
(* previous one, and each await lets another handler run: a handler is a   *)
(* record of "running", one action per statement.  Time is in units of ten *)
(* seconds.                                                                *)
(***************************************************************************)
EXTENDS Naturals, FiniteSets, Sequences, SequencesExt

CONSTANTS
    Programs,       \* process name and window title of an activity
    EventIds,       \* Windows event ids, each of which names a kind of event
    ShotIds,        \* screenshot ids
    Grace,          \* pingIntervalSeconds * 2 of the socket handler
    HttpGrace,      \* pingIntervalSeconds * 2 of the HTTP route
    MaxReports,     \* bound: reports of a behaviour
    MaxRunning      \* bound: handlers at once

ASSUME IngestAssumption ==
    /\ Grace \in Nat \ {0} /\ HttpGrace \in Nat /\ Grace <= HttpGrace
    /\ MaxReports \in Nat /\ MaxRunning \in Nat \ {0}

VARIABLES
    active,      \* Machine.status = "active"
    clock,       \* the end of the last activity the agent reported
    reports,     \* number of reports so far
    running,     \* handlers in progress
    heartbeats,  \* activity_history: the intervals stored
    sessions,    \* activity_sessions, in the order of their ids
    audits,      \* audit_events: the reports stored, with the number of reports
                 \* there had been (history)
    shots,       \* screenshots: the ids stored
    alertsSent,  \* audit:alert and audit:global messages sent
    overlapped,  \* history: two handlers of the same rows ran at once
    due          \* history: the kinds of event reported to an active machine

ingestVars == <<active, clock, reports, running, heartbeats, sessions, audits,
                shots, alertsSent, overlapped, due>>

Limit == (HttpGrace + 2) * MaxReports
Activity == [program : Programs, start : 0 .. Limit, length : 0 .. 1]
Session == [program : Programs, start : 0 .. Limit, end : 0 .. Limit, count : 1 .. MaxReports]
Event == [id : EventIds, nr : 1 .. MaxReports]
AuditRow == [id : EventIds, nr : 1 .. MaxReports, upto : 0 .. MaxReports]

IngestTypeOK ==
    /\ active \in BOOLEAN /\ overlapped \in BOOLEAN
    /\ clock \in 0 .. Limit /\ reports \in 0 .. MaxReports
    /\ heartbeats \subseteq [nr : 1 .. MaxReports, program : Programs, start : 0 .. Limit, end : 0 .. Limit]
    /\ sessions \in Seq(Session)
    /\ audits \in Seq(AuditRow) /\ alertsSent \in Seq(Event)
    /\ shots \subseteq ShotIds /\ due \subseteq EventIds

IngestInit ==
    /\ active = TRUE
    /\ clock = 0
    /\ reports = 0
    /\ running = {}
    /\ heartbeats = {} /\ sessions = <<>>
    /\ audits = <<>> /\ alertsSent = <<>>
    /\ shots = {}
    /\ overlapped = FALSE /\ due = {}

(* The rows a handler reads and writes: activity, audit or screenshots.    *)
Table(kind) == IF kind = "post" THEN "activity" ELSE kind

(* A report arrives: its handler starts.                                   *)
Start(kind, stage, body) ==
    /\ reports < MaxReports
    /\ Cardinality(running) < MaxRunning
    /\ reports' = reports + 1
    /\ running' = running \cup {[kind |-> kind, nr |-> reports + 1, at |-> stage, body |-> body]}
    /\ overlapped' = (overlapped \/ \E h \in running : Table(h.kind) = Table(kind))

Step(h, next) == running' = (running \ {h}) \cup {next}
Done(h) == running' = running \ {h}
Goto(h, stage) == Step(h, [h EXCEPT !.at = stage])

(* A finished activity of one unit: it began after the last one ended,     *)
(* just within the grace of the session, or too late for it.               *)
ActivityReported(p, gap) ==
    /\ Start("activity", "status", [program |-> p, start |-> clock + gap, length |-> 1])
    /\ clock' = clock + gap + 1
    /\ UNCHANGED <<active, heartbeats, sessions, audits, shots, alertsSent, due>>

(* The HTTP route: authenticated by key, the status is not looked at, the  *)
(* payload has no duration.                                                *)
ActivityPosted(p, gap) ==
    /\ Start("post", "store", [program |-> p, start |-> clock + gap, length |-> 0])
    /\ clock' = clock + gap
    /\ UNCHANGED <<active, heartbeats, sessions, audits, shots, alertsSent, due>>

EventReported(id) ==
    /\ Start("audit", "status", [id |-> id, nr |-> reports + 1])
    /\ UNCHANGED <<active, clock, heartbeats, sessions, audits, shots, alertsSent, due>>

ShotReported(id) ==
    /\ Start("shot", "status", id)
    /\ UNCHANGED <<active, clock, heartbeats, sessions, audits, shots, alertsSent, due>>

StatusChanges ==
    /\ active
    /\ active' = FALSE
    /\ UNCHANGED <<clock, reports, running, heartbeats, sessions, audits, shots, alertsSent,
                   overlapped, due>>

(* findUnique and the check that the machine is active.                    *)
ChecksStatus(h) ==
    /\ h.at = "status"
    /\ IF active THEN Goto(h, IF h.kind = "audit" THEN "find" ELSE "store") ELSE Done(h)
    /\ due' = IF active /\ h.kind = "audit" THEN due \cup {h.body.id} ELSE due
    /\ UNCHANGED <<active, clock, reports, heartbeats, sessions, audits, shots, alertsSent,
                   overlapped>>

-----------------------------------------------------------------------------
IsActivity(h) == Table(h.kind) = "activity"

(* 1. The raw heartbeat.                                                   *)
StoresHeartbeat(h) ==
    /\ IsActivity(h) /\ h.at = "store"
    /\ heartbeats' = heartbeats \cup
         {[nr |-> h.nr, program |-> h.body.program, start |-> h.body.start,
           end |-> h.body.start + h.body.length]}
    /\ Goto(h, "recent")
    /\ UNCHANGED <<active, clock, reports, sessions, audits, shots, alertsSent,
                   overlapped, due>>

(* findFirst by endTime, descending: any of the last ones.                 *)
RecentSessions ==
    {i \in DOMAIN sessions : \A j \in DOMAIN sessions : sessions[j].end <= sessions[i].end}

(* The session is read; what was read is used in the next step.            *)
ReadsSession(h) ==
    /\ IsActivity(h) /\ h.at = "recent"
    /\ IF sessions = <<>>
         THEN Step(h, [kind |-> h.kind, nr |-> h.nr, at |-> "first", body |-> h.body])
         ELSE \E i \in RecentSessions :
                Step(h, [kind |-> h.kind, nr |-> h.nr, at |-> "merge", body |-> h.body,
                         row |-> i, read |-> sessions[i]])
    /\ UNCHANGED <<active, clock, reports, heartbeats, sessions, audits, shots, alertsSent,
                   overlapped, due>>

Extends(h) ==
    /\ h.at = "merge"
    /\ h.read.program = h.body.program
    /\ h.body.start <= h.read.end + (IF h.kind = "post" THEN HttpGrace ELSE Grace)

(* Mutant of NewEnd: the duration of the activity is forgotten.            *)
NewEndStart(h) == h.body.start

NewEnd(h) == h.body.start + h.body.length

(* 2. The session is extended by what was read of it, or a new one begins. *)
StoresSession(h) ==
    /\ IsActivity(h) /\ h.at \in {"first", "merge"}
    /\ sessions' =
         IF Extends(h)
         THEN [sessions EXCEPT ![h.row].end = NewEnd(h), ![h.row].count = h.read.count + 1]
         ELSE Append(sessions, [program |-> h.body.program, start |-> h.body.start,
                                end |-> NewEnd(h), count |-> 1])
    /\ Done(h)
    /\ UNCHANGED <<active, clock, reports, heartbeats, audits, shots, alertsSent,
                   overlapped, due>>

-----------------------------------------------------------------------------
(* Mutant of FindsEvent: no deduplication.                                 *)
FindsEventNever(h) ==
    /\ h.kind = "audit" /\ h.at = "find"
    /\ Goto(h, "store")
    /\ UNCHANGED <<active, clock, reports, heartbeats, sessions, audits, shots, alertsSent,
                   overlapped, due>>

(* findFirst by machine and eventId: the eventId of a row ends the handler, *)
(* although it is the Windows id, the same for every event of its kind.    *)
FindsEvent(h) ==
    /\ h.kind = "audit" /\ h.at = "find"
    /\ IF \E i \in DOMAIN audits : audits[i].id = h.body.id THEN Done(h) ELSE Goto(h, "store")
    /\ UNCHANGED <<active, clock, reports, heartbeats, sessions, audits, shots, alertsSent,
                   overlapped, due>>

(* The row is created, then the dashboards are alerted.                    *)
StoresEvent(h) ==
    /\ h.kind = "audit" /\ h.at = "store"
    /\ audits' = Append(audits, [id |-> h.body.id, nr |-> h.body.nr, upto |-> reports])
    /\ Goto(h, "alert")
    /\ UNCHANGED <<active, clock, reports, heartbeats, sessions, shots, alertsSent,
                   overlapped, due>>

SendsAlert(h) ==
    /\ h.kind = "audit" /\ h.at = "alert"
    /\ alertsSent' = Append(alertsSent, h.body)
    /\ Done(h)
    /\ UNCHANGED <<active, clock, reports, heartbeats, sessions, audits, shots,
                   overlapped, due>>

(* A known screenshot id makes create fail: logged, nothing is announced.  *)
StoresShot(h) ==
    /\ h.kind = "shot" /\ h.at = "store"
    /\ shots' = shots \cup {h.body}
    /\ Done(h)
    /\ UNCHANGED <<active, clock, reports, heartbeats, sessions, audits, alertsSent,
                   overlapped, due>>

-----------------------------------------------------------------------------
IngestNext ==
    \/ \E p \in Programs :
         \/ \E gap \in {Grace, Grace + 1} : ActivityReported(p, gap)
         \/ \E gap \in {HttpGrace, HttpGrace + 1} : ActivityPosted(p, gap)
    \/ \E id \in EventIds : EventReported(id)
    \/ \E id \in ShotIds : ShotReported(id)
    \/ StatusChanges
    \/ \E h \in running :
         \/ ChecksStatus(h)
         \/ StoresHeartbeat(h) \/ ReadsSession(h) \/ StoresSession(h)
         \/ FindsEvent(h) \/ StoresEvent(h) \/ SendsAlert(h)
         \/ StoresShot(h)

IngestSpec == IngestInit /\ [][IngestNext]_ingestVars

-----------------------------------------------------------------------------
Quiet == running = {} /\ ~overlapped

Covers(s, b) == s.program = b.program /\ s.start <= b.start /\ b.end <= s.end

(* When activities are handled one after the other, every stored activity  *)
(* lies in a session of its program, whichever way it came, and the        *)
(* heartbeat count of a session is the number of activities that lie in it.*)
SessionsCoverActivity ==
    Quiet =>
        /\ \A b \in heartbeats : \E i \in DOMAIN sessions : Covers(sessions[i], b)
        /\ \A i \in DOMAIN sessions :
              sessions[i].count = Cardinality({b \in heartbeats : Covers(sessions[i], b)})

RowOf(e) == \E i \in DOMAIN audits : audits[i].id = e.id /\ audits[i].nr = e.nr

(* The eventId of an audit event is its Windows id, a kind of event.  What *)
(* the log keeps of them, whatever handlers overlap: every kind reported   *)
(* to an active machine has a row once its handlers are through; a second  *)
(* row of a kind is that of a report which had already arrived when the    *)
(* first one was stored, so every event of a kind that comes later leaves  *)
(* no row, for ever; and nothing is announced that has no row of its own.  *)
OneRowPerKind ==
    /\ \A id \in due :
          \/ \E i \in DOMAIN audits : audits[i].id = id
          \/ \E h \in running : h.kind = "audit" /\ h.at \in {"find", "store"} /\ h.body.id = id
    /\ \A i, j \in DOMAIN audits :
          i < j /\ audits[i].id = audits[j].id => audits[j].nr <= audits[i].upto
    /\ \A a \in ToSet(alertsSent) : RowOf(a)

=============================================================================
