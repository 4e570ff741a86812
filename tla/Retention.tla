----------------------------- MODULE Retention -----------------------------
(***************************************************************************)
(* How old data leaves the database: performCleanup (jobs/cleanup.ts, at   *)
(* two in the morning or on request), cleanupHeartbeats (jobs/             *)
(* heartbeatCleanup.ts, every six hours), the routes of web/cleanup.ts and *)
(* the form of DataRetention.tsx that stores the periods.                  *)
(*                                                                         *)
(* Runs read the settings once and then delete table by table; a save, a   *)
(* second run and an acknowledgement may come in between.  One unit stands *)
(* for the steps in which ages and periods are compared; a run takes less. *)
(***************************************************************************)
EXTENDS Naturals, FiniteSets

CONSTANTS
    Periods,     \* retention periods the form is filled with; 0 means "keep"
    Defaults,    \* the defaults of the routes and of the form
    MaxAge,      \* bound: the age at which rows stop growing older
    MaxRows,     \* bound: rows ever written
    MaxEdits,    \* bound: fields edited and runs requested
    Unset        \* no cleanup_settings row

Tables == {"activity", "screenshot", "audit"}
Fields == Tables \cup {"heartbeat"}
Policy == [Fields -> Periods]

ASSUME RetentionAssumption ==
    /\ Periods \subseteq Nat /\ 0 \in Periods
    /\ Defaults \in Policy /\ \A f \in Fields : Defaults[f] > 0
    /\ MaxAge \in Nat /\ MaxRows \in Nat /\ MaxEdits \in Nat

VARIABLES
    rows,       \* the rows of the three tables
    written,    \* number of rows ever written
    stored,     \* the cleanup_settings row
    due,        \* scheduled jobs not yet started in this unit of time
    runs,       \* cleanups in progress
    form,       \* DataRetention: formData
    fetched,    \* DataRetention: settings, the last answer
    editing,    \* DataRetention: editMode
    asked,      \* requests of the form in progress
    edits,
    seen        \* history: the periods ever stored for a table, or in force by default

retentionVars == <<rows, written, stored, due, runs, form, fetched, editing, asked, edits, seen>>

StoredRow == [nr : 1 .. MaxRows, table : Tables, age : 0 .. MaxAge, acknowledged : BOOLEAN]
RunStages == {"activity", "screenshot", "audit", "stamp"}
Run == [job : {"daily", "manual"}, at : RunStages, policy : Policy]
         \cup [job : {"heartbeat"}, at : {"activity"}, policy : [{"heartbeat"} -> Periods]]

RetentionTypeOK ==
    /\ rows \subseteq StoredRow /\ written \in 0 .. MaxRows
    /\ stored \in Policy \cup {Unset}
    /\ due \subseteq {"daily", "heartbeat"} /\ runs \subseteq Run
    /\ form \in Policy /\ fetched \in Policy /\ editing \in BOOLEAN
    /\ asked \subseteq {"save", "fetch", "run"}
    /\ edits \in 0 .. MaxEdits
    /\ seen \in [Tables -> SUBSET Periods]

(* settings?.heartbeatRetentionHours || 48                                 *)
HeartbeatPeriod(policy) ==
    IF policy = Unset \/ policy["heartbeat"] = 0 THEN Defaults["heartbeat"]
    ELSE policy["heartbeat"]

(* A new database, and the page has loaded: there is no form before.       *)
RetentionInit ==
    /\ rows = {} /\ written = 0
    /\ stored = Unset
    /\ due = {"daily", "heartbeat"} /\ runs = {}
    /\ form = Defaults /\ fetched = Defaults /\ editing = FALSE
    /\ asked = {}
    /\ edits = 0
    /\ seen = [t \in Tables |-> IF t = "activity" THEN {Defaults["heartbeat"]} ELSE {}]

pageState == <<due, form, fetched, editing, asked, edits>>

-----------------------------------------------------------------------------
(* The tables.                                                             *)
RowWritten(t) ==
    /\ written < MaxRows
    /\ written' = written + 1
    /\ rows' = rows \cup {[nr |-> written + 1, table |-> t, age |-> 0, acknowledged |-> FALSE]}
    /\ UNCHANGED <<stored, runs, pageState, seen>>

EventAcknowledged(r) ==
    /\ r.table = "audit" /\ ~r.acknowledged
    /\ rows' = (rows \ {r}) \cup {[r EXCEPT !.acknowledged = TRUE]}
    /\ UNCHANGED <<written, stored, runs, pageState, seen>>

TimePasses ==
    /\ runs = {}
    /\ due # {"daily", "heartbeat"} \/ \E r \in rows : r.age < MaxAge
    /\ rows' = {[r EXCEPT !.age = IF @ < MaxAge THEN @ + 1 ELSE @] : r \in rows}
    /\ due' = {"daily", "heartbeat"}
    /\ UNCHANGED <<written, stored, runs, form, fetched, editing, asked, edits, seen>>

-----------------------------------------------------------------------------
(* performCleanup: nothing happens without a settings row.                 *)
CleanupStarts(job) ==
    IF stored = Unset THEN UNCHANGED runs
    ELSE runs' = runs \cup {[job |-> job, at |-> "activity", policy |-> stored]}

DailyCleanup ==
    /\ "daily" \in due
    /\ due' = due \ {"daily"}
    /\ CleanupStarts("daily")
    /\ UNCHANGED <<rows, written, stored, form, fetched, editing, asked, edits, seen>>

After(stage) ==
    CASE stage = "activity" -> "screenshot" [] stage = "screenshot" -> "audit"
      [] stage = "audit" -> "stamp"

(* A run whose period is zero passes the table by; of the audit events     *)
(* only the acknowledged ones are deleted.  deleteDriveFiles deletes       *)
(* nothing: its code is commented out.                                     *)
Expired(r, table, period) ==
    /\ r.table = table
    /\ period > 0 /\ r.age > period
    /\ table = "audit" => r.acknowledged

(* Mutant of CleanupDeletes: a table that is kept ends the run.            *)
CleanupDeletesOrStops(run) ==
    /\ run.job # "heartbeat" /\ run.at # "stamp"
    /\ rows' = {r \in rows : ~Expired(r, run.at, run.policy[run.at])}
    /\ runs' = (runs \ {run}) \cup
                  (IF run.policy[run.at] = 0 THEN {} ELSE {[run EXCEPT !.at = After(run.at)]})
    /\ UNCHANGED <<written, stored, pageState, seen>>

CleanupDeletes(run) ==
    /\ run.job # "heartbeat" /\ run.at # "stamp"
    /\ rows' = {r \in rows : ~Expired(r, run.at, run.policy[run.at])}
    /\ runs' = (runs \ {run}) \cup {[run EXCEPT !.at = After(run.at)]}
    /\ UNCHANGED <<written, stored, pageState, seen>>

(* lastCleanupRun is stored; the page that asked for the run fetches.      *)
CleanupEnds(run) ==
    /\ run.at = "stamp"
    /\ runs' = runs \ {run}
    /\ asked' = IF run.job = "manual" THEN (asked \ {"run"}) \cup {"fetch"} ELSE asked
    /\ UNCHANGED <<rows, written, due, stored, form, fetched, editing, edits, seen>>

(* A statement fails: the run is over, with what it has deleted.           *)
CleanupFails(run) ==
    /\ run.job # "heartbeat"
    /\ edits < MaxEdits /\ edits' = edits + 1
    /\ runs' = runs \ {run}
    /\ asked' = IF run.job = "manual" THEN asked \ {"run"} ELSE asked
    /\ UNCHANGED <<rows, written, due, stored, form, fetched, editing, seen>>

(* cleanupHeartbeats: the same table as the activity history of the page,  *)
(* also when there are no settings or its period is zero.                  *)
HeartbeatCleanup ==
    /\ "heartbeat" \in due
    /\ due' = due \ {"heartbeat"}
    /\ runs' = runs \cup {[job |-> "heartbeat", at |-> "activity",
                           policy |-> [f \in {"heartbeat"} |-> HeartbeatPeriod(stored)]]}
    /\ UNCHANGED <<rows, written, stored, form, fetched, editing, asked, edits, seen>>

(* Mutant of HeartbeatCleanupDeletes: every table.                         *)
HeartbeatCleanupDeletesAll(run) ==
    /\ run.job = "heartbeat"
    /\ rows' = {r \in rows : r.age <= run.policy["heartbeat"]}
    /\ runs' = runs \ {run}
    /\ UNCHANGED <<written, stored, pageState, seen>>

HeartbeatCleanupDeletes(run) ==
    /\ run.job = "heartbeat"
    /\ rows' = {r \in rows : ~Expired(r, "activity", run.policy["heartbeat"])}
    /\ runs' = runs \ {run}
    /\ UNCHANGED <<written, stored, pageState, seen>>

-----------------------------------------------------------------------------
(* DataRetention.                                                          *)

(* The answer of GET /cleanup: what is stored, or the defaults.            *)
StoredPolicy == IF stored = Unset THEN Defaults ELSE stored
Filled(policy) == [policy EXCEPT !["heartbeat"] = HeartbeatPeriod(policy)]

(* The form is refilled with every answer, whether or not it is edited.    *)
FetchAnswered ==
    /\ "fetch" \in asked
    /\ fetched' = StoredPolicy /\ form' = Filled(StoredPolicy)
    /\ asked' = asked \ {"fetch"}
    /\ UNCHANGED <<rows, written, due, stored, runs, editing, edits, seen>>

EditOpened ==
    /\ ~editing
    /\ editing' = TRUE
    /\ UNCHANGED <<rows, written, stored, due, runs, form, fetched, asked, edits, seen>>

FieldEdited(f, period) ==
    /\ editing
    /\ edits < MaxEdits /\ edits' = edits + 1
    /\ form' = [form EXCEPT ![f] = period]
    /\ UNCHANGED <<rows, written, due, stored, runs, fetched, editing, asked, seen>>

EditCancelled ==
    /\ editing
    /\ editing' = FALSE
    /\ form' = Filled(fetched)
    /\ UNCHANGED <<rows, written, due, stored, runs, fetched, asked, edits, seen>>

(* PUT /cleanup stores all fields of the form at once; then the page       *)
(* fetches, and leaves the edit mode.                                      *)
Saved ==
    /\ editing /\ "save" \notin asked
    /\ stored' = form
    /\ seen' = [t \in Tables |->
                  (seen[t] \cup {form[t]} \cup
                     (IF t = "activity" THEN {HeartbeatPeriod(form)} ELSE {})) \ {0}]
    /\ asked' = asked \cup {"save"}
    /\ UNCHANGED <<rows, written, due, runs, form, fetched, editing, edits>>

SaveAnswered ==
    /\ "save" \in asked
    /\ fetched' = StoredPolicy /\ form' = Filled(StoredPolicy)
    /\ editing' = FALSE
    /\ asked' = asked \ {"save"}
    /\ UNCHANGED <<rows, written, stored, due, runs, edits, seen>>

(* POST /cleanup/run, offered outside the edit mode; the run of a database *)
(* without settings answers at once.                                       *)
RunRequested ==
    /\ ~editing /\ "run" \notin asked
    /\ edits < MaxEdits /\ edits' = edits + 1
    /\ CleanupStarts("manual")
    /\ asked' = asked \cup {IF stored = Unset THEN "fetch" ELSE "run"}
    /\ UNCHANGED <<rows, written, stored, due, form, fetched, editing, seen>>

-----------------------------------------------------------------------------
RunStep(run) == CleanupDeletes(run) \/ CleanupEnds(run) \/ HeartbeatCleanupDeletes(run)

RetentionNext ==
    \/ \E t \in Tables : RowWritten(t)
    \/ \E r \in rows : EventAcknowledged(r)
    \/ TimePasses
    \/ DailyCleanup \/ HeartbeatCleanup
    \/ \E run \in runs : RunStep(run) \/ CleanupFails(run)
    \/ FetchAnswered \/ EditOpened \/ EditCancelled \/ Saved \/ SaveAnswered
    \/ \E f \in Fields, period \in Periods : FieldEdited(f, period)
    \/ RunRequested

(* The jobs are scheduled for ever, their statements return, time passes.  *)
RetentionFair(k) ==
    \/ k = 1 /\ TimePasses
    \/ k = 2 /\ HeartbeatCleanup
    \/ k = 3 /\ DailyCleanup
    \/ k = 4 /\ \E run \in runs : run.job = "daily" /\ RunStep(run)
    \/ k = 5 /\ \E run \in runs : run.job = "manual" /\ RunStep(run)
    \/ k = 6 /\ \E run \in runs : run.job = "heartbeat" /\ RunStep(run)

RetentionFairness == (\A k \in 1 .. 6 : WF_retentionVars(RetentionFair(k)))

RetentionSpec ==
    RetentionInit /\ [][RetentionNext]_retentionVars /\ RetentionFairness

-----------------------------------------------------------------------------
(* A row goes only when it is older than some period that was once stored  *)
(* for its table (for activities, also the heartbeat period), and an audit *)
(* event only after it was acknowledged, although runs work with settings  *)
(* that may have been replaced since.                                      *)
OnlyExpiredRowsGo ==
    [][\A r \in rows :
         (\A s \in rows' : s.nr # r.nr) =>
            /\ \E period \in seen[r.table] : r.age > period
            /\ r.table = "audit" => r.acknowledged]_retentionVars

(* Once the settings are left alone, every row of a table with a period    *)
(* goes, whatever the other tables' periods are: audit events as soon as   *)
(* they are acknowledged.                                                  *)
OldRowsGo ==
    \A t \in Tables :
        \A p \in Periods \ {0} :
            p < MaxAge /\ <>[](stored # Unset /\ stored[t] = p) =>
                <>[]~(\E r \in rows : r.table = t /\ (t = "audit" => r.acknowledged))

============================================================================
