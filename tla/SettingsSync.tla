------------------------------ MODULE SettingsSync ------------------------------
(***************************************************************************)
(* How a machine's settings travel from the dashboard to the machine.      *)
(*                                                                         *)
(*   dashboard pages --POST settings--> server row --push--> the service   *)
(*   the service --GET configuration--> current settings, settings.json,   *)
(*   audit watchers, schedule enforcement --POST applied--> server row     *)
(*                                                                         *)
(* A push carries no data the service uses: every push, and every restored *)
(* connection, starts one more Worker.FetchAndApplySettingsAsync, and      *)
(* nothing keeps two of them apart.  The tasks run on pool threads, so an  *)
(* action here is a stretch of code between two accesses to shared fields. *)
(* Main is Worker.ExecuteAsync: it loads settings.json, fetches once, and  *)
(* only then subscribes to the events.                                     *)
(*                                                                         *)
(* Of the settings only the two switches the service acts on are kept.     *)
(***************************************************************************)
EXTENDS Naturals, FiniteSets

CONSTANTS
    Pages,          \* dashboard pages that edit this machine's settings
    Edits,          \* the switches the pages flip, a subset of Sections
    Adopted,        \* the settings an adoption may choose, a subset of Config
    Tasks,          \* slots for concurrent FetchAndApplySettingsAsync calls
    Main,           \* the service's main thread
    Tokens,         \* names for CancellationTokenSources, a set of numbers
    MaxSaves,       \* bound: saves by the pages
    MaxDrops,       \* bound: losses of the socket
    MaxCrashes,     \* bound: ends of the service process
    MaxFailures,    \* bound: failed HTTP calls, failed saves of the file and
                    \* watchers that cannot be created or disposed
    MaxFaults,      \* bound: ends and failures together
    Null, Torn, Nobody

Sections == {"audit", "access"}
Config == [Sections -> BOOLEAN]
Defaults == [s \in Sections |-> FALSE]
Procs == Tasks \cup {Main}

ASSUME SyncAssumption ==
    /\ Edits \subseteq Sections /\ Adopted \subseteq Config
    /\ Main \notin Tasks /\ Nobody \notin Procs
    /\ Null \notin Config /\ Torn \notin Config /\ Null # Torn
    /\ Tokens \subseteq Nat /\ IsFiniteSet(Tokens) /\ 0 \notin Tokens
    /\ {MaxSaves, MaxDrops, MaxCrashes, MaxFailures, MaxFaults} \subseteq Nat

VARIABLES
    status,         \* server: machine.status, "pending", "adopting" or "active"
    stored,         \* server: machineState.settings
    applied,        \* server: machineState.appliedSettings
    page,           \* the settings each dashboard page shows
    connected,      \* the service's socket is in the machine's room
    pushes,         \* server:settings_update messages in flight
    restored,       \* machine:connected answers not yet handled
    hooked,         \* Worker has subscribed to ServerConnection's events
    current,        \* SettingsManager._currentSettings
    disk,           \* settings.json: a configuration, Null (absent) or Torn
    saver,          \* who has settings.json open for writing
    saving,         \* what it writes
    monitoring,     \* AuditManager.IsMonitoring
    watchers,       \* AuditManager._activeWatchers: "none", "one" set or "many"
    schedule,       \* ScheduleManager._currentSchedule.Enabled
    running,        \* ScheduleManager._isEnforcementRunning
    cts,            \* ScheduleManager._enforcementCts, 0 when null
    etask,          \* the token of ScheduleManager._enforcementTask, 0 when null
    live,           \* tokens of enforcement loops that have not ended
    cancelled,      \* tokens that were cancelled
    pc, got, wait,  \* each thread: position, fetched settings, awaited loop
    lone,           \* history: the last fetch, if nothing disturbed it since
    ver, seen,      \* history: stores so far, and how many the last read saw
    unsaved,        \* history: the last save of settings.json failed
    unwatched,      \* history: the lone fetch last failed to start watchers
    drops, crashes, failures

server == <<status, stored, applied, page>>
link == <<connected, pushes, restored, hooked>>
file == <<current, disk, saver, saving>>
audit == <<monitoring, watchers>>
access == <<schedule, running, cts, etask, live, cancelled>>
thread == <<pc, got, wait>>
failed == <<unsaved, unwatched>>
history == <<lone, ver, seen, failed>>
bounds == <<drops, crashes, failures>>
vars == <<server, link, file, audit, access, thread, history, bounds>>

\* What still may go wrong within the bounds.
MayCrash == crashes < MaxCrashes /\ crashes + failures < MaxFaults
MayFail == failures < MaxFailures /\ crashes + failures < MaxFaults

Watching == {"none", "one", "many"}
Positions ==
    {"off", "load", "initsched", "fetch", "set", "open", "close", "audit",
     "clear", "unflag", "add", "flag", "giveup", "sched", "check", "cts", "run", "loop",
     "cancel", "stopped", "await", "report", "hook", "begin", "auditon",
     "serve", "idle"}

\* Positions at which a thread holds nothing and changes nothing.
Resting == {"idle", "fetch", "serve"}

\* Types, and the bounds of the counters.
TypeOK ==
    /\ status \in {"pending", "adopting", "active"}
    /\ stored \in Config \cup {Null} /\ applied \in Config \cup {Null}
    /\ page \in [Pages -> Config \cup {Null}]
    /\ connected \in BOOLEAN /\ hooked \in BOOLEAN
    /\ pushes \in Nat /\ restored \in 0..2
    /\ current \in Config /\ disk \in Config \cup {Null, Torn}
    /\ saver \in Procs \cup {Nobody} /\ saving \in Config
    /\ monitoring \in BOOLEAN /\ watchers \in Watching
    /\ schedule \in BOOLEAN /\ running \in BOOLEAN
    /\ cts \in Tokens \cup {0} /\ etask \in Tokens \cup {0}
    /\ live \subseteq Tokens /\ cancelled \subseteq Tokens
    /\ pc \in [Procs -> Positions] /\ got \in [Procs -> Config]
    /\ wait \in [Procs -> Tokens \cup {0}]
    /\ lone \in Procs \cup {Nobody} /\ ver \in Nat /\ seen \in 0..ver
    /\ unsaved \in BOOLEAN /\ unwatched \in BOOLEAN
    /\ drops \in 0..MaxDrops /\ crashes \in 0..MaxCrashes
    /\ failures \in 0..MaxFailures

-----------------------------------------------------------------------------
\* The process has just ended, or not yet begun: every field has its initial
\* value once it runs again.
Off ==
    /\ pc' = [p \in Procs |-> IF p = Main THEN "off" ELSE "idle"]
    /\ got' = [p \in Procs |-> Defaults]
    /\ wait' = [p \in Procs |-> 0]
    /\ connected' = FALSE /\ pushes' = 0 /\ restored' = 0 /\ hooked' = FALSE
    /\ current' = Defaults /\ saver' = Nobody /\ saving' = Defaults
    /\ monitoring' = FALSE /\ watchers' = "none"
    /\ schedule' = FALSE /\ running' = FALSE
    /\ cts' = 0 /\ etask' = 0 /\ live' = {} /\ cancelled' = {}

Init ==
    /\ status = "pending" /\ stored = Null /\ applied = Null
    /\ page = [w \in Pages |-> Null]
    /\ connected = FALSE /\ pushes = 0 /\ restored = 0 /\ hooked = FALSE
    /\ current = Defaults /\ disk = Null /\ saver = Nobody /\ saving = Defaults
    /\ monitoring = FALSE /\ watchers = "none"
    /\ schedule = FALSE /\ running = FALSE
    /\ cts = 0 /\ etask = 0 /\ live = {} /\ cancelled = {}
    /\ pc = [p \in Procs |-> IF p = Main THEN "off" ELSE "idle"]
    /\ got = [p \in Procs |-> Defaults] /\ wait = [p \in Procs |-> 0]
    /\ lone = Nobody /\ ver = 0 /\ seen = 0
    /\ unsaved = FALSE /\ unwatched = FALSE
    /\ drops = 0 /\ crashes = 0 /\ failures = 0

-----------------------------------------------------------------------------
(***************************************************************************)
(* The server and the dashboard.                                           *)
(***************************************************************************)

\* Mutant of Served: the defaults are forgotten.
ServedRaw == stored
\* What both GET handlers answer: the stored settings over the defaults.
Served == IF stored = Null THEN Defaults ELSE stored

\* A page loads the settings.
PageLoads(w) ==
    /\ page' = [page EXCEPT ![w] = Served]
    /\ UNCHANGED <<status, stored, applied, link, file, audit, access, thread,
                   history, bounds>>

\* A page flips a switch and posts everything it shows, so the merge with the
\* stored row replaces every section; the row is written, then pushed to the
\* machine's room.
PageSaves(w, s) ==
    /\ page[w] # Null /\ ver < MaxSaves
    /\ LET merged == [page[w] EXCEPT ![s] = ~@]
       IN  stored' = merged /\ page' = [page EXCEPT ![w] = merged]
    /\ pushes' = IF connected THEN pushes + 1 ELSE pushes
    /\ ver' = ver + 1 /\ lone' = Nobody
    /\ UNCHANGED <<status, applied, connected, restored, hooked, file, audit,
                   access, thread, seen, failed, bounds>>

\* MachineService.adopt: refused only when active; the status is written
\* first and the initial settings after it, with no push to the machine.
AdoptStatus ==
    /\ status = "pending" /\ Adopted # {}
    /\ status' = "adopting"
    /\ UNCHANGED <<stored, applied, page, link, file, audit, access, thread,
                   history, bounds>>
AdoptStore(c) ==
    /\ status = "adopting"
    /\ status' = "active" /\ stored' = c
    /\ lone' = Nobody
    /\ UNCHANGED <<applied, page, link, file, audit, access, thread, ver, seen,
                   failed, bounds>>

-----------------------------------------------------------------------------
(***************************************************************************)
(* The connection, and the events it raises.                               *)
(***************************************************************************)

\* The socket is up and authenticated: the client's own OnConnected handler
\* and, on a watchdog connect, ConnectAsync each emitted machine:connect, and
\* each is answered.
Connect ==
    /\ pc[Main] \notin {"off", "load"} /\ ~connected
    /\ connected' = TRUE
    /\ \E n \in 1..2 : restored' = n
    /\ UNCHANGED <<server, pushes, hooked, file, audit, access, thread, history,
                   bounds>>

Disconnect ==
    /\ connected /\ drops < MaxDrops
    /\ connected' = FALSE /\ pushes' = 0
    /\ \E n \in 0..restored : restored' = n
    /\ drops' = drops + 1
    /\ UNCHANGED <<server, hooked, file, audit, access, thread, history, crashes,
                   failures>>

\* Mutant of Raise: an event after the subscription starts nothing.
RaiseIgnored == pc' = pc
\* An event starts one more fetch, if Worker has subscribed by now.
Raise ==
    IF hooked THEN \E t \in Tasks : /\ pc[t] = "idle"
                                    /\ pc' = [pc EXCEPT ![t] = "fetch"]
              ELSE pc' = pc

PushArrives ==
    /\ pushes > 0
    /\ pushes' = pushes - 1
    /\ Raise
    /\ UNCHANGED <<server, connected, restored, hooked, file, audit, access, got,
                   wait, history, bounds>>

RestoredArrives ==
    /\ restored > 0
    /\ restored' = restored - 1
    /\ Raise
    /\ UNCHANGED <<server, connected, pushes, hooked, file, audit, access, got,
                   wait, history, bounds>>

-----------------------------------------------------------------------------
(***************************************************************************)
(* The main thread.                                                        *)
(***************************************************************************)

Goto(p, where) == pc' = [pc EXCEPT ![p] = where]

Start ==
    /\ pc[Main] = "off"
    /\ Goto(Main, "load")
    /\ UNCHANGED <<server, link, file, audit, access, got, wait, history, bounds>>

\* Mutant of Load: the repaired settings are not saved back.
LoadKeepsTorn ==
    /\ pc[Main] = "load"
    /\ current' = IF disk \in Config THEN disk ELSE Defaults
    /\ disk' = disk /\ unsaved' = FALSE
    /\ Goto(Main, "initsched")
    /\ UNCHANGED <<server, link, saver, saving, audit, access, got, wait, lone, ver,
                   seen, unwatched, bounds>>
\* SettingsManager.InitializeAsync: a missing or unreadable file is replaced
\* by the defaults ...
Load ==
    /\ pc[Main] = "load"
    /\ current' = IF disk \in Config THEN disk ELSE Defaults
    /\ disk' = current' /\ unsaved' = FALSE
    /\ Goto(Main, "initsched")
    /\ UNCHANGED <<server, link, saver, saving, audit, access, got, wait, lone, ver,
                   seen, unwatched, bounds>>
\* ... unless the backup or the save fails, which is only logged.
LoadFails ==
    /\ pc[Main] = "load" /\ disk \notin Config /\ MayFail
    /\ current' = Defaults
    /\ disk' \in {disk, Torn} /\ unsaved' = TRUE
    /\ failures' = failures + 1
    /\ Goto(Main, "initsched")
    /\ UNCHANGED <<server, link, saver, saving, audit, access, got, wait, lone, ver,
                   seen, unwatched, drops, crashes>>

\* ScheduleManager.InitializeAsync; no other thread exists yet.
InitSchedule ==
    /\ pc[Main] = "initsched"
    /\ schedule' = current["access"]
    /\ IF current["access"]
       THEN \E k \in Tokens : /\ \A j \in Tokens : k <= j
                              /\ cts' = k /\ etask' = k /\ live' = {k}
                              /\ running' = TRUE
       ELSE UNCHANGED <<cts, etask, live, running>>
    /\ Goto(Main, "fetch")
    /\ UNCHANGED <<server, link, file, audit, cancelled, got, wait, history, bounds>>

\* The subscriptions of ExecuteAsync.
Hook ==
    /\ pc[Main] = "hook"
    /\ hooked' = TRUE
    /\ Goto(Main, "begin")
    /\ UNCHANGED <<server, connected, pushes, restored, file, audit, access, got,
                   wait, history, bounds>>

\* Enforcement is started whatever the schedule says.
Begin ==
    /\ pc[Main] = "begin"
    /\ Goto(Main, IF running THEN "auditon" ELSE "cts")
    /\ UNCHANGED <<server, link, file, audit, access, got, wait, history, bounds>>

\* Audit monitoring is started from the settings of that moment.
AuditOn ==
    /\ pc[Main] = "auditon"
    /\ got' = [got EXCEPT ![Main] = current]
    /\ Goto(Main, IF current["audit"] THEN "audit" ELSE "serve")
    /\ UNCHANGED <<server, link, file, audit, access, wait, history, bounds>>

\* The process ends, by a crash or otherwise, with whatever is in the file.
Crash ==
    /\ pc[Main] # "off" /\ MayCrash
    /\ Off
    /\ lone' = Nobody /\ unwatched' = FALSE
    /\ crashes' = crashes + 1
    /\ UNCHANGED <<server, disk, ver, seen, unsaved, drops, failures>>

-----------------------------------------------------------------------------
(***************************************************************************)
(* FetchAndApplySettingsAsync, run by Main before it subscribes and by the *)
(* tasks after.  Main also passes through the parts that start audit       *)
(* monitoring and enforcement once it has subscribed.                      *)
(***************************************************************************)
Booting(p) == p = Main /\ hooked
AfterFetch(p) == IF p = Main THEN "hook" ELSE "idle"
AfterAudit(p) == IF Booting(p) THEN "serve" ELSE "sched"
AfterStart(p) == IF Booting(p) THEN "auditon" ELSE "report"

\* The server reads the row and the answer comes back ...
Fetch(p) ==
    /\ pc[p] = "fetch"
    /\ got' = [got EXCEPT ![p] = Served]
    /\ seen' = ver /\ unwatched' = FALSE
    /\ lone' = IF \A q \in Procs \ {p} : pc[q] \in Resting THEN p ELSE Nobody
    /\ Goto(p, "set")
    /\ UNCHANGED <<server, link, file, audit, access, wait, ver, unsaved,
                   bounds>>
\* ... or the call fails, and nobody tries again.
FetchFails(p) ==
    /\ pc[p] = "fetch" /\ MayFail
    /\ failures' = failures + 1
    /\ Goto(p, AfterFetch(p))
    /\ UNCHANGED <<server, link, file, audit, access, got, wait, history, drops,
                   crashes>>

\* Mutant of Set: the field keeps the settings of before.
SetForgotten(p) ==
    /\ pc[p] = "set"
    /\ Goto(p, "open")
    /\ UNCHANGED <<server, link, file, audit, access, got, wait, history, bounds>>
\* SettingsManager.UpdateSettingsAsync and SaveSettingsAsync: the field, then
\* the file, which is truncated when it is opened.
Set(p) ==
    /\ pc[p] = "set"
    /\ current' = got[p]
    /\ Goto(p, "open")
    /\ UNCHANGED <<server, link, disk, saver, saving, audit, access, got, wait,
                   history, bounds>>
Open(p) ==
    /\ pc[p] = "open" /\ saver = Nobody
    /\ saver' = p /\ saving' = current /\ disk' = Torn
    /\ Goto(p, "close")
    /\ UNCHANGED <<server, link, current, audit, access, got, wait, history, bounds>>
\* Another task has it open: the IOException is logged, and that is all.
OpenDenied(p) ==
    /\ pc[p] = "open" /\ saver # Nobody
    /\ Goto(p, "audit")
    /\ UNCHANGED <<server, link, file, audit, access, got, wait, history, bounds>>
Close(p) ==
    /\ pc[p] = "close"
    /\ disk' = saving /\ saver' = Nobody /\ unsaved' = FALSE
    /\ Goto(p, "audit")
    /\ UNCHANGED <<server, link, current, saving, audit, access, got, wait, lone, ver,
                   seen, unwatched, bounds>>
\* The file cannot be opened, or not be written once it is: only logged too.
SaveFails(p) ==
    /\ MayFail /\ failures' = failures + 1
    /\ \/ pc[p] = "open" /\ saver' = saver
       \/ pc[p] = "close" /\ saver' = Nobody
    /\ unsaved' = TRUE
    /\ Goto(p, "audit")
    /\ UNCHANGED <<server, link, current, disk, saving, audit, access, got, wait, lone,
                   ver, seen, unwatched, drops, crashes>>

\* ApplySettingsAsync, audit: StartMonitoringAsync stops first when monitoring;
\* monitoring is stopped only when IsMonitoring says it is on.
Audit(p) ==
    /\ pc[p] = "audit"
    /\ Goto(p, IF monitoring THEN "clear"
               ELSE IF got[p]["audit"] THEN "add" ELSE AfterAudit(p))
    /\ UNCHANGED <<server, link, file, audit, access, got, wait, history, bounds>>
\* StopMonitoringAsync disposes the watchers, and then clears the flag.
Clear(p) ==
    /\ pc[p] = "clear"
    /\ IF monitoring \/ watchers # "none"
       THEN watchers' = "none" /\ Goto(p, "unflag")
       ELSE watchers' = watchers /\ Goto(p, IF got[p]["audit"] THEN "add"
                                            ELSE AfterAudit(p))
    /\ UNCHANGED <<server, link, file, monitoring, access, got, wait, history,
                   bounds>>
\* A watcher that cannot be disposed leaves the list as it was.
ClearFails(p) ==
    /\ pc[p] = "clear" /\ watchers # "none" /\ MayFail
    /\ failures' = failures + 1
    /\ Goto(p, "unflag")
    /\ UNCHANGED <<server, link, file, audit, access, got, wait, history, drops, crashes>>
Unflag(p) ==
    /\ pc[p] = "unflag"
    /\ monitoring' = FALSE
    /\ Goto(p, IF got[p]["audit"] THEN "add" ELSE AfterAudit(p))
    /\ UNCHANGED <<server, link, file, watchers, access, got, wait, history, bounds>>
\* StartMonitoringAsync adds its watchers, and then sets the flag.
MoreWatchers == IF watchers = "none" THEN "one" ELSE "many"
Add(p) ==
    /\ pc[p] = "add"
    /\ watchers' = MoreWatchers /\ unwatched' = (unwatched /\ lone # p)
    /\ Goto(p, "flag")
    /\ UNCHANGED <<server, link, file, monitoring, access, got, wait, lone, ver, seen,
                   unsaved, bounds>>
\* A watcher cannot be created.  An EventLogException is logged, the next one
\* is tried and the flag set as if it were there; anything else ends the start
\* with the flag off, and with the watchers it has added.
AddFails(p) ==
    /\ pc[p] = "add" /\ MayFail
    /\ watchers' \in {watchers, MoreWatchers} /\ unwatched' = (lone = p)
    /\ failures' = failures + 1
    /\ \E next \in {"flag", "giveup"} : Goto(p, next)
    /\ UNCHANGED <<server, link, file, monitoring, access, got, wait, lone, ver, seen,
                   unsaved, drops, crashes>>
GiveUp(p) ==
    /\ pc[p] = "giveup"
    /\ monitoring' = FALSE
    /\ Goto(p, AfterAudit(p))
    /\ UNCHANGED <<server, link, file, watchers, access, got, wait, history, bounds>>
Flag(p) ==
    /\ pc[p] = "flag"
    /\ monitoring' = TRUE
    /\ Goto(p, AfterAudit(p))
    /\ UNCHANGED <<server, link, file, watchers, access, got, wait, history, bounds>>

\* ScheduleManager.UpdateScheduleFromSettingsAsync: the schedule, then a look
\* at it and at the flag, then a start or a stop.
Sched(p) ==
    /\ pc[p] = "sched"
    /\ schedule' = got[p]["access"]
    /\ Goto(p, "check")
    /\ UNCHANGED <<server, link, file, audit, running, cts, etask, live, cancelled,
                   got, wait, history, bounds>>
Check(p) ==
    /\ pc[p] = "check"
    /\ Goto(p, IF schedule /\ ~running THEN "cts"
               ELSE IF ~schedule /\ running THEN "cancel"
               ELSE "report")
    /\ UNCHANGED <<server, link, file, audit, access, got, wait, history, bounds>>

\* StartEnforcementAsync: a new token source, the flag, the loop on whatever
\* token source is there by then.  Tokens nothing refers to are reused.
Free(k) == k \notin live \cup {cts, etask} \cup {wait[q] : q \in Procs}
NewSource(p) ==
    /\ pc[p] = "cts"
    /\ \E k \in Tokens :
          /\ Free(k) /\ \A j \in Tokens : Free(j) => k <= j
          /\ cts' = k /\ cancelled' = cancelled \ {k}
    /\ Goto(p, "run")
    /\ UNCHANGED <<server, link, file, audit, schedule, running, etask, live, got,
                   wait, history, bounds>>
Run(p) ==
    /\ pc[p] = "run"
    /\ running' = TRUE
    /\ Goto(p, "loop")
    /\ UNCHANGED <<server, link, file, audit, schedule, cts, etask, live, cancelled,
                   got, wait, history, bounds>>
Loop(p) ==
    /\ pc[p] = "loop"
    /\ etask' = cts
    /\ live' = IF cts \in cancelled THEN live ELSE live \cup {cts}
    /\ Goto(p, AfterStart(p))
    /\ UNCHANGED <<server, link, file, audit, schedule, running, cts, cancelled,
                   got, wait, history, bounds>>

\* StopEnforcementAsync: cancel, clear the flag, wait for the task.
Cancel(p) ==
    /\ pc[p] = "cancel"
    /\ cancelled' = cancelled \cup ({cts} \ {0})
    /\ Goto(p, "stopped")
    /\ UNCHANGED <<server, link, file, audit, schedule, running, cts, etask, live,
                   got, wait, history, bounds>>
Stopped(p) ==
    /\ pc[p] = "stopped"
    /\ running' = FALSE
    /\ wait' = [wait EXCEPT ![p] = etask]
    /\ Goto(p, "await")
    /\ UNCHANGED <<server, link, file, audit, schedule, cts, etask, live, cancelled,
                   got, history, bounds>>
Await(p) ==
    /\ pc[p] = "await" /\ wait[p] \notin live
    /\ wait' = [wait EXCEPT ![p] = 0]
    /\ Goto(p, "report")
    /\ UNCHANGED <<server, link, file, audit, access, got, history, bounds>>

\* An enforcement loop leaves at its next look at its token.
LoopEnds(k) ==
    /\ k \in live \cap cancelled
    /\ live' = live \ {k}
    /\ UNCHANGED <<server, link, file, audit, schedule, running, cts, etask,
                   cancelled, thread, history, bounds>>

\* The settings are reported as applied; the server's update needs the row,
\* which a heartbeat may not have created yet when nothing is stored.
Report(p) ==
    /\ pc[p] = "report"
    /\ applied' = got[p]
    /\ Goto(p, AfterFetch(p))
    /\ UNCHANGED <<status, stored, page, link, file, audit, access, got, wait,
                   history, bounds>>
ReportFails(p) ==
    /\ pc[p] = "report"
    /\ \/ MayFail /\ failures' = failures + 1
       \/ stored = Null /\ failures' = failures
    /\ lone' = IF lone = p THEN Nobody ELSE lone
    /\ Goto(p, AfterFetch(p))
    /\ UNCHANGED <<server, link, file, audit, access, got, wait, ver, seen,
                   failed, drops, crashes>>

-----------------------------------------------------------------------------
Step(p) ==
    \/ Fetch(p) \/ FetchFails(p) \/ Set(p) \/ Open(p) \/ OpenDenied(p) \/ Close(p)
    \/ SaveFails(p) \/ Audit(p) \/ Clear(p) \/ ClearFails(p) \/ Unflag(p)
    \/ Add(p) \/ AddFails(p) \/ Flag(p) \/ GiveUp(p)
    \/ Sched(p) \/ Check(p) \/ NewSource(p) \/ Run(p) \/ Loop(p)
    \/ Cancel(p) \/ Stopped(p) \/ Await(p)
    \/ Report(p) \/ ReportFails(p)
MainStep == Start \/ Load \/ LoadFails \/ InitSchedule \/ Hook \/ Begin \/ AuditOn
Dashboard ==
    \/ \E w \in Pages : PageLoads(w) \/ \E s \in Edits : PageSaves(w, s)
    \/ AdoptStatus \/ \E c \in Adopted : AdoptStore(c)
Arrivals == PushArrives \/ RestoredArrives
LoopsEnd == \E k \in Tokens : LoopEnds(k)
Next ==
    \/ \E p \in Procs : Step(p)
    \/ MainStep \/ Dashboard \/ Arrivals \/ LoopsEnd
    \/ Connect \/ Disconnect \/ Crash

Spec == Init /\ [][Next]_vars

\* The service is restarted by its recovery settings, its threads and its
\* loops run, the socket reconnects, and what was sent on it arrives.
Fairness ==
    /\ \A p \in Procs : WF_vars(Step(p))
    /\ WF_vars(MainStep) /\ WF_vars(LoopsEnd) /\ WF_vars(Connect)
    /\ WF_vars(PushArrives) /\ WF_vars(RestoredArrives)
LiveSpec == Spec /\ Fairness

-----------------------------------------------------------------------------
\* A fetch that nothing overlapped and no store overtook leaves everything in
\* agreement, whatever earlier overlapping fetches left behind: the server's
\* row, its applied settings, the service's settings, its file, its schedule
\* and the two switches the managers keep.  The file is the exception when it
\* was the save that failed, the watchers when it was their start; both are
\* reported as applied all the same.
LoneFetchConverges ==
    \A p \in Procs : lone = p /\ pc[p] \in {"idle", "hook", "serve"} =>
        /\ current = Served /\ applied = current
        /\ disk = current \/ unsaved
        /\ schedule = current["access"]
        /\ current["access"] => running
        /\ current["audit"] => unwatched \/ (monitoring /\ watchers # "none")
        /\ ~current["audit"] => ~monitoring

\* settings.json is torn only while a task is writing it, after a write that
\* failed until the next one, or after a crash until the next start has
\* replaced it.
TornIsTransient ==
    disk = Torn => saver # Nobody \/ unsaved \/ pc[Main] \in {"off", "load"}

\* Every change a connected, subscribed service is told of, and every change
\* made while its socket is down, is read by a later fetch.
EveryChangeIsFetched ==
    \A v \in 1..MaxSaves :
        (ver >= v /\ hooked /\ (pushes > 0 \/ ~connected)) ~> (seen >= v)

-----------------------------------------------------------------------------
(***************************************************************************)
(* What the documentation and the comments say, and the code does not do.  *)
(***************************************************************************)
Quiet == /\ pc[Main] = "serve" /\ pushes = 0 /\ restored = 0
         /\ \A t \in Tasks : pc[t] = "idle"

\* README: access control is strictly enforced.  When all is quiet and the
\* schedule is enabled, an enforcement loop is alive.
EnabledIsEnforced == Quiet /\ schedule => live # {}

=============================================================================
