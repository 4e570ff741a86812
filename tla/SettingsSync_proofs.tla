------------------------- MODULE SettingsSync_proofs -------------------------
(* Proofs, for any number of concurrent fetch tasks, of the safety          *)
(* properties of SettingsSync.                                              *)
EXTENDS SettingsSync, TLAPS

LEMMA DefaultsType == Defaults \in Config
  BY DEF Defaults, Config

LEMMA ServedType == ASSUME TypeOK PROVE Served \in Config
  BY DefaultsType DEF TypeOK, Served

LEMMA ConfigType == ASSUME NEW c \in Config
                    PROVE  c["audit"] \in BOOLEAN /\ c["access"] \in BOOLEAN
  BY DEF Config, Sections

LEMMA MainIsProc == Main \in Procs /\ \A t \in Tasks : t \in Procs /\ t # Main
  BY SyncAssumption DEF Procs

-----------------------------------------------------------------------------
(* Types.                                                                   *)

LEMMA InitType == Init => TypeOK
<1> SUFFICES ASSUME Init PROVE TypeOK
  OBVIOUS
<1> USE SyncAssumption, DefaultsType DEF Init
<1>1. status \in {"pending", "adopting", "active"} /\ stored \in Config \cup {Null}
      /\ applied \in Config \cup {Null}
  OBVIOUS
<1>8. page \in [Pages -> Config \cup {Null}]
  OBVIOUS
<1>2. connected \in BOOLEAN /\ hooked \in BOOLEAN
  OBVIOUS
<1>9. pushes \in Nat /\ restored \in 0..2
  OBVIOUS
<1>3. current \in Config /\ disk \in Config \cup {Null, Torn}
      /\ saver \in Procs \cup {Nobody} /\ saving \in Config
  OBVIOUS
<1>4. monitoring \in BOOLEAN /\ watchers \in Watching /\ schedule \in BOOLEAN
      /\ running \in BOOLEAN /\ cts \in Tokens \cup {0} /\ etask \in Tokens \cup {0}
      /\ live \subseteq Tokens /\ cancelled \subseteq Tokens
  BY DEF Watching
<1>5. pc \in [Procs -> Positions]
  BY DEF Positions
<1>6. got \in [Procs -> Config] /\ wait \in [Procs -> Tokens \cup {0}]
  OBVIOUS
<1>10. unsaved \in BOOLEAN /\ unwatched \in BOOLEAN
  OBVIOUS
<1>7. lone \in Procs \cup {Nobody} /\ ver \in Nat /\ seen \in 0..ver
      /\ drops \in 0..MaxDrops /\ crashes \in 0..MaxCrashes /\ failures \in 0..MaxFailures
  OBVIOUS
<1> QED BY <1>1, <1>2, <1>3, <1>4, <1>5, <1>6, <1>7, <1>8, <1>9, <1>10 DEF TypeOK

(* A thread that is about to start the loop has made a token source.        *)
SourceMade == \A p \in Procs : pc[p] \in {"run", "loop"} => cts # 0

LEMMA StepType ==
  ASSUME TypeOK, SourceMade, NEW p \in Procs, Step(p) PROVE TypeOK'
<1> USE SyncAssumption, ServedType
    DEF TypeOK, Goto, server, link, file, audit, access, thread, failed, history, bounds,
        Watching, Positions
<1>1. AfterFetch(p) \in Positions /\ AfterAudit(p) \in Positions /\ AfterStart(p) \in Positions
  BY DEF AfterFetch, AfterAudit, AfterStart
<1>2. CASE Fetch(p)
  <2>1. unwatched' \in BOOLEAN
    BY <1>2 DEF Fetch
  <2>2. lone' \in Procs \cup {Nobody} /\ seen' \in 0..ver' /\ ver' = ver
    BY <1>2 DEF Fetch
  <2>3. got' \in [Procs -> Config] /\ pc' \in [Procs -> Positions]
    BY <1>2 DEF Fetch
  <2> QED BY <1>2, <2>1, <2>2, <2>3 DEF Fetch
<1>3. CASE FetchFails(p)   BY <1>3, <1>1 DEF FetchFails, MayFail
<1>4. CASE Set(p)          BY <1>4 DEF Set
<1>5. CASE Open(p)         BY <1>5 DEF Open
<1>6. CASE OpenDenied(p)   BY <1>6 DEF OpenDenied
<1>7. CASE Close(p)
  <2>1. unsaved' \in BOOLEAN
    BY <1>7 DEF Close
  <2>2. disk' \in Config /\ saver' = Nobody /\ pc' \in [Procs -> Positions]
    BY <1>7 DEF Close
  <2> QED BY <1>7, <2>1, <2>2 DEF Close
<1>8. CASE Audit(p)        BY <1>8, <1>1 DEF Audit
<1>9. CASE Clear(p)
  <2>1. CASE monitoring \/ watchers # "none"  BY <1>9, <2>1 DEF Clear
  <2>2. CASE ~(monitoring \/ watchers # "none")
    <3>1. pc' \in [Procs -> Positions] BY <1>9, <2>2, <1>1 DEF Clear
    <3> QED BY <1>9, <2>2, <3>1 DEF Clear
  <2> QED BY <2>1, <2>2
<1>10. CASE Unflag(p)
  <2>1. pc' \in [Procs -> Positions]
    BY <1>10, <1>1 DEF Unflag
  <2>2. monitoring' \in BOOLEAN
    BY <1>10 DEF Unflag
  <2>3. UNCHANGED <<server, link, file, watchers, access, got, wait, history, bounds>>
    BY <1>10 DEF Unflag
  <2> QED BY <2>1, <2>2, <2>3
<1>11. CASE Add(p)
  <2>1. unwatched' \in BOOLEAN
    BY <1>11 DEF Add
  <2>2. watchers' \in Watching /\ pc' \in [Procs -> Positions]
    BY <1>11 DEF Add, MoreWatchers
  <2> QED BY <1>11, <2>1, <2>2 DEF Add
<1>12. CASE Flag(p)        BY <1>12, <1>1 DEF Flag
<1>13. CASE Sched(p)       BY <1>13, ConfigType DEF Sched
<1>14. CASE Check(p)       BY <1>14 DEF Check
<1>15. CASE NewSource(p)   BY <1>15 DEF NewSource
<1>16. CASE Run(p)         BY <1>16 DEF Run
<1>17. CASE Loop(p)
  <2>1. live' \subseteq Tokens
    <3>1. CASE cts \in cancelled     BY <1>17, <3>1 DEF Loop
    <3>2. CASE cts \notin cancelled
      <4>1. cts \in Tokens
        BY <1>17 DEF Loop, SourceMade
      <4> QED BY <1>17, <3>2, <4>1 DEF Loop
    <3> QED BY <3>1, <3>2
  <2> QED BY <1>17, <1>1, <2>1 DEF Loop
<1>18. CASE Cancel(p)
  <2>1. cancelled' \subseteq Tokens
    BY <1>18 DEF Cancel
  <2> QED BY <1>18, <2>1 DEF Cancel
<1>19. CASE Stopped(p)
  <2>1. wait' \in [Procs -> Tokens \cup {0}] /\ pc' \in [Procs -> Positions]
    BY <1>19 DEF Stopped
  <2>2. running' \in BOOLEAN
    BY <1>19 DEF Stopped
  <2> QED BY <1>19, <2>1, <2>2, SMTT(30) DEF Stopped
<1>20. CASE Await(p)       BY <1>20 DEF Await
<1>21. CASE Report(p)      BY <1>21, <1>1 DEF Report
<1>22. CASE ReportFails(p) BY <1>22, <1>1 DEF ReportFails, MayFail
<1>23. CASE SaveFails(p)
  <2>1. pc' \in [Procs -> Positions] /\ saver' \in Procs \cup {Nobody}
    BY <1>23 DEF SaveFails
  <2>2. failures' \in 0..MaxFailures /\ unsaved' \in BOOLEAN
    BY <1>23 DEF SaveFails, MayFail
  <2> QED BY <1>23, <2>1, <2>2 DEF SaveFails
<1>24. CASE ClearFails(p)  BY <1>24 DEF ClearFails, MayFail
<1>25. CASE AddFails(p)
  <2>1. pc' \in [Procs -> Positions]
    BY <1>25 DEF AddFails
  <2>2. watchers' \in Watching
    BY <1>25 DEF AddFails, MoreWatchers
  <2>3. unwatched' \in BOOLEAN
    BY <1>25 DEF AddFails
  <2>4. failures' \in 0..MaxFailures
    BY <1>25 DEF AddFails, MayFail
  <2> QED BY <1>25, <2>1, <2>2, <2>3, <2>4 DEF AddFails
<1>26. CASE GiveUp(p)
  <2>1. pc' \in [Procs -> Positions] /\ monitoring' \in BOOLEAN
    BY <1>26, <1>1 DEF GiveUp
  <2> QED BY <1>26, <2>1 DEF GiveUp
<1> QED BY <1>2, <1>3, <1>4, <1>5, <1>6, <1>7, <1>8, <1>9, <1>10, <1>11, <1>12, <1>13,
           <1>14, <1>15, <1>16, <1>17, <1>18, <1>19, <1>20, <1>21, <1>22, <1>23, <1>24, <1>25,
           <1>26 DEF Step

LEMMA NextType == ASSUME TypeOK, SourceMade, [Next]_vars PROVE TypeOK'
<1> USE SyncAssumption, ServedType, MainIsProc, DefaultsType
    DEF TypeOK, Goto, server, link, file, audit, access, thread, failed, history, bounds,
        Watching, Positions
<1>1. ASSUME NEW p \in Procs, Step(p) PROVE TypeOK'
  BY <1>1, StepType
<1>2. CASE Start          BY <1>2 DEF Start
<1>3. CASE Load
  <2>1. current' \in Config /\ disk' \in Config
    BY <1>3 DEF Load
  <2>2. unsaved' \in BOOLEAN
    BY <1>3 DEF Load
  <2> QED BY <1>3, <2>1, <2>2 DEF Load
<1>20. CASE LoadFails
  <2>1. current' \in Config /\ disk' \in Config \cup {Null, Torn}
    BY <1>20 DEF LoadFails
  <2>2. failures' \in 0..MaxFailures /\ unsaved' \in BOOLEAN
    BY <1>20 DEF LoadFails, MayFail
  <2>3. pc' \in [Procs -> Positions]
    BY <1>20 DEF LoadFails
  <2> QED BY <1>20, <2>1, <2>2, <2>3 DEF LoadFails
<1>4. CASE InitSchedule
  <2>1. /\ schedule' \in BOOLEAN /\ running' \in BOOLEAN
        /\ cts' \in Tokens \cup {0} /\ etask' \in Tokens \cup {0} /\ live' \subseteq Tokens
    <3>1. CASE current["access"]   BY <1>4, <3>1, ConfigType DEF InitSchedule
    <3>2. CASE ~current["access"]  BY <1>4, <3>2, ConfigType DEF InitSchedule
    <3> QED BY <3>1, <3>2
  <2>2. pc' \in [Procs -> Positions]
    BY <1>4 DEF InitSchedule
  <2> QED BY <1>4, <2>1, <2>2 DEF InitSchedule
<1>5. CASE Hook           BY <1>5 DEF Hook
<1>6. CASE Begin          BY <1>6 DEF Begin
<1>7. CASE AuditOn        BY <1>7 DEF AuditOn
<1>8. ASSUME NEW w \in Pages, PageLoads(w) PROVE TypeOK'
  BY <1>8 DEF PageLoads
<1>9. ASSUME NEW w \in Pages, NEW s \in Edits, PageSaves(w, s) PROVE TypeOK'
  <2>1. [page[w] EXCEPT ![s] = ~@] \in Config
    BY <1>9 DEF PageSaves, Config
  <2> QED BY <2>1, <1>9 DEF PageSaves
<1>10. CASE AdoptStatus   BY <1>10 DEF AdoptStatus
<1>11. ASSUME NEW c \in Adopted, AdoptStore(c) PROVE TypeOK'
  BY <1>11 DEF AdoptStore
<1>12. ASSUME Raise PROVE pc' \in [Procs -> Positions]
  BY <1>12 DEF Raise
<1>13. CASE PushArrives     BY <1>13, <1>12 DEF PushArrives
<1>14. CASE RestoredArrives BY <1>14, <1>12 DEF RestoredArrives
<1>15. ASSUME NEW k \in Tokens, LoopEnds(k) PROVE TypeOK'
  BY <1>15 DEF LoopEnds
<1>16. CASE Connect
  <2>1. restored' \in 0..2
    BY <1>16 DEF Connect
  <2> QED BY <1>16, <2>1 DEF Connect
<1>17. CASE Disconnect
  <2>1. restored' \in 0..2
    BY <1>17 DEF Disconnect
  <2>2. pushes' \in Nat /\ connected' \in BOOLEAN
    BY <1>17 DEF Disconnect
  <2>3. drops' \in 0..MaxDrops
    <3>1. drops + 1 \in 0..MaxDrops
      BY <1>17 DEF Disconnect
    <3> QED BY <1>17, <3>1 DEF Disconnect
  <2> QED BY <1>17, <2>1, <2>2, <2>3 DEF Disconnect
<1>18. CASE Crash
  <2>1. /\ pc' \in [Procs -> Positions] /\ got' \in [Procs -> Config]
        /\ wait' \in [Procs -> Tokens \cup {0}]
    BY <1>18 DEF Crash, Off
  <2>2. connected' \in BOOLEAN /\ hooked' \in BOOLEAN
    BY <1>18 DEF Crash, Off
  <2>7. pushes' \in Nat /\ restored' \in 0..2
    BY <1>18 DEF Crash, Off
  <2>3. /\ current' \in Config /\ saver' \in Procs \cup {Nobody} /\ saving' \in Config
        /\ monitoring' \in BOOLEAN /\ watchers' \in Watching /\ schedule' \in BOOLEAN
        /\ running' \in BOOLEAN
    BY <1>18 DEF Crash, Off
  <2>4. /\ cts' \in Tokens \cup {0} /\ etask' \in Tokens \cup {0}
        /\ live' \subseteq Tokens /\ cancelled' \subseteq Tokens
    BY <1>18 DEF Crash, Off
  <2>5. crashes' \in 0..MaxCrashes /\ lone' \in Procs \cup {Nobody}
    BY <1>18 DEF Crash, MayCrash
  <2>8. unwatched' \in BOOLEAN
    BY <1>18 DEF Crash
  <2>6. UNCHANGED <<status, stored, applied, page, disk, ver, seen, unsaved, drops, failures>>
    BY <1>18 DEF Crash
  <2> QED BY <2>1, <2>2, <2>3, <2>4, <2>5, <2>6, <2>7, <2>8
<1>19. CASE UNCHANGED vars  BY <1>19 DEF vars
<1> QED BY <1>1, <1>2, <1>3, <1>4, <1>5, <1>6, <1>7, <1>8, <1>9, <1>10, <1>11, <1>13,
           <1>14, <1>15, <1>16, <1>17, <1>18, <1>19, <1>20
        DEF Next, MainStep, Dashboard, Arrivals, LoopsEnd

LEMMA NextSource == ASSUME TypeOK, SourceMade, [Next]_vars PROVE SourceMade'
<1> USE SyncAssumption, MainIsProc
    DEF TypeOK, SourceMade, Goto, server, link, file, audit, access, thread, failed, history,
        bounds
<1>1. ASSUME NEW p \in Procs, Step(p) PROVE SourceMade'
  <2>1. \A q \in Procs : q # p => pc'[q] = pc[q]
    BY <1>1 DEF Step, Fetch, FetchFails, Set, Open, OpenDenied, Close, SaveFails, Audit,
       Clear, ClearFails, Unflag, Add, AddFails, Flag, GiveUp, Sched, Check, NewSource, Run,
       Loop, Cancel, Stopped, Await, Report, ReportFails
  <2>2. CASE NewSource(p)
    BY <1>1, <2>1, <2>2 DEF NewSource
  <2>3. CASE ~NewSource(p)
    <3>1. cts' = cts
      BY <1>1, <2>3 DEF Step, Fetch, FetchFails, Set, Open, OpenDenied, Close, SaveFails,
         Audit, Clear, ClearFails, Unflag, Add, AddFails, Flag, GiveUp, Sched, Check, Run,
         Loop, Cancel, Stopped, Await, Report, ReportFails
    <3>2. pc'[p] \in {"run", "loop"} => pc[p] = "run"
      BY <1>1, <2>3 DEF Step, Fetch, FetchFails, Set, Open, OpenDenied, Close, SaveFails,
         Audit, Clear, ClearFails, Unflag, Add, AddFails, Flag, GiveUp, Sched, Check, Run,
         Loop, Cancel, Stopped, Await, Report, ReportFails, AfterFetch, AfterAudit, AfterStart
    <3> QED BY <2>1, <3>1, <3>2
  <2> QED BY <2>2, <2>3
<1>2. CASE MainStep
  <2>1. CASE InitSchedule
    <3>1. \A q \in Procs : q # Main => pc'[q] = pc[q]
      BY <2>1 DEF InitSchedule
    <3>2. pc'[Main] = "fetch"
      BY <2>1 DEF InitSchedule
    <3>3. cts' = cts \/ cts' \in Tokens
      BY <2>1 DEF InitSchedule
    <3> QED BY <3>1, <3>2, <3>3
  <2>2. CASE Start \/ Load \/ LoadFails \/ Hook \/ Begin \/ AuditOn
    BY <2>2 DEF Start, Load, LoadFails, Hook, Begin, AuditOn
  <2> QED BY <1>2, <2>1, <2>2 DEF MainStep
<1>3. CASE Dashboard
  BY <1>3 DEF Dashboard, PageLoads, PageSaves, AdoptStatus, AdoptStore
<1>4. CASE Arrivals
  BY <1>4 DEF Arrivals, PushArrives, RestoredArrives, Raise
<1>5. CASE LoopsEnd \/ Connect \/ Disconnect \/ UNCHANGED vars
  BY <1>5 DEF LoopsEnd, LoopEnds, Connect, Disconnect, vars
<1>6. CASE Crash
  BY <1>6 DEF Crash, Off
<1> QED BY <1>1, <1>2, <1>3, <1>4, <1>5, <1>6 DEF Next

LEMMA TypeInvariant == Spec => [](TypeOK /\ SourceMade)
<1>1. Init => SourceMade
  BY SyncAssumption DEF Init, SourceMade
<1> QED BY <1>1, InitType, NextType, NextSource, PTL DEF Spec

(* Every variable of the settings' path keeps its type.                     *)
THEOREM TypeCorrect == Spec => []TypeOK
  BY TypeInvariant, PTL

-----------------------------------------------------------------------------
(* The file.                                                                *)

(* A file being written belongs to the thread that will close it.           *)
FileInv ==
    /\ saver # Nobody => saver \in Procs /\ pc[saver] = "close"
    /\ \A p \in Procs : pc[p] = "close" => saver = p

LEMMA NextFile ==
  ASSUME TypeOK, FileInv, TornIsTransient, [Next]_vars
  PROVE  FileInv' /\ TornIsTransient'
<1> USE SyncAssumption, MainIsProc
    DEF TypeOK, FileInv, TornIsTransient, Goto, server, link, file, audit, access,
        thread, failed, history, bounds
<1>1. ASSUME NEW p \in Procs, Step(p) PROVE FileInv' /\ TornIsTransient'
  <2>1. /\ \A q \in Procs : q # p => pc'[q] = pc[q]
        /\ pc[p] \notin {"off", "load"} /\ pc'[p] \notin {"off", "load"}
    BY <1>1 DEF Step, Fetch, FetchFails, Set, Open, OpenDenied, Close, SaveFails, Audit,
       Clear, ClearFails, Unflag, Add, AddFails, Flag, GiveUp, Sched, Check, NewSource, Run,
       Loop, Cancel, Stopped, Await, Report, ReportFails, AfterFetch, AfterAudit, AfterStart
  <2>2. CASE Open(p)
    BY <2>1, <2>2 DEF Open
  <2>3. CASE Close(p)
    BY <2>1, <2>3 DEF Close
  <2>5. CASE SaveFails(p)
    BY <2>1, <2>5 DEF SaveFails
  <2>4. CASE ~Open(p) /\ ~Close(p) /\ ~SaveFails(p)
    <3>1. pc[p] # "close" /\ pc'[p] # "close" /\ UNCHANGED <<disk, saver, unsaved>>
      BY <1>1, <2>4 DEF Step, Fetch, FetchFails, Set, OpenDenied, Audit, Clear, ClearFails,
         Unflag, Add, AddFails, Flag, GiveUp, Sched, Check, NewSource, Run, Loop, Cancel,
         Stopped, Await, Report, ReportFails, AfterFetch, AfterAudit, AfterStart
    <3> QED BY <2>1, <3>1
  <2> QED BY <2>2, <2>3, <2>4, <2>5
<1>2. CASE MainStep
  <2>1. CASE Load
    <3>1. disk' \in Config
      BY <2>1, DefaultsType DEF Load
    <3> QED BY <2>1, <3>1 DEF Load
  <2>3. CASE LoadFails
    BY <2>3 DEF LoadFails
  <2>2. CASE Start \/ InitSchedule \/ Hook \/ Begin \/ AuditOn
    <3>1. UNCHANGED <<disk, saver, unsaved>>
      BY <2>2 DEF Start, InitSchedule, Hook, Begin, AuditOn
    <3>2. /\ \A q \in Procs : q # Main => pc'[q] = pc[q]
          /\ pc[Main] # "close" /\ pc'[Main] # "close"
          /\ pc[Main] \in {"off", "load"} => pc'[Main] \in {"off", "load"}
      BY <2>2 DEF Start, InitSchedule, Hook, Begin, AuditOn
    <3> QED BY <3>1, <3>2
  <2> QED BY <1>2, <2>1, <2>2, <2>3 DEF MainStep
<1>3. CASE Dashboard
  BY <1>3 DEF Dashboard, PageLoads, PageSaves, AdoptStatus, AdoptStore
<1>4. CASE Arrivals
  BY <1>4 DEF Arrivals, PushArrives, RestoredArrives, Raise
<1>5. CASE LoopsEnd \/ Connect \/ Disconnect \/ UNCHANGED vars
  BY <1>5 DEF LoopsEnd, LoopEnds, Connect, Disconnect, vars
<1>6. CASE Crash
  BY <1>6 DEF Crash, Off
<1> QED BY <1>1, <1>2, <1>3, <1>4, <1>5, <1>6 DEF Next

LEMMA FileInvariant == Spec => [](FileInv /\ TornIsTransient)
<1>1. Init => FileInv /\ TornIsTransient
  BY SyncAssumption, MainIsProc DEF Init, FileInv, TornIsTransient
<1> QED BY <1>1, TypeInvariant, NextFile, PTL DEF Spec

(* A torn settings.json is being written, or is repaired by the next start.  *)
THEOREM TornFilesAreRepaired == Spec => []TornIsTransient
  BY FileInvariant, PTL

-----------------------------------------------------------------------------
(* A lone fetch.                                                            *)

(* Before Worker subscribes only Main runs; afterwards Main fetches no more. *)
MainInv ==
    /\ ~hooked => \A t \in Tasks : pc[t] = "idle"
    /\ hooked => pc[Main] \in {"begin", "cts", "run", "loop", "auditon", "audit", "clear",
                               "unflag", "add", "flag", "giveup", "serve"}
    /\ ~hooked => pc[Main] \notin {"begin", "auditon", "serve"}
    /\ hooked /\ pc[Main] \in {"audit", "clear", "unflag", "add", "flag", "giveup"} =>
          got[Main]["audit"] = TRUE
    /\ \A t \in Tasks : pc[t] \notin {"off", "load", "initsched", "hook", "begin", "auditon",
                                      "serve"}
    /\ lone \in Tasks => hooked
    /\ pc[Main] \in {"off", "load", "initsched"} => lone = Nobody

LEMMA NextMain == ASSUME TypeOK, MainInv, [Next]_vars PROVE MainInv'
<1> USE SyncAssumption, MainIsProc, ConfigType
    DEF TypeOK, MainInv, Goto, server, link, file, audit, access, thread, failed, history, bounds
<1>1. ASSUME NEW p \in Procs, Step(p) PROVE MainInv'
  <2>1. \A q \in Procs : q # p => pc'[q] = pc[q] /\ got'[q] = got[q]
    BY <1>1 DEF Step, Fetch, FetchFails, Set, Open, OpenDenied, Close, SaveFails, Audit,
       Clear, ClearFails, Unflag, Add, AddFails, Flag, GiveUp, Sched, Check, NewSource, Run,
       Loop, Cancel, Stopped, Await, Report, ReportFails
  <2>2. hooked' = hooked
    BY <1>1 DEF Step, Fetch, FetchFails, Set, Open, OpenDenied, Close, SaveFails, Audit,
       Clear, ClearFails, Unflag, Add, AddFails, Flag, GiveUp, Sched, Check, NewSource, Run,
       Loop, Cancel, Stopped, Await, Report, ReportFails
  <2>3. pc[p] \notin {"idle", "off", "load", "initsched", "hook", "begin", "auditon", "serve"}
    BY <1>1 DEF Step, Fetch, FetchFails, Set, Open, OpenDenied, Close, SaveFails, Audit,
       Clear, ClearFails, Unflag, Add, AddFails, Flag, GiveUp, Sched, Check, NewSource, Run,
       Loop, Cancel, Stopped, Await, Report, ReportFails
  <2>4. lone' \in Tasks => hooked
    <3>1. lone' = p \/ lone' = lone \/ lone' = Nobody
      BY <1>1 DEF Step, Fetch, FetchFails, Set, Open, OpenDenied, Close, SaveFails, Audit,
         Clear, ClearFails, Unflag, Add, AddFails, Flag, GiveUp, Sched, Check, NewSource, Run,
         Loop, Cancel, Stopped, Await, Report, ReportFails
    <3>2. Nobody \notin Tasks /\ (p \in Tasks => hooked)
      BY <2>3 DEF Procs
    <3> QED BY <3>1, <3>2
  <2>5. CASE p \in Tasks
    <3>1. pc'[p] \notin {"off", "load", "initsched", "hook", "begin", "auditon", "serve"}
      BY <1>1, <2>5 DEF Step, Fetch, FetchFails, Set, Open, OpenDenied, Close, SaveFails,
         Audit, Clear, ClearFails, Unflag, Add, AddFails, Flag, GiveUp, Sched, Check,
         NewSource, Run, Loop, Cancel, Stopped, Await, Report, ReportFails, AfterFetch,
         AfterAudit, AfterStart, Booting
    <3> QED BY <2>1, <2>2, <2>3, <2>4, <2>5, <3>1
  <2>6. CASE p = Main /\ ~hooked
    <3>1. pc'[Main] \notin {"begin", "auditon", "serve", "off", "load", "initsched"}
      BY <1>1, <2>6 DEF Step, Fetch, FetchFails, Set, Open, OpenDenied, Close, SaveFails,
         Audit, Clear, ClearFails, Unflag, Add, AddFails, Flag, GiveUp, Sched, Check,
         NewSource, Run, Loop, Cancel, Stopped, Await, Report, ReportFails, AfterFetch,
         AfterAudit, AfterStart, Booting
    <3> QED BY <2>1, <2>2, <2>4, <2>6, <3>1
  <2>7. CASE p = Main /\ hooked
    <3>1. got'[Main] = got[Main]
      BY <1>1, <2>7 DEF Step, Fetch, FetchFails, Set, Open, OpenDenied, Close, SaveFails,
         Audit, Clear, ClearFails, Unflag, Add, AddFails, Flag, GiveUp, Sched, Check,
         NewSource, Run, Loop, Cancel, Stopped, Await, Report, ReportFails
    <3>2. /\ pc'[Main] \in {"run", "loop", "auditon", "clear", "unflag", "add", "flag",
                            "giveup", "serve"}
          /\ pc'[Main] \in {"clear", "unflag", "add", "flag", "giveup"} =>
                pc[Main] \in {"audit", "clear", "unflag", "add", "flag", "giveup"}
      <4>1. Audit(p) \/ Clear(p) \/ ClearFails(p) \/ Unflag(p) \/ Add(p) \/ AddFails(p)
            \/ Flag(p) \/ GiveUp(p) \/ NewSource(p) \/ Run(p) \/ Loop(p)
        BY <1>1, <2>7 DEF Step, Fetch, FetchFails, Set, Open, OpenDenied, Close, SaveFails,
           Sched, Check, Cancel, Stopped, Await, Report, ReportFails
      <4>2. CASE Audit(p)  BY <2>7, <4>2 DEF Audit, AfterAudit, Booting
      <4>3. CASE Clear(p)  BY <2>7, <4>3 DEF Clear, AfterAudit, Booting
      <4>4. CASE Unflag(p) \/ Add(p) \/ Flag(p)
        BY <2>7, <4>4 DEF Unflag, Add, Flag, AfterAudit, Booting
      <4>5. CASE NewSource(p)  BY <2>7, <4>5 DEF NewSource
      <4>6. CASE Run(p)        BY <2>7, <4>6 DEF Run
      <4>7. CASE Loop(p)       BY <2>7, <4>7 DEF Loop, AfterStart, Booting
      <4>8. CASE ClearFails(p) \/ AddFails(p)
        BY <2>7, <4>8 DEF ClearFails, AddFails
      <4>9. CASE GiveUp(p)     BY <2>7, <4>9 DEF GiveUp, AfterAudit, Booting
      <4> QED BY <4>1, <4>2, <4>3, <4>4, <4>5, <4>6, <4>7, <4>8, <4>9
    <3> QED BY <2>1, <2>2, <2>4, <2>7, <3>1, <3>2
  <2> QED BY <2>5, <2>6, <2>7 DEF Procs
<1>2. CASE MainStep
  <2>1. /\ \A t \in Tasks : pc'[t] = pc[t]
        /\ lone' = lone
    BY <1>2 DEF MainStep, Start, Load, LoadFails, InitSchedule, Hook, Begin, AuditOn
  <2>2. CASE Hook
    BY <2>1, <2>2 DEF Hook
  <2>3. CASE Start \/ Load \/ LoadFails \/ InitSchedule
    BY <2>1, <2>3 DEF Start, Load, LoadFails, InitSchedule
  <2>4. CASE Begin
    BY <2>1, <2>4 DEF Begin
  <2>5. CASE AuditOn
    BY <2>1, <2>5 DEF AuditOn
  <2> QED BY <1>2, <2>2, <2>3, <2>4, <2>5 DEF MainStep
<1>3. CASE Dashboard
  <2>1. UNCHANGED <<pc, got, hooked>> /\ (lone' = lone \/ lone' = Nobody)
    BY <1>3 DEF Dashboard, PageLoads, PageSaves, AdoptStatus, AdoptStore
  <2> QED BY <2>1 DEF Procs
<1>4. CASE Arrivals
  <2>1. UNCHANGED <<got, hooked, lone>>
    BY <1>4 DEF Arrivals, PushArrives, RestoredArrives
  <2>2. CASE ~hooked
    BY <1>4, <2>1, <2>2 DEF Arrivals, PushArrives, RestoredArrives, Raise
  <2>3. CASE hooked
    <3>1. PICK t \in Tasks : pc' = [pc EXCEPT ![t] = "fetch"]
      BY <1>4, <2>3 DEF Arrivals, PushArrives, RestoredArrives, Raise
    <3> QED BY <2>1, <2>3, <3>1
  <2> QED BY <2>2, <2>3
<1>5. CASE LoopsEnd \/ Connect \/ Disconnect \/ UNCHANGED vars
  BY <1>5 DEF LoopsEnd, LoopEnds, Connect, Disconnect, vars
<1>6. CASE Crash
  BY <1>6 DEF Crash, Off, Procs
<1> QED BY <1>1, <1>2, <1>3, <1>4, <1>5, <1>6 DEF Next

(* What is already in agreement at each point of a fetch that is alone: the   *)
(* fetched settings are the stored ones, and each part agrees from the line   *)
(* that sets it to the line that may start or stop what it governs.           *)
AuditPart == {"audit", "clear", "unflag", "add", "flag", "giveup"}
BeforeSet == {"set"}
BeforeSaved == {"set", "open", "close"}
Ended(p) == pc[p] \in {"idle", "fetch", "hook", "begin", "auditon", "serve"} \/ Booting(p)
Agreement(p) ==
    /\ \A q \in Procs \ {p} : pc[q] \in Resting
    /\ (~Ended(p) \/ pc[p] \in AuditPart) => got[p] = Served
    /\ pc[p] \notin BeforeSet => current = Served
    /\ pc[p] \notin BeforeSaved => disk = Served \/ unsaved
    /\ pc[p] = "close" => saving = Served
    /\ pc[p] \in {"add", "flag", "giveup"} => Served["audit"] = TRUE
    /\ pc[p] = "add" => monitoring = FALSE
    /\ pc[p] = "flag" => watchers # "none" \/ unwatched
    /\ pc[p] = "giveup" => unwatched
    /\ pc[p] \notin BeforeSaved \cup AuditPart =>
          /\ Served["audit"] => unwatched \/ (monitoring /\ watchers # "none")
          /\ ~Served["audit"] => ~monitoring
    /\ (Ended(p) \/ pc[p] \notin BeforeSaved \cup AuditPart \cup {"sched"}) =>
          schedule = Served["access"]
    /\ ~Ended(p) /\ pc[p] \in {"cancel", "stopped", "await"} => ~Served["access"]
    /\ pc[p] = "loop" => running
    /\ ((Ended(p) /\ pc[p] \notin {"cts", "run"}) \/ pc[p] = "report") =>
          (Served["access"] => running)
    /\ pc[p] \in {"cts", "run"} /\ Booting(p) => ~Served["access"]
    /\ Ended(p) => applied = Served
LoneInv == lone # Nobody => Agreement(lone)

LEMMA OwnStep ==
  ASSUME TypeOK, FileInv, MainInv, LoneInv, NEW p \in Procs, lone = p, Step(p), ~Fetch(p),
         lone' = p
  PROVE  Agreement(p)'
<1> USE SyncAssumption, MainIsProc, ConfigType, ServedType
    DEF TypeOK, FileInv, MainInv, LoneInv, Agreement, Ended, AuditPart, BeforeSet,
        BeforeSaved, Booting, Goto, server, link, file, audit, access, thread, failed, history,
        bounds
<1>1. Agreement(p) /\ p # Nobody
  OBVIOUS
<1>2. /\ \A q \in Procs : q # p => pc'[q] = pc[q]
      /\ stored' = stored /\ hooked' = hooked
  BY DEF Step, Fetch, FetchFails, Set, Open, OpenDenied, Close, SaveFails, Audit, Clear,
     ClearFails, Unflag, Add, AddFails, Flag, GiveUp, Sched, Check, NewSource, Run, Loop,
     Cancel, Stopped, Await, Report, ReportFails
<1>3. Served' = Served
  BY <1>2 DEF Served
<1>4. \A q \in Procs \ {p} : pc'[q] \in Resting
  BY <1>1, <1>2
<1>5. CASE Set(p)
  BY <1>1, <1>2, <1>3, <1>4, <1>5 DEF Set
<1>6. CASE Open(p)
  BY <1>1, <1>2, <1>3, <1>4, <1>6 DEF Open
<1>7. CASE OpenDenied(p)
  <2>1. saver \in Procs \ {p} /\ pc[saver] \in Resting
    BY <1>1, <1>7 DEF OpenDenied
  <2> QED BY <2>1 DEF Resting
<1>8. CASE Close(p)
  BY <1>1, <1>2, <1>3, <1>4, <1>8 DEF Close
<1>9. CASE Audit(p)
  BY <1>1, <1>2, <1>3, <1>4, <1>9 DEF Audit, AfterAudit
<1>10. CASE Clear(p)
  BY <1>1, <1>2, <1>3, <1>4, <1>10 DEF Clear, AfterAudit
<1>11. CASE Unflag(p)
  <2>1. CASE got[p]["audit"] = TRUE
    BY <1>1, <1>2, <1>3, <1>4, <1>11, <2>1 DEF Unflag
  <2>2. CASE got[p]["audit"] = FALSE /\ ~Booting(p)
    <3>1. pc' = [pc EXCEPT ![p] = "sched"] /\ ~Booting(p)'
      <4>1. AfterAudit(p) = "sched"
        BY <2>2 DEF AfterAudit
      <4>2. pc' = [pc EXCEPT ![p] = "sched"]
        BY <1>11, <2>2, <4>1 DEF Unflag
      <4>3. ~Booting(p)'
        BY <1>2, <2>2
      <4> QED BY <4>2, <4>3
    <3>2. ~Ended(p) /\ ~Ended(p)'
      BY <1>11, <2>2, <3>1 DEF Unflag
    <3>3. got[p] = Served /\ got' = got /\ current = Served /\ (disk = Served \/ unsaved)
      BY <1>1, <1>11, <3>2 DEF Unflag
    <3>4. /\ Served["audit"] => unwatched' \/ (monitoring' /\ watchers' # "none")
          /\ ~Served["audit"] => ~monitoring'
      BY <1>1, <1>11, <2>2, <3>3 DEF Unflag
    <3>5. UNCHANGED <<stored, link, file, access, lone, unsaved>>
      BY <1>11 DEF Unflag
    <3> QED BY <1>3, <1>4, <3>1, <3>2, <3>3, <3>4, <3>5
  <2> QED BY <2>1, <2>2, <1>11 DEF Unflag
<1>12. CASE Add(p)
  BY <1>1, <1>2, <1>3, <1>4, <1>12 DEF Add, MoreWatchers
<1>13. CASE Flag(p)
  <2>1. CASE Booting(p)
    BY <1>1, <1>2, <1>3, <1>4, <1>13, <2>1 DEF Flag, AfterAudit
  <2>2. CASE ~Booting(p)
    <3>1. pc' = [pc EXCEPT ![p] = "sched"] /\ ~Booting(p)'
      <4>1. AfterAudit(p) = "sched"
        BY <2>2 DEF AfterAudit
      <4>2. pc' = [pc EXCEPT ![p] = "sched"]
        BY <1>13, <2>2, <4>1 DEF Flag
      <4>3. ~Booting(p)'
        BY <1>2, <2>2
      <4> QED BY <4>2, <4>3
    <3>2. ~Ended(p) /\ ~Ended(p)'
      BY <1>13, <2>2, <3>1 DEF Flag
    <3>3. got[p] = Served /\ got' = got /\ current = Served /\ (disk = Served \/ unsaved)
      BY <1>1, <1>13, <3>2 DEF Flag
    <3>4. /\ Served["audit"] => unwatched' \/ (monitoring' /\ watchers' # "none")
          /\ ~Served["audit"] => ~monitoring'
      BY <1>1, <1>13, <2>2, <3>3 DEF Flag
    <3>5. UNCHANGED <<stored, link, file, access, lone, unsaved>>
      BY <1>13 DEF Flag
    <3> QED BY <1>3, <1>4, <3>1, <3>2, <3>3, <3>4, <3>5
  <2> QED BY <2>1, <2>2
<1>14. CASE Sched(p)
  BY <1>1, <1>2, <1>3, <1>4, <1>14 DEF Sched
<1>15. CASE Check(p)
  BY <1>1, <1>2, <1>3, <1>4, <1>15 DEF Check
<1>16. CASE NewSource(p)
  BY <1>1, <1>2, <1>3, <1>4, <1>16 DEF NewSource
<1>17. CASE Run(p)
  BY <1>1, <1>2, <1>3, <1>4, <1>17 DEF Run
<1>18. CASE Loop(p)
  BY <1>1, <1>2, <1>3, <1>4, <1>18 DEF Loop, AfterStart
<1>19. CASE Cancel(p)
  BY <1>1, <1>2, <1>3, <1>4, <1>19 DEF Cancel
<1>20. CASE Stopped(p)
  BY <1>1, <1>2, <1>3, <1>4, <1>20 DEF Stopped
<1>21. CASE Await(p)
  BY <1>1, <1>2, <1>3, <1>4, <1>21 DEF Await
<1>22. CASE Report(p)
  BY <1>1, <1>2, <1>3, <1>4, <1>22 DEF Report, AfterFetch
<1>23. CASE ReportFails(p)
  BY <1>1, <1>2, <1>3, <1>4, <1>23 DEF ReportFails, AfterFetch
<1>24. CASE FetchFails(p)
  BY <1>1, <1>2, <1>3, <1>4, <1>24 DEF FetchFails, AfterFetch
<1>25. CASE SaveFails(p)
  BY <1>1, <1>2, <1>3, <1>4, <1>25 DEF SaveFails
<1>26. CASE ClearFails(p)
  BY <1>1, <1>2, <1>3, <1>4, <1>26 DEF ClearFails
<1>27. CASE AddFails(p)
  BY <1>1, <1>2, <1>3, <1>4, <1>27 DEF AddFails
<1>28. CASE GiveUp(p)
  <2>1. CASE Booting(p)
    BY <1>1, <1>2, <1>3, <1>4, <1>28, <2>1 DEF GiveUp, AfterAudit
  <2>2. CASE ~Booting(p)
    <3>1. pc' = [pc EXCEPT ![p] = "sched"] /\ ~Booting(p)'
      <4>1. AfterAudit(p) = "sched"
        BY <2>2 DEF AfterAudit
      <4>2. pc' = [pc EXCEPT ![p] = "sched"]
        BY <1>28, <2>2, <4>1 DEF GiveUp
      <4>3. ~Booting(p)'
        BY <1>2, <2>2
      <4> QED BY <4>2, <4>3
    <3>2. ~Ended(p) /\ ~Ended(p)'
      BY <1>28, <2>2, <3>1 DEF GiveUp
    <3>3. got[p] = Served /\ got' = got /\ current = Served /\ (disk = Served \/ unsaved)
      BY <1>1, <1>28, <3>2 DEF GiveUp
    <3>4. Served["audit"] /\ unwatched'
      BY <1>1, <1>28 DEF GiveUp
    <3>5. UNCHANGED <<stored, link, file, access, lone, unsaved>>
      BY <1>28 DEF GiveUp
    <3> QED BY <1>3, <1>4, <3>1, <3>2, <3>3, <3>4, <3>5
  <2> QED BY <2>1, <2>2
<1> QED BY <1>5, <1>6, <1>7, <1>8, <1>9, <1>10, <1>11, <1>12, <1>13, <1>14, <1>15, <1>16,
      <1>17, <1>18, <1>19, <1>20, <1>21, <1>22, <1>23, <1>24, <1>25, <1>26, <1>27, <1>28
        DEF Step

LEMMA NextLone ==
  ASSUME TypeOK, FileInv, MainInv, LoneInv, [Next]_vars
  PROVE  LoneInv'
<1> USE SyncAssumption, MainIsProc
<1>1. ASSUME NEW p \in Procs, Step(p) PROVE LoneInv'
  <2>1. CASE Fetch(p)
    <3>1. SUFFICES ASSUME lone' = p PROVE Agreement(p)'
      BY <2>1 DEF Fetch, LoneInv
    <3>2. \A q \in Procs \ {p} : pc'[q] \in Resting
      BY <2>1, <3>1 DEF Fetch, Goto, TypeOK
    <3>3. pc'[p] = "set" /\ got'[p] = Served /\ Served' = Served /\ hooked' = hooked
      BY <2>1 DEF Fetch, Goto, TypeOK, Served, server, link
    <3>4. ~Booting(p)'
      BY <2>1, <3>3 DEF Booting, Fetch, MainInv
    <3> QED BY <3>2, <3>3, <3>4 DEF Agreement, Ended, AuditPart, BeforeSet, BeforeSaved
  <2>2. CASE ~Fetch(p) /\ lone = p
    <3>1. lone' = p \/ lone' = Nobody
      BY <1>1, <2>2 DEF Step, FetchFails, Set, Open, OpenDenied, Close, SaveFails, Audit,
         Clear, ClearFails, Unflag, Add, AddFails, Flag, GiveUp, Sched, Check, NewSource, Run,
         Loop, Cancel, Stopped, Await, Report, ReportFails, failed, history
    <3> QED BY <1>1, <2>2, <3>1, OwnStep DEF LoneInv
  <2>3. CASE ~Fetch(p) /\ lone # p
    <3>1. lone' = lone
      BY <1>1, <2>3 DEF Step, FetchFails, Set, Open, OpenDenied, Close, SaveFails, Audit,
         Clear, ClearFails, Unflag, Add, AddFails, Flag, GiveUp, Sched, Check, NewSource, Run,
         Loop, Cancel, Stopped, Await, Report, ReportFails, failed, history
    <3>2. SUFFICES ASSUME lone # Nobody PROVE Agreement(lone)'
      BY <3>1 DEF LoneInv
    <3>3. Agreement(lone) /\ lone \in Procs /\ pc[p] \in Resting
      BY <2>3, <3>2 DEF LoneInv, Agreement, TypeOK
    <3>4. FetchFails(p)
      BY <1>1, <2>3, <3>3 DEF Resting, Step, Set, Open, OpenDenied, Close, SaveFails, Audit,
         Clear, ClearFails, Unflag, Add, AddFails, Flag, GiveUp, Sched, Check, NewSource, Run,
         Loop, Cancel, Stopped, Await, Report, ReportFails
    <3>5. p # Main
      BY <2>3, <3>3, <3>4 DEF FetchFails, MainInv, Procs
    <3>6. pc' = [pc EXCEPT ![p] = "idle"]
      BY <3>4, <3>5 DEF FetchFails, Goto, AfterFetch
    <3>7. UNCHANGED <<server, link, file, audit, access, got, lone, unsaved, unwatched>>
      BY <3>4, <3>1 DEF FetchFails, history, failed
    <3>8. Served' = Served /\ hooked' = hooked /\ pc'[lone] = pc[lone]
      BY <2>3, <3>3, <3>6, <3>7 DEF Served, server, link, TypeOK
    <3>9. \A q \in Procs \ {lone} : pc'[q] \in Resting
      BY <3>3, <3>6 DEF Agreement, Resting, TypeOK
    <3> QED BY <3>3, <3>7, <3>8, <3>9
            DEF Agreement, Ended, Booting, file, audit, access, server
  <2> QED BY <2>1, <2>2, <2>3
<1>2. CASE MainStep
  <2>1. SUFFICES ASSUME lone # Nobody PROVE Agreement(lone)'
    BY <1>2 DEF MainStep, Start, Load, LoadFails, InitSchedule, Hook, Begin, AuditOn, failed,
       history, LoneInv
  <2>2. Agreement(lone) /\ lone \in Procs
    BY <2>1 DEF LoneInv, TypeOK
  <2>3. lone = Main
    <3>1. ASSUME lone # Main PROVE FALSE
      BY <1>2, <2>2, <3>1 DEF Agreement, Resting, MainStep, Start, Load, LoadFails,
         InitSchedule, Hook, Begin, AuditOn
    <3> QED BY <3>1
  <2>4. Hook \/ Begin \/ AuditOn
    BY <1>2, <2>1 DEF MainStep, Start, Load, LoadFails, InitSchedule, MainInv
  <2>5. /\ UNCHANGED <<server, file, audit, access, lone, unsaved, unwatched>>
        /\ Served' = Served
        /\ \A q \in Procs : q # Main => pc'[q] = pc[q]
    BY <2>4 DEF Hook, Begin, AuditOn, Goto, failed, history, server, Served, TypeOK
  <2>6. \A q \in Procs \ {Main} : pc'[q] \in Resting
    BY <2>2, <2>3, <2>5 DEF Agreement
  <2> USE <2>2, <2>3, <2>5, <2>6
      DEF Agreement, Ended, Booting, AuditPart, BeforeSet, BeforeSaved, Goto, TypeOK,
          server, link, file, audit, access
  <2>7. CASE Hook     BY <2>7 DEF Hook
  <2>8. CASE Begin
    <3>1. hooked' = hooked /\ hooked
      BY <2>8 DEF Begin, MainInv
    <3>2. CASE running   BY <2>8, <3>1, <3>2 DEF Begin
    <3>3. CASE ~running  BY <2>8, <3>1, <3>3 DEF Begin
    <3> QED BY <3>2, <3>3
  <2>9. CASE AuditOn
    <3>1. hooked' = hooked /\ hooked
      BY <2>9 DEF AuditOn, MainInv
    <3> QED BY <2>9, <3>1 DEF AuditOn
  <2> QED BY <2>4, <2>7, <2>8, <2>9
<1>3. CASE Dashboard
  <2>1. CASE \E w \in Pages, s \in Edits : PageSaves(w, s)
    BY <2>1 DEF PageSaves, LoneInv
  <2>2. CASE \E c \in Adopted : AdoptStore(c)
    BY <2>2 DEF AdoptStore, LoneInv
  <2>3. CASE AdoptStatus \/ \E w \in Pages : PageLoads(w)
    BY <2>3 DEF AdoptStatus, PageLoads, LoneInv, Agreement, Ended, Booting, Served, link,
       file, audit, access, thread, failed, history
  <2> QED BY <1>3, <2>1, <2>2, <2>3 DEF Dashboard
<1>4. CASE Arrivals
  <2>1. UNCHANGED <<server, hooked, file, audit, access, got, lone, unsaved, unwatched>>
    BY <1>4 DEF Arrivals, PushArrives, RestoredArrives, failed, history
  <2>2. CASE pc' = pc
    BY <2>1, <2>2 DEF LoneInv, Agreement, Ended, Booting, Served, server, file, audit, access
  <2>3. ASSUME NEW t \in Tasks, pc[t] = "idle", pc' = [pc EXCEPT ![t] = "fetch"]
        PROVE  LoneInv'
    BY <2>1, <2>3 DEF LoneInv, Agreement, Ended, Booting, Served, server, file, audit, access,
       Resting, TypeOK, AuditPart, BeforeSet, BeforeSaved
  <2> QED BY <1>4, <2>2, <2>3 DEF Arrivals, PushArrives, RestoredArrives, Raise
<1>5. CASE LoopsEnd \/ Connect \/ Disconnect \/ UNCHANGED vars
  <2>1. UNCHANGED <<server, hooked, file, audit, schedule, running, thread, history>>
    BY <1>5 DEF LoopsEnd, LoopEnds, Connect, Disconnect, vars, link, access
  <2> QED BY <2>1 DEF LoneInv, Agreement, Ended, Booting, Served, server, file, audit,
             thread, failed, history
<1>6. CASE Crash
  BY <1>6 DEF Crash, LoneInv
<1> QED BY <1>1, <1>2, <1>3, <1>4, <1>5, <1>6 DEF Next

(* A fetch that nothing overlapped brings the server, the file and every     *)
(* manager of the service into agreement, whatever came before it.           *)
THEOREM LoneFetchesConverge == Spec => []LoneFetchConverges
<1>1. Init => MainInv /\ LoneInv
  BY SyncAssumption, MainIsProc DEF Init, MainInv, LoneInv, Procs
<1>2. TypeOK /\ MainInv /\ LoneInv => LoneFetchConverges
  BY SyncAssumption, ConfigType, ServedType, MainIsProc
     DEF LoneInv, Agreement, Ended, Booting, LoneFetchConverges, AuditPart, BeforeSet,
         BeforeSaved, TypeOK
<1> QED BY <1>1, <1>2, TypeInvariant, FileInvariant, NextMain, NextLone, PTL DEF Spec

=============================================================================
