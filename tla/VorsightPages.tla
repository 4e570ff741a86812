---------------------------- MODULE VorsightPages ----------------------------
(***************************************************************************)
(* Models of what the server takes in and of what the pages of the         *)
(* dashboard show and edit, side by side: machine accounts, the reports of *)
(* a machine, the screenshot gallery, the audit log, the activity log, the *)
(* schedule editor with its time picker, the settings pages and the        *)
(* sign-in.  All their properties are about states.                        *)
(*                                                                         *)
(* They have no variable in common: as in VorsightServer, a behaviour      *)
(* picks a part and lets only that part move.                              *)
(***************************************************************************)
EXTENDS MachineAccounts, MachineIngest, Gallery, AuditLog, ActivityLog,
        TimePicker, ScheduleEditor, SettingsPages, AuthSession

VARIABLE part

Parts == {"accounts", "ingest", "gallery", "audit", "activity", "time", "schedule",
          "settings", "auth"}

pagesAllVars == <<part, accountsVars, ingestVars, galleryVars, auditVars, activityLogVars,
                  timeVars, editorVars, pagesVars, authVars>>

DashboardTypeOK ==
    \/ part = "accounts" /\ AccountsTypeOK
    \/ part = "ingest" /\ IngestTypeOK
    \/ part = "gallery" /\ GalleryTypeOK
    \/ part = "audit" /\ AuditTypeOK
    \/ part = "activity" /\ ActivityLogTypeOK
    \/ part = "time" /\ TimeTypeOK
    \/ part = "schedule" /\ EditorTypeOK
    \/ part = "settings" /\ PagesTypeOK
    \/ part = "auth" /\ AuthTypeOK

(* One value of what a part leaves open at the start, for the parts that   *)
(* do not move.                                                            *)
Still(p, condition) == part # p => condition

DashboardInit ==
    /\ part \in Parts
    /\ AccountsInit
    /\ Still("accounts", own = [a \in Agents |-> CHOOSE o \in [id : Ids, name : Names] : TRUE])
    /\ IngestInit
    /\ GalleryInit
    /\ Still("gallery", screenshots = {} /\ horizon = CHOOSE h \in Horizons : TRUE)
    /\ AuditInit
    /\ ActivityLogInit
    /\ Still("activity", sessionRows = {} /\ rangeShown = CHOOSE h \in Ranges : TRUE)
    /\ TimeInit
    /\ Still("time", picker = "hours" /\ date = CHOOSE h \in Starts : TRUE)
    /\ EditorInit
    /\ Still("schedule", given = CHOOSE s \in Storable : TRUE)
    /\ PagesInit
    /\ Still("settings", /\ storedSettings = [m \in Computers |-> Off]
                         /\ selected = CHOOSE m \in Computers : TRUE)
    /\ AuthInit

(* Only part p moves.                                                      *)
Moves(p) ==
    /\ part = p
    /\ UNCHANGED part
    /\ p # "accounts" => UNCHANGED accountsVars
    /\ p # "ingest" => UNCHANGED ingestVars
    /\ p # "gallery" => UNCHANGED galleryVars
    /\ p # "audit" => UNCHANGED auditVars
    /\ p # "activity" => UNCHANGED activityLogVars
    /\ p # "time" => UNCHANGED timeVars
    /\ p # "schedule" => UNCHANGED editorVars
    /\ p # "settings" => UNCHANGED pagesVars
    /\ p # "auth" => UNCHANGED authVars

DashboardNext ==
    \/ Moves("accounts") /\ AccountsNext
    \/ Moves("ingest") /\ IngestNext
    \/ Moves("gallery") /\ GalleryNext
    \/ Moves("audit") /\ AuditNext
    \/ Moves("activity") /\ ActivityLogNext
    \/ Moves("time") /\ TimeNext
    \/ Moves("schedule") /\ EditorNext
    \/ Moves("settings") /\ PagesNext
    \/ Moves("auth") /\ AuthNext

DashboardSpec == DashboardInit /\ [][DashboardNext]_pagesAllVars

=============================================================================
