--------------------------- MODULE SettingsPages ---------------------------
(***************************************************************************)
(* The settings of the machines as the dashboard edits them: the features  *)
(* page, the pages of the features (AuditPage, AccessControlPage,          *)
(* ActivityPage and ScreenshotGallery), the navigation (MainLayout.tsx,    *)
(* NavigationTabs.tsx) and the routes of routes/web/settings.ts.           *)
(*                                                                         *)
(* Every page keeps a copy of the whole settings of the selected machine,  *)
(* changes one feature in it and posts all of it; nothing says which       *)
(* machine a copy or an answer belongs to.  Loads and saves are awaited,   *)
(* and answers come in any order.  The page of a feature, but not the      *)
(* gallery, loads again whenever MachineContext renews its entry of the    *)
(* selected machine, that is, with every machine list.                     *)
(***************************************************************************)
EXTENDS Naturals, FiniteSets

CONSTANTS
    Computers,  \* the machines
    Features,   \* features with settings; each has a view of its own
    MaxActs,    \* bound: edits and changes of machine or view
    Unknown,    \* no copy
    None        \* no feature

Value == [enabled : BOOLEAN, config : 0 .. 1]
AllSettings == [Features -> Value]

ASSUME PagesAssumption ==
    /\ MaxActs \in Nat /\ {"features", "dashboard", None} \cap Features = {}
    /\ Unknown \notin AllSettings

VARIABLES
    storedSettings,  \* machine_state.settings
    selected,  \* the selected machine
    page,      \* the view that is open
    copy,      \* the settings the page of the view holds
    loading,   \* the page loads
    savingOf,    \* the feature whose controls the page disables, or None
    loads,     \* GETs of the page: for which machine, and the answer
    saves,     \* POSTs: to which machine, what, for which feature, from which page,
               \* whether it is stored, and whether that page is still open
    nav,       \* the settings useHealthStats holds for the navigation
    navLoads,  \* its GETs
    acts,      \* edits so far
    chosen,    \* history: what the user chose last for each feature
    careful    \* history: no step was taken while a request was under way

pagesVars == <<storedSettings, selected, page, copy, loading, savingOf, loads, saves, nav,
               navLoads, acts, chosen, careful>>

PageViews == Features \cup {"features", "dashboard"}
Off == [f \in Features |-> [enabled |-> FALSE, config |-> 0]]

Load == [machine : Computers, answer : AllSettings \cup {Unknown}]
Save == [machine : Computers, sent : AllSettings, feature : Features, written : BOOLEAN,
         from : PageViews, open : BOOLEAN]

PagesTypeOK ==
    /\ storedSettings \in [Computers -> AllSettings] /\ chosen \in [Computers -> AllSettings]
    /\ selected \in Computers /\ page \in PageViews
    /\ copy \in AllSettings \cup {Unknown} /\ nav \in AllSettings \cup {Unknown}
    /\ loading \in BOOLEAN /\ savingOf \in Features \cup {None}
    /\ careful \in BOOLEAN /\ acts \in 0 .. MaxActs
    /\ loads \subseteq Load /\ navLoads \subseteq Load /\ saves \subseteq Save

-----------------------------------------------------------------------------
Idle == loads = {} /\ navLoads = {} /\ saves = {}
UserActs ==
    /\ acts < MaxActs
    /\ acts' = acts + 1
    /\ careful' = (careful /\ Idle)

Asked(m) == [machine |-> m, answer |-> Unknown]
Answered(l) == [l EXCEPT !.answer = storedSettings[l.machine]]

(* A page that opens, or sees another machine, loads its settings; the     *)
(* dashboard view shows no copy.                                           *)
Loads(v, m) == IF v = "dashboard" THEN {} ELSE {Asked(m)}

(* The redirect of MainLayout away from the view of a disabled feature.    *)
Redirected(v, s) ==
    IF s # Unknown /\ v \in Features /\ ~s[v].enabled THEN "dashboard" ELSE v

-----------------------------------------------------------------------------
(* A page that closes: its loads go nowhere, its saves go on.              *)
Closes(v) ==
    /\ page' = v /\ copy' = Unknown
    /\ loading' = TRUE /\ savingOf' = None
    /\ loads' = Loads(v, selected)
    /\ saves' = {[s EXCEPT !.open = FALSE] : s \in saves}

(* The user opens a view: a new page, whose answers alone count.           *)
OpenPage(v) ==
    /\ v # page /\ Redirected(v, nav) = v
    /\ UserActs
    /\ Closes(v)
    /\ UNCHANGED <<storedSettings, selected, nav, navLoads, chosen>>

(* The user selects another machine: the page stays, with its copy, and    *)
(* loads once more; so does the navigation.                                *)
SelectMachine(m) ==
    /\ m # selected
    /\ UserActs
    /\ selected' = m
    /\ loading' = TRUE
    /\ loads' = loads \cup Loads(page, m)
    /\ navLoads' = navLoads \cup {Asked(m)}
    /\ UNCHANGED <<storedSettings, page, copy, savingOf, saves, nav, chosen>>

(* A machine list renews the selected machine: the page of a feature loads *)
(* once more, also while it saves; the gallery depends on the id alone.    *)
ListRenews ==
    /\ page \in Features \ {"screenshots"}
    /\ loads' = loads \cup {Asked(selected)}
    /\ loading' = TRUE
    /\ careful' = (careful /\ saves = {})
    /\ UNCHANGED <<storedSettings, selected, page, copy, savingOf, saves, nav, navLoads, acts, chosen>>

(* GET /settings for the page: read, answered or failed.                   *)
LoadReads(l) ==
    /\ l.answer = Unknown
    /\ loads' = (loads \ {l}) \cup {Answered(l)}
    /\ UNCHANGED <<storedSettings, selected, page, copy, loading, savingOf, saves, nav, navLoads,
                   acts, chosen, careful>>

LoadEnds(l) ==
    /\ l.answer # Unknown
    /\ loads' = loads \ {l}
    /\ copy' = l.answer
    /\ loading' = FALSE
    /\ UNCHANGED <<storedSettings, selected, page, savingOf, saves, nav, navLoads, acts, chosen, careful>>

LoadFails(l) ==
    /\ loads' = loads \ {l}
    /\ loading' = FALSE
    /\ careful' = FALSE
    /\ UNCHANGED <<storedSettings, selected, page, copy, savingOf, saves, nav, navLoads, acts, chosen>>

NavReads(l) ==
    /\ l.answer = Unknown
    /\ navLoads' = (navLoads \ {l}) \cup {Answered(l)}
    /\ UNCHANGED <<storedSettings, selected, page, copy, loading, savingOf, loads, saves, nav,
                   acts, chosen, careful>>

(* The navigation has its settings: it may close the view.                 *)
NavEnds(l) ==
    /\ l.answer # Unknown
    /\ navLoads' = navLoads \ {l}
    /\ nav' = l.answer
    /\ IF Redirected(page, l.answer) = page
         THEN UNCHANGED <<page, copy, loading, savingOf, loads, saves>>
         ELSE Closes(Redirected(page, l.answer))
    /\ UNCHANGED <<storedSettings, selected, acts, chosen, careful>>

NavFails(l) ==
    /\ navLoads' = navLoads \ {l}
    /\ careful' = FALSE
    /\ UNCHANGED <<storedSettings, selected, page, copy, loading, savingOf, loads, saves, nav, acts,
                   chosen>>

-----------------------------------------------------------------------------
(* The user changes a feature: the features page switches it on or off,    *)
(* and its configuration, there or on the page of the feature, changes.    *)
(* The filters of the audit log can be changed when it is on, whether or   *)
(* not a save is under way; saving a schedule switches access control on,  *)
(* from its own page also when it was off.                                 *)
ChangesOf(f, v) ==
    \/ /\ page = "features" /\ savingOf # f
       /\ v.enabled # copy[f].enabled /\ v.config = copy[f].config
    \/ /\ page \in {"features", f} /\ v.config # copy[f].config
       /\ v.enabled
       /\ copy[f].enabled \/ (f = "accessControl" /\ page = f)
       /\ savingOf = f => f = "audit"

(* AuditPage shows the change at once, the others the answer to the save.  *)
Optimistic == page = "audit"

(* These pages hide their controls while they load; AuditPage,             *)
(* ActivityPage and the gallery do not.                                    *)
HidesWhileLoading == page \in {"features", "accessControl"}

Edit(f, v) ==
    /\ copy # Unknown /\ (loading => ~HidesWhileLoading)
    /\ ChangesOf(f, v)
    /\ UserActs
    /\ LET new == [copy EXCEPT ![f] = v]
       IN /\ saves' = saves \cup {[machine |-> selected, sent |-> new, feature |-> f,
                                  written |-> FALSE, from |-> page, open |-> TRUE]}
          /\ copy' = IF Optimistic THEN new ELSE copy
    /\ savingOf' = IF Optimistic THEN None ELSE f
    /\ chosen' = [chosen EXCEPT ![selected][f] = v]
    /\ UNCHANGED <<storedSettings, selected, page, loading, loads, nav, navLoads>>

(* POST /settings: the features that are sent replace those that are       *)
(* stored, and all of them are sent.                                       *)
SaveWrites(s) ==
    /\ ~s.written
    /\ storedSettings' = [storedSettings EXCEPT ![s.machine] = s.sent]
    /\ saves' = (saves \ {s}) \cup {[s EXCEPT !.written = TRUE]}
    /\ UNCHANGED <<selected, page, copy, loading, savingOf, loads, nav, navLoads, acts, chosen, careful>>

(* Mutant of TakesAnswer: the page keeps the copy it had.                  *)
TakesAnswerNot(s) == copy

(* setSettings(response), on the page that saved if it is still open.      *)
TakesAnswer(s) == IF s.open /\ s.from # "audit" THEN s.sent ELSE copy

(* setSaving(null): of whichever feature, unless the page was closed.      *)
Enables(s) == savingOf' = IF s.open THEN None ELSE savingOf

(* settingsEvents.emit: all pages but AuditPage announce a save.           *)
Announces(s) == s.from # "audit"

SaveEnds(s) ==
    /\ s.written
    /\ saves' = saves \ {s}
    /\ copy' = TakesAnswer(s)
    /\ Enables(s)
    /\ navLoads' = IF Announces(s) THEN navLoads \cup {Asked(selected)} ELSE navLoads
    /\ UNCHANGED <<storedSettings, selected, page, loading, loads, nav, acts, chosen, careful>>

(* A save fails, before or after it was stored; AuditPage loads again, for *)
(* the machine it saved to, whichever is selected by now.                  *)
SaveFails(s) ==
    /\ saves' = saves \ {s}
    /\ careful' = FALSE
    /\ loads' = IF s.from = "audit" /\ s.open THEN loads \cup {Asked(s.machine)} ELSE loads
    /\ Enables(s)
    /\ UNCHANGED <<storedSettings, selected, page, copy, loading, nav, navLoads, acts, chosen>>

-----------------------------------------------------------------------------
PagesInit ==
    /\ storedSettings \in [Computers -> {Off, [f \in Features |-> [enabled |-> TRUE, config |-> 0]]}]
    /\ selected \in Computers
    /\ page = "dashboard"
    /\ copy = Unknown /\ loading = TRUE /\ savingOf = None
    /\ loads = {} /\ saves = {}
    /\ nav = Unknown /\ navLoads = {Asked(selected)}
    /\ acts = 0
    /\ chosen = storedSettings
    /\ careful = TRUE

PagesNext ==
    \/ \E v \in PageViews : OpenPage(v)
    \/ \E m \in Computers : SelectMachine(m)
    \/ ListRenews
    \/ \E l \in loads : LoadReads(l) \/ LoadEnds(l) \/ LoadFails(l)
    \/ \E l \in navLoads : NavReads(l) \/ NavEnds(l) \/ NavFails(l)
    \/ \E f \in Features, v \in Value : Edit(f, v)
    \/ \E s \in saves : SaveWrites(s) \/ SaveEnds(s) \/ SaveFails(s)

PagesSpec == PagesInit /\ [][PagesNext]_pagesVars

-----------------------------------------------------------------------------
(* A user who waits for every answer before the next click, while no       *)
(* machine list comes in during a save, gets what was chosen: each feature *)
(* of each machine is stored as it was last set, and the page shows it,    *)
(* although every save writes all the features of a copy; the tabs follow  *)
(* the features, and no page of a feature that is off stays open.  Without *)
(* the waiting, or with such a list, none of this holds.                   *)
EditsStick ==
    /\ storedSettings = chosen
    /\ copy # Unknown => copy = storedSettings[selected]

NavigationFollows ==
    /\ \A f \in Features : nav[f].enabled = storedSettings[selected][f].enabled
    /\ Redirected(page, storedSettings[selected]) = page

CarefulEditsStick == careful /\ Idle => EditsStick /\ NavigationFollows

============================================================================
