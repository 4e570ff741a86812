--------------------------- MODULE ScheduleEditor ---------------------------
(***************************************************************************)
(* The editor of the access schedule (AccessControlConfig.tsx), which      *)
(* AccessControlPage.tsx and FeaturesPage.tsx show under their copy of the *)
(* settings, and the summary of the schedule that AccessControlPage.tsx    *)
(* prints.  The editor copies the settings into fields of its own whenever *)
(* its settings are replaced.                                              *)
(*                                                                         *)
(* Settings are whether the schedule is enforced, its mode and the         *)
(* schedule.  The editor shows and sends the last two; whatever it sends   *)
(* is enforced from then on.  The violation action, one more field that is *)
(* copied and saved, is left out.  A time window is a value; Closed stands *)
(* for a day without one, that is, a day the schedule does not list.       *)
(***************************************************************************)
EXTENDS Naturals, Sequences, FiniteSets, SequencesExt

CONSTANTS
    LastDay,    \* the days are 1 .. LastDay, in the order of the week
    Windows,    \* time windows
    Standard,   \* the default window, 08:00 to 22:00
    MaxEdits,   \* bound: edits between two copies
    Closed,     \* no access on a day
    Unset       \* no scheduleMode; no save under way

Modes == {"simple", "custom"}

ASSUME EditorAssumption ==
    /\ LastDay \in Nat \ {0} /\ MaxEdits \in Nat
    /\ Standard \in Windows /\ Closed \notin Windows
    /\ Unset \notin Modes

VARIABLES
    given,    \* the settings the page passes to the editor
    mode,     \* simple or custom
    simple,   \* the window of the simple mode
    custom,   \* the window of each day, and whether it is enabled
    saving,   \* the settings that are being saved
    edits     \* edits since the fields were copied

editorVars == <<given, mode, simple, custom, saving, edits>>

Days == 1 .. LastDay
Schedule == [Days -> Windows \cup {Closed}]
Settings == [enabled : BOOLEAN, mode : Modes \cup {Unset}, schedule : Schedule]
Fields == [Days -> [window : Windows, enabled : BOOLEAN]]

EditorTypeOK ==
    /\ given \in Settings /\ saving \in Settings \cup {Unset}
    /\ mode \in Modes /\ simple \in Windows
    /\ custom \in Fields
    /\ edits \in 0 .. MaxEdits

-----------------------------------------------------------------------------
Open(schedule) == {d \in Days : schedule[d] # Closed}

(* schedule[0]: the window of the first day that has one.                  *)
First(schedule) ==
    IF Open(schedule) = {} THEN Standard
    ELSE schedule[CHOOSE d \in Open(schedule) : \A e \in Open(schedule) : d <= e]

(* The window of every day, the standard one where there is none.          *)
FieldsOf(schedule) ==
    [d \in Days |-> [window |-> IF schedule[d] = Closed THEN Standard ELSE schedule[d],
                     enabled |-> schedule[d] # Closed]]

(* The mode of settings that do not say: custom when several days are set. *)
ModeOf(s) == IF s.mode # Unset THEN s.mode
             ELSE IF Cardinality(Open(s.schedule)) > 1 THEN "custom" ELSE "simple"

(* handleSave: what the fields amount to.  Saving switches enforcement on. *)
Built == [enabled |-> TRUE, mode |-> mode,
          schedule |-> [d \in Days |->
              IF mode = "simple" THEN simple
              ELSE IF custom[d].enabled THEN custom[d].window ELSE Closed]]

(* Mutant of NextMode: the mode is that of the first settings, for good.   *)
NextModeStays(s) == mode

(* The effect on new settings sets the mode if they have one.              *)
NextMode(s) == IF s.mode # Unset THEN s.mode ELSE mode

(* The effects on new settings: all fields are copied, edited or not.      *)
Sync(s, m) ==
    /\ given' = s
    /\ mode' = m
    /\ simple' = First(s.schedule)
    /\ custom' = FieldsOf(s.schedule)
    /\ edits' = 0

-----------------------------------------------------------------------------
Edited == edits < MaxEdits /\ edits' = edits + 1

EditSimple(w) ==
    /\ mode = "simple" /\ w # simple
    /\ simple' = w
    /\ Edited
    /\ UNCHANGED <<given, mode, custom, saving>>

(* updateCustomDay                                                         *)
EditDay(d, w) ==
    /\ mode = "custom"
    /\ custom[d].enabled /\ w # custom[d].window
    /\ custom' = [custom EXCEPT ![d].window = w]
    /\ Edited
    /\ UNCHANGED <<given, mode, simple, saving>>

ToggleDay(d) ==
    /\ mode = "custom"
    /\ custom' = [custom EXCEPT ![d].enabled = ~@]
    /\ Edited
    /\ UNCHANGED <<given, mode, simple, saving>>

(* handleModeChange: the custom mode starts with the simple window on      *)
(* every day, also when it was custom already.                             *)
ChangeMode(m) ==
    /\ mode' = m
    /\ custom' = IF m = "custom" THEN [d \in Days |-> [window |-> simple, enabled |-> TRUE]]
                 ELSE custom
    /\ Edited
    /\ UNCHANGED <<given, simple, saving>>

(* The save button, disabled while a save is under way.                    *)
SaveSchedule ==
    /\ saving = Unset
    /\ saving' = Built
    /\ UNCHANGED <<given, mode, simple, custom, edits>>

(* The page takes over what was saved: edits made meanwhile are lost.      *)
ScheduleSaved ==
    /\ saving # Unset
    /\ Sync(saving, NextMode(saving))
    /\ saving' = Unset

ScheduleNotSaved ==
    /\ saving # Unset
    /\ saving' = Unset
    /\ UNCHANGED <<given, mode, simple, custom, edits>>

(* What another save, by another dashboard or by adoption, may have        *)
(* stored, and the switch of FeaturesPage may have disabled since.         *)
Storable ==
    {s \in Settings :
        /\ s.mode = "simple" => s.schedule[1] # Closed
        /\ s.mode # "custom" => \A d, e \in Days : s.schedule[d] = s.schedule[e]}

(* The settings are replaced: another feature was saved on FeaturesPage,   *)
(* or the page has loaded, which puts a new editor in the place of the old *)
(* one.  AccessControlPage loads with every machine list.                  *)
SettingsReplaced ==
    /\ \E s \in Storable : \E m \in {NextMode(s), ModeOf(s)} : Sync(s, m)
    /\ UNCHANGED saving

EditorInit ==
    /\ given \in Storable
    /\ mode = ModeOf(given)
    /\ simple = First(given.schedule)
    /\ custom = FieldsOf(given.schedule)
    /\ saving = Unset
    /\ edits = 0

EditorNext ==
    \/ \E w \in Windows : EditSimple(w) \/ \E d \in Days : EditDay(d, w)
    \/ \E d \in Days : ToggleDay(d)
    \/ \E m \in Modes : ChangeMode(m)
    \/ SaveSchedule \/ ScheduleSaved \/ ScheduleNotSaved \/ SettingsReplaced

EditorSpec == EditorInit /\ [][EditorNext]_editorVars

-----------------------------------------------------------------------------
(* The summary of AccessControlPage: days with the same window go to one   *)
(* group if the last group has that window; a group is printed as a range  *)
(* from its first to its last day if its days follow each other, as a list *)
(* otherwise.                                                              *)
AddDay(groups, d) ==
    LET w == given.schedule[d]
    IN IF w = Closed THEN groups
       ELSE IF groups # <<>> /\ Last(groups).window = w
              THEN Append(Front(groups), [days |-> Append(Last(groups).days, d), window |-> w])
       ELSE Append(groups, [days |-> <<d>>, window |-> w])

(* The groups of the first n days.                                         *)
GroupsTo[n \in 0 .. LastDay] ==
    IF n = 0 THEN <<>> ELSE AddDay(GroupsTo[n - 1], n)

Groups == GroupsTo[LastDay]

IsConsecutive(g) == \A k \in 1 .. Len(g.days) - 1 : g.days[k + 1] = g.days[k] + 1

(* The days a reader takes a label to stand for.                           *)
Labelled(g) == IF IsConsecutive(g) THEN g.days[1] .. Last(g.days)
               ELSE {g.days[k] : k \in DOMAIN g.days}

(* The summary says what the schedule is: each day with access is printed  *)
(* with its window, no other day is.                                       *)
SummaryMeansSchedule ==
    LET printed == {Groups[k] : k \in DOMAIN Groups}
    IN \A d \in Days :
         {g.window : g \in {h \in printed : d \in Labelled(h)}} =
            {given.schedule[d]} \ {Closed}

(* Opening the editor and saving switches enforcement on, also of a        *)
(* schedule that was disabled, and changes nothing else: with no edit      *)
(* since the fields were copied they amount to the schedule they were      *)
(* copied from, in its mode if it has one, whatever settings were shown    *)
(* before, unless no schedule was ever set.                                *)
SavingAgainOnlyEnforces ==
    edits = 0 /\ (given.mode # Unset \/ Open(given.schedule) # {}) =>
        Built = [enabled |-> TRUE,
                 mode |-> IF given.mode = Unset THEN mode ELSE given.mode,
                 schedule |-> given.schedule]

(* What the page prints is the schedule it was given, and what the editor  *)
(* would save untouched is that schedule, enforced.                        *)
EditorIsFaithful == SummaryMeansSchedule /\ SavingAgainOnlyEnforces

=============================================================================
