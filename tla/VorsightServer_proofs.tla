------------------------ MODULE VorsightServer_proofs ------------------------
(* Proofs, for every value of the constants, of the safety properties of   *)
(* VorsightServer and of the parts it puts side by side: the machine_state *)
(* row, the Drive connection, the retention of data, and (with the         *)
(* invariant of MachineList_proofs) the machine list.                      *)
EXTENDS VorsightServer, MachineList_proofs

-----------------------------------------------------------------------------
(* MachineState: the machine_state row and its three writers.              *)

LEMMA InitStateTypes == StateInit => StateTypeOK
  BY MachineStateAssumption
     DEF StateInit, StateTypeOK, States, NoState, Idle, Health, Settings, Silences

(* The heartbeat handler keeps the row and its own progress typed.         *)
LEMMA BeatTypes ==
  ASSUME StateTypeOK, BeatArrives \/ BeatReads \/ BeatUpserts \/ BeatUpdatesLastSeen
  PROVE  StateTypeOK'
<1> USE MachineStateAssumption DEF StateTypeOK
<1>1. CASE BeatArrives
  BY <1>1 DEF BeatArrives
<1>2. CASE BeatReads
  <2>1. /\ beat' \in {Idle} \cup [at : {"status"}, status : {"pending", "active"}]
                       \cup [at : {"state", "seen"}, settings : Settings]
        /\ silence' \in Silences
    <3>1. (IF state = NoState THEN 0 ELSE state.settings) \in Settings
      BY DEF States, Settings
    <3>2. CASE beat.status = "active"
      BY <1>2, <3>1, <3>2 DEF BeatReads, Silences
    <3>3. CASE beat.status # "active"
      BY <1>2, <3>3 DEF BeatReads, Silences
    <3> QED BY <3>2, <3>3
  <2> QED BY <1>2, <2>1 DEF BeatReads
<1>3. CASE BeatUpserts
  <2>1. beat \in [at : {"state", "seen"}, settings : Settings] /\ beat.at = "state"
    BY <1>3 DEF BeatUpserts, Idle
  <2>2. (IF state = NoState THEN beat.settings ELSE state.settings) \in Settings
    BY <2>1 DEF States, Settings
  <2>3. state' \in States
    BY <1>3, <2>2 DEF BeatUpserts, States, Health
  <2>4. beat' \in [at : {"state", "seen"}, settings : Settings]
    BY <1>3, <2>1 DEF BeatUpserts
  <2> QED BY <1>3, <2>3, <2>4 DEF BeatUpserts
<1>4. CASE BeatUpdatesLastSeen
  BY <1>4 DEF BeatUpdatesLastSeen, Silences
<1> QED BY <1>1, <1>2, <1>3, <1>4

(* So does the ping monitor.                                               *)
LEMMA ProbeTypes ==
  ASSUME StateTypeOK, ProbeStarts \/ ProbeAnswers \/ ProbeReads \/ ProbeUpserts
  PROVE  StateTypeOK'
<1> USE MachineStateAssumption DEF StateTypeOK
<1>1. CASE ProbeStarts
  BY <1>1 DEF ProbeStarts
<1>2. CASE ProbeAnswers
  BY <1>2 DEF ProbeAnswers
<1>3. CASE ProbeReads
  <2>1. probe \in [at : {"read", "write"}, alive : BOOLEAN]
    BY <1>3 DEF ProbeReads, Idle
  <2> QED BY <1>3, <2>1 DEF ProbeReads
<1>4. CASE ProbeUpserts
  <2>1. (IF state = NoState THEN 0 ELSE state.settings) \in Settings
    BY DEF States, Settings
  <2>2. (IF probe.alive THEN "reachable" ELSE "unreachable") \in Health
    BY DEF Health
  <2>3. state' \in States
    BY <1>4, <2>1, <2>2 DEF ProbeUpserts, States
  <2> QED BY <1>4, <2>3 DEF ProbeUpserts
<1> QED BY <1>1, <1>2, <1>3, <1>4

LEMMA NextStateTypes == ASSUME StateTypeOK, [StateNext]_stateVars PROVE StateTypeOK'
<1> USE MachineStateAssumption DEF StateTypeOK
<1>1. CASE PowerChanges
  BY <1>1 DEF PowerChanges
<1>2. CASE SilenceGrows
  BY <1>2 DEF SilenceGrows, Older, Silences
<1>3. CASE Adopt
  BY <1>3 DEF Adopt
<1>4. CASE StoreSettings
  <2>1. (IF state = NoState THEN "null" ELSE state.health) \in Health \cup {"null"}
    BY DEF States
  <2>2. state' \in States /\ saved' \in 0 .. MaxSaves
    BY <1>4, <2>1 DEF StoreSettings, States, Settings
  <2> QED BY <1>4, <2>2 DEF StoreSettings
<1>5. CASE UNCHANGED stateVars
  BY <1>5 DEF stateVars
<1> QED BY <1>1, <1>2, <1>3, <1>4, <1>5, BeatTypes, ProbeTypes DEF StateNext

(* The row, the handlers in progress and the counters keep their types.    *)
THEOREM StateTypes == StateSpec => []StateTypeOK
  BY InitStateTypes, NextStateTypes, PTL DEF StateSpec

(* Neither a heartbeat nor a ping loses settings: what either of them read *)
(* is used only to create a row.                                           *)
LEMMA SettingsStep ==
  ASSUME StateTypeOK, SettingsSurvive, [StateNext]_stateVars
  PROVE  SettingsSurvive'
<1> USE DEF SettingsSurvive
<1>1. CASE BeatUpserts \/ ProbeUpserts
  <2>1. saved # 0 => state # NoState
    BY DEF NoState
  <2>2. saved' = saved /\ (state # NoState => state'.settings = state.settings)
    BY <1>1 DEF BeatUpserts, ProbeUpserts
  <2> QED BY <2>1, <2>2
<1>2. CASE StoreSettings
  BY <1>2 DEF StoreSettings
<1>3. ASSUME ~BeatUpserts, ~ProbeUpserts, ~StoreSettings PROVE SettingsSurvive'
  <2>1. UNCHANGED <<state, saved>>
    BY <1>3 DEF StateNext, stateVars, PowerChanges, SilenceGrows, BeatArrives,
       BeatReads, BeatUpdatesLastSeen, ProbeStarts, ProbeAnswers, ProbeReads, Adopt
  <2> QED BY <2>1
<1> QED BY <1>1, <1>2, <1>3

(* Once settings were stored, no heartbeat and no ping that read the row   *)
(* before loses them.                                                      *)
THEOREM SettingsAreKept == StateSpec => []SettingsSurvive
<1>1. StateInit => SettingsSurvive
  BY DEF StateInit, SettingsSurvive
<1> QED BY <1>1, SettingsStep, StateTypes, PTL DEF StateSpec

-----------------------------------------------------------------------------
(* DriveTokens.  That a disconnect sticks rests on the ids of rows, which  *)
(* are never reused: whoever read a row before the disconnect finds no row *)
(* of that id afterwards, and whoever read the row that is there now has   *)
(* read a consent that was stored in it.                                   *)
TokensKept ==
    /\ created + (IF consent = None THEN 0 ELSE 1) <= granted
    /\ token # None => token.id <= created /\ {token.refresh, token.access} \subseteq kept
    /\ \A k \in Callers :
          calls[k] # None =>
              /\ calls[k].id <= created
              /\ token # None /\ token.id = calls[k].id => calls[k].refresh \in kept
    /\ consent # None /\ consent.at = "write" =>
          /\ consent.id <= created
          /\ token # None /\ token.id = consent.id => consent.refresh \in kept

TokensInv == TokensTypeOK /\ TokensKept

LEMMA InitTokensInv == TokensInit => TokensInv
  BY DriveTokensAssumption
     DEF TokensInit, TokensInv, TokensTypeOK, TokensKept, Callers

(* What is shared by the steps that neither store nor forget a token.      *)
LEMMA CardTokensInv ==
  ASSUME TokensInv, UNCHANGED <<token, granted, created, calls, consent, kept>>,
         revoked' \subseteq Grants,
         card' \in [busy : BOOLEAN, answer : BOOLEAN \cup {None}, connected : BOOLEAN]
  PROVE  TokensInv'
  BY DEF TokensInv, TokensTypeOK, TokensKept

LEMMA ConsentTokensInv ==
  ASSUME TokensInv, UserConsents \/ CallbackExchanges \/ CallbackFinds
  PROVE  TokensInv'
<1> USE DriveTokensAssumption DEF TokensInv, Grants
<1>1. CASE UserConsents
  <2>1. consent' \in Callback /\ consent'.at = "code" /\ granted' \in 0 .. MaxGrants
    BY <1>1 DEF UserConsents, TokensTypeOK, Callback
  <2>2. TokensTypeOK'
    BY <1>1, <2>1 DEF UserConsents, TokensTypeOK
  <2>3. TokensKept'
    BY <1>1, <2>1 DEF UserConsents, TokensTypeOK, TokensKept
  <2> QED BY <2>2, <2>3
<1>2. CASE CallbackExchanges
  <2>1. consent.grant \in Grants
    BY <1>2 DEF CallbackExchanges, TokensTypeOK, Callback
  <2>2. consent' \in Callback \cup {None} /\ (consent' # None => consent'.at = "find")
    BY <1>2, <2>1 DEF CallbackExchanges, Callback
  <2>3. TokensTypeOK'
    BY <1>2, <2>2 DEF CallbackExchanges, TokensTypeOK
  <2>4. TokensKept'
    BY <1>2, <2>2 DEF CallbackExchanges, TokensTypeOK, TokensKept
  <2> QED BY <2>3, <2>4
<1>3. CASE CallbackFinds
  <2>1. consent.grant \in Grants /\ consent.offline \in BOOLEAN /\ consent # None
    BY <1>3 DEF CallbackFinds, TokensTypeOK, Callback
  <2>2. token # None => token.id \in Grants /\ token.refresh \in Grants
    BY DEF TokensTypeOK, TokenRow
  <2>3. /\ consent' \in Callback /\ consent'.at = "write"
        /\ consent'.id = IF token = None THEN 0 ELSE token.id
        /\ consent'.refresh = IF token = None THEN 0 ELSE token.refresh
    BY <1>3, <2>1, <2>2 DEF CallbackFinds, Callback
  <2>4. TokensTypeOK'
    BY <1>3, <2>3 DEF CallbackFinds, TokensTypeOK
  <2>5. TokensKept'
    BY <1>3, <2>1, <2>2, <2>3 DEF CallbackFinds, TokensTypeOK, TokensKept
  <2> QED BY <2>4, <2>5
<1> QED BY <1>1, <1>2, <1>3

LEMMA StoreTokensInv == ASSUME TokensInv, CallbackWrites PROVE TokensInv'
<1> USE DriveTokensAssumption DEF TokensInv, Grants
<1>1. /\ consent # None /\ consent.at = "write" /\ consent.grant \in Grants
      /\ consent.offline \in BOOLEAN /\ consent.id \in Grants \cup {0}
      /\ consent.refresh \in Grants \cup {0} /\ consent' = None
      /\ UNCHANGED <<granted, revoked, calls>>
      /\ card' \in [busy : BOOLEAN, answer : BOOLEAN \cup {None}, connected : BOOLEAN]
  BY DEF CallbackWrites, TokensTypeOK, Callback
<1>2. created + 1 <= granted /\ created \in 0 .. MaxGrants /\ granted \in 0 .. MaxGrants
  BY <1>1 DEF TokensKept, TokensTypeOK
<1>3. CASE UNCHANGED <<token, created, kept>>
  BY <1>1, <1>2, <1>3 DEF TokensTypeOK, TokensKept
<1>4. CASE /\ CallbackUpdates /\ token' = StoredToken(token.id)
           /\ kept' = kept \cup {consent.grant} /\ UNCHANGED created
  <2>1. token.id \in Grants /\ consent.refresh \in kept /\ kept \subseteq Grants
        /\ token # None /\ token.id <= created
    BY <1>1, <1>4 DEF CallbackUpdates, TokensKept, TokensTypeOK, TokenRow
  <2>2. token' \in TokenRow /\ token'.id = token.id /\ token'.refresh \in kept'
        /\ token'.access \in kept'
    BY <1>1, <1>4, <2>1 DEF StoredToken, TokenRow, Expiries
  <2>3. TokensTypeOK'
    BY <1>1, <1>2, <1>4, <2>1, <2>2 DEF TokensTypeOK
  <2>4. TokensKept'
    BY <1>1, <1>2, <1>4, <2>1, <2>2 DEF TokensKept
  <2> QED BY <2>3, <2>4
<1>5. CASE /\ CallbackCreates /\ created' = created + 1 /\ token' = StoredToken(created + 1)
           /\ kept' = kept \cup {consent.grant}
  <2>1. token' \in TokenRow /\ token'.id = created + 1 /\ token'.refresh \in kept'
        /\ token'.access \in kept'
    BY <1>1, <1>2, <1>5 DEF CallbackCreates, StoredToken, TokenRow, Expiries
  <2>2. TokensTypeOK'
    BY <1>1, <1>2, <1>5, <2>1 DEF TokensTypeOK
  <2>3. \A k \in Callers : calls[k] # None => calls[k].id \in Nat /\ calls[k].id <= created
    BY DEF TokensKept, TokensTypeOK, Call
  <2>4. TokensKept'
    BY <1>1, <1>2, <1>5, <2>1, <2>3 DEF TokensKept
  <2> QED BY <2>2, <2>4
<1> QED BY <1>3, <1>4, <1>5 DEF CallbackWrites

LEMMA CallTokensInv ==
  ASSUME TokensInv, NEW k \in Callers,
         \/ CallStarts(k) \/ GoogleAnswers(k) \/ GoogleFails(k) \/ CallUpdates(k)
         \/ CallDeletes(k)
  PROVE  TokensInv'
<1> USE DriveTokensAssumption DEF TokensInv, Grants
<1>1. \A c \in Callers : calls[c] # None => calls[c] \in Call
  BY DEF TokensTypeOK
<1>2. UNCHANGED <<granted, created, revoked, consent, card, kept>>
  BY DEF CallStarts, GoogleAnswers, GoogleFails, CallUpdates, CallDeletes
<1>3. token # None => token \in TokenRow
  BY DEF TokensTypeOK
<1>4. CASE CallStarts(k)
  <2>1. /\ token # None
        /\ calls' = [calls EXCEPT ![k] = [at |-> "refresh", id |-> token.id,
                                          refresh |-> token.refresh]]
        /\ token' = token
    BY <1>4 DEF CallStarts
  <2>2. calls' \in [Callers -> Call \cup {None}]
    BY <1>3, <2>1 DEF TokensTypeOK, TokenRow, Call
  <2>3. TokensTypeOK'
    BY <1>2, <2>1, <2>2 DEF TokensTypeOK
  <2>4. TokensKept'
    BY <1>2, <1>3, <2>1 DEF TokensTypeOK, TokensKept, TokenRow
  <2> QED BY <2>3, <2>4
<1>5. CASE GoogleAnswers(k)
  <2>1. PICK at \in {"update", "delete"} : calls' = [calls EXCEPT ![k].at = at]
    BY <1>5 DEF GoogleAnswers
  <2>2. calls[k] \in Call /\ token' = token
    BY <1>1, <1>5 DEF GoogleAnswers
  <2>3. /\ calls' \in [Callers -> Call \cup {None}]
        /\ calls'[k].id = calls[k].id /\ calls'[k].refresh = calls[k].refresh
        /\ \A c \in Callers \ {k} : calls'[c] = calls[c]
    BY <2>1, <2>2 DEF TokensTypeOK, Call
  <2>4. TokensTypeOK'
    BY <1>2, <2>2, <2>3 DEF TokensTypeOK
  <2>5. TokensKept'
    BY <1>2, <1>5, <2>2, <2>3 DEF TokensKept, GoogleAnswers
  <2> QED BY <2>4, <2>5
<1>6. CASE GoogleFails(k) \/ CallUpdates(k) \/ CallDeletes(k)
  <2>1. /\ calls' = [calls EXCEPT ![k] = None]
        /\ \/ token' = token
           \/ token' = None
           \/ /\ token # None /\ calls[k] # None /\ token.id = calls[k].id
              /\ token' = [token EXCEPT !.access = calls[k].refresh, !.expiry = "far"]
    BY <1>6 DEF GoogleFails, CallUpdates, CallDeletes, Ends, SameRow
  <2>2. calls' \in [Callers -> Call \cup {None}] /\ calls'[k] = None
        /\ \A c \in Callers \ {k} : calls'[c] = calls[c]
    BY <2>1 DEF TokensTypeOK
  <2>3. token' \in TokenRow \cup {None}
        /\ (token' # None /\ token # None => token'.id = token.id)
        /\ (token' # None => token # None /\ token'.refresh = token.refresh
                             /\ token'.access \in {token.access} \cup kept)
    BY <1>1, <1>3, <2>1 DEF TokenRow, Call, Expiries, TokensKept
  <2>4. TokensTypeOK'
    BY <1>2, <2>2, <2>3 DEF TokensTypeOK
  <2>5. TokensKept'
    BY <1>2, <2>2, <2>3 DEF TokensKept
  <2> QED BY <2>4, <2>5
<1> QED BY <1>4, <1>5, <1>6

LEMMA NextTokensInv == ASSUME TokensInv, [TokensNext]_tokenVars PROVE TokensInv'
<1> USE DEF TokensInv
<1>1. CASE TokenAges
  <2>1. token \in TokenRow /\ token # None
    BY <1>1 DEF TokenAges, TokensTypeOK
  <2>2. token' \in TokenRow /\ token'.id = token.id /\ token'.refresh = token.refresh
        /\ token'.access = token.access
    BY <1>1, <2>1 DEF TokenAges, TokenRow, Expiries
  <2> QED BY <1>1, <2>1, <2>2 DEF TokenAges, TokensTypeOK, TokensKept
<1>2. ASSUME NEW g \in Grants, UserRevokes(g) PROVE TokensInv'
  BY <1>2, CardTokensInv DEF UserRevokes, TokensTypeOK
<1>3. CASE StatusRead \/ StatusShown
  <2>1. card' \in [busy : BOOLEAN, answer : BOOLEAN \cup {None}, connected : BOOLEAN]
    <3>1. CASE StatusRead
      <4>1. PICK b \in BOOLEAN : card' = [card EXCEPT !.answer = b]
        BY <3>1 DEF StatusRead
      <4> QED BY <4>1 DEF TokensTypeOK
    <3>2. CASE StatusShown
      BY <3>2 DEF StatusShown, TokensTypeOK
    <3> QED BY <1>3, <3>1, <3>2
  <2>2. UNCHANGED <<token, granted, created, revoked, calls, consent, kept>>
    BY <1>3 DEF StatusRead, StatusShown
  <2> QED BY <2>1, <2>2, CardTokensInv DEF TokensTypeOK
<1>4. CASE Disconnect
  BY <1>4 DEF Disconnect, TokensTypeOK, TokensKept
<1>5. CASE UNCHANGED tokenVars
  BY <1>5 DEF tokenVars, TokensTypeOK, TokensKept
<1> QED
  BY <1>1, <1>2, <1>3, <1>4, <1>5, ConsentTokensInv, StoreTokensInv, CallTokensInv
  DEF TokensNext

(* The row, the calls, the callback and the card keep their types.         *)
THEOREM TokensTypes == TokensSpec => []TokensTypeOK
<1>1. TokensSpec => []TokensInv
  BY InitTokensInv, NextTokensInv, PTL DEF TokensSpec
<1> QED BY <1>1, PTL DEF TokensInv

(* A disconnect is final: no refresh, callback or answer that was under    *)
(* way brings back a token stored before it.                               *)
THEOREM DisconnectIsFinal == TokensSpec => []DisconnectSticks
<1>1. TokensSpec => []TokensInv
  BY InitTokensInv, NextTokensInv, PTL DEF TokensSpec
<1>2. TokensInv => DisconnectSticks
  BY DEF TokensInv, TokensKept, DisconnectSticks
<1> QED BY <1>1, <1>2, PTL

-----------------------------------------------------------------------------
(* Retention.  Runs work with the periods of a settings row that may have  *)
(* been replaced since: each of them has been seen for its table.          *)
PoliciesSeen ==
    /\ \A t \in Tables : 0 \notin seen[t]
    /\ HeartbeatPeriod(stored) \in seen["activity"]
    /\ stored # Unset => \A t \in Tables : stored[t] \in seen[t] \cup {0}
    /\ \A run \in runs :
          IF run.job = "heartbeat" THEN run.policy["heartbeat"] \in seen["activity"]
          ELSE \A t \in Tables : run.policy[t] \in seen[t] \cup {0}

RetentionInv == RetentionTypeOK /\ PoliciesSeen

(* The stages and the policy of a run.                                     *)
LEMMA RunShapes ==
  ASSUME RetentionTypeOK, NEW run \in runs
  PROVE  /\ run \in Run
         /\ run.job = "heartbeat" => run.policy \in [{"heartbeat"} -> Periods]
         /\ run.job # "heartbeat" => run.policy \in Policy /\ run.at \in RunStages
                                     /\ run.job \in {"daily", "manual"}
         /\ run.job = "heartbeat" => run.at = "activity"
  BY DEF RetentionTypeOK, Run

LEMMA PeriodFacts ==
  ASSUME NEW policy \in Policy \cup {Unset}
  PROVE  /\ HeartbeatPeriod(policy) \in Periods \ {0}
         /\ policy \in Policy => Filled(policy) \in Policy
<1>1. Defaults["heartbeat"] \in Periods \ {0}
  BY RetentionAssumption DEF Policy, Fields
<1>2. policy # Unset => policy["heartbeat"] \in Periods
  BY DEF Policy, Fields
<1>3. HeartbeatPeriod(policy) \in Periods \ {0}
  BY <1>1, <1>2 DEF HeartbeatPeriod
<1> QED BY <1>3 DEF Filled, Policy

LEMMA InitRetentionInv == RetentionInit => RetentionInv
<1> SUFFICES ASSUME RetentionInit PROVE RetentionInv
  OBVIOUS
<1> USE RetentionAssumption DEF RetentionInit
<1>1. HeartbeatPeriod(stored) = Defaults["heartbeat"] /\ Defaults["heartbeat"] \in Periods \ {0}
  BY PeriodFacts DEF HeartbeatPeriod
<1>2. PoliciesSeen
  BY <1>1 DEF PoliciesSeen, Tables
<1>3. seen \in [Tables -> SUBSET Periods]
  BY <1>1
<1>4. /\ rows = {} /\ runs = {} /\ asked = {} /\ written = 0 /\ edits = 0 /\ editing = FALSE
      /\ due = {"daily", "heartbeat"} /\ stored = Unset /\ form = Defaults /\ fetched = Defaults
  OBVIOUS
<1>5. RetentionTypeOK
  <2>1. written \in 0 .. MaxRows /\ edits \in 0 .. MaxEdits
    BY <1>4
  <2>2. rows \subseteq StoredRow /\ runs \subseteq Run /\ asked \subseteq {"save", "fetch", "run"}
    BY <1>4
  <2>3. stored \in Policy \cup {Unset} /\ form \in Policy /\ fetched \in Policy
        /\ editing \in BOOLEAN /\ due \subseteq {"daily", "heartbeat"}
    BY <1>4
  <2> QED BY <1>3, <2>1, <2>2, <2>3 DEF RetentionTypeOK
<1> QED BY <1>2, <1>5 DEF RetentionInv

(* Steps of the form: the row, the runs and the history stay.              *)
LEMMA FormRetentionInv ==
  ASSUME RetentionInv, UNCHANGED <<rows, written, stored, runs, seen>>,
         due' \subseteq {"daily", "heartbeat"}, form' \in Policy, fetched' \in Policy,
         editing' \in BOOLEAN, asked' \subseteq {"save", "fetch", "run"}, edits' \in 0 .. MaxEdits
  PROVE  RetentionInv'
<1>1. RetentionTypeOK'
  BY DEF RetentionInv, RetentionTypeOK
<1>2. PoliciesSeen'
  BY DEF RetentionInv, PoliciesSeen, HeartbeatPeriod
<1> QED BY <1>1, <1>2 DEF RetentionInv

(* Steps of the tables and of runs: every run that is under way then was   *)
(* before, or carries the policy of one that was.                          *)
LEMMA RunsRetentionInv ==
  ASSUME RetentionInv, UNCHANGED <<stored, form, fetched, editing, seen>>,
         rows' \subseteq StoredRow, written' \in 0 .. MaxRows,
         due' \subseteq {"daily", "heartbeat"}, asked' \subseteq {"save", "fetch", "run"},
         edits' \in 0 .. MaxEdits,
         \A run \in runs' : run \in Run /\ \E r \in runs : run.job = r.job /\ run.policy = r.policy
  PROVE  RetentionInv'
<1>1. RetentionTypeOK'
  BY DEF RetentionInv, RetentionTypeOK
<1>2. PoliciesSeen'
  BY DEF RetentionInv, PoliciesSeen, HeartbeatPeriod
<1> QED BY <1>1, <1>2 DEF RetentionInv

(* A run starts, with what is stored at that moment.                       *)
LEMMA StartRetentionInv ==
  ASSUME RetentionInv, UNCHANGED <<rows, written, stored, form, fetched, editing, seen>>,
         due' \subseteq {"daily", "heartbeat"}, asked' \subseteq {"save", "fetch", "run"},
         edits' \in 0 .. MaxEdits,
         \/ \E job \in {"daily", "manual"} : CleanupStarts(job)
         \/ runs' = runs \cup {[job |-> "heartbeat", at |-> "activity",
                                policy |-> [f \in {"heartbeat"} |-> HeartbeatPeriod(stored)]]}
  PROVE  RetentionInv'
<1> USE DEF RetentionInv
<1>1. stored \in Policy \cup {Unset}
  BY DEF RetentionTypeOK
<1>2. \A run \in runs' :
         /\ run \in Run
         /\ \/ run \in runs
            \/ run.job = "heartbeat" /\ run.policy["heartbeat"] = HeartbeatPeriod(stored)
            \/ run.job # "heartbeat" /\ run.policy = stored /\ stored # Unset
  <2>1. HeartbeatPeriod(stored) \in Periods
    BY <1>1, PeriodFacts
  <2>2. \A run \in runs : run \in Run
    BY DEF RetentionTypeOK
  <2>3. CASE \E job \in {"daily", "manual"} : CleanupStarts(job)
    <3>1. PICK job \in {"daily", "manual"} : CleanupStarts(job)
      BY <2>3
    <3> QED BY <1>1, <2>2, <3>1 DEF CleanupStarts, Run, RunStages
  <2>4. CASE runs' = runs \cup {[job |-> "heartbeat", at |-> "activity",
                                 policy |-> [f \in {"heartbeat"} |-> HeartbeatPeriod(stored)]]}
    BY <2>1, <2>2, <2>4 DEF Run
  <2> QED BY <2>3, <2>4
<1>3. RetentionTypeOK'
  BY <1>2 DEF RetentionTypeOK
<1>4. PoliciesSeen'
  BY <1>2 DEF PoliciesSeen, HeartbeatPeriod
<1> QED BY <1>3, <1>4

LEMMA SavedRetentionInv == ASSUME RetentionInv, Saved PROVE RetentionInv'
<1> USE RetentionAssumption DEF RetentionInv
<1>1. form \in Policy /\ stored' = form
      /\ UNCHANGED <<rows, written, due, runs, form, fetched, editing, edits>>
      /\ asked' = asked \cup {"save"}
  BY DEF Saved, RetentionTypeOK
<1>2. HeartbeatPeriod(form) \in Periods \ {0} /\ \A t \in Tables : form[t] \in Periods
  BY <1>1, PeriodFacts DEF Policy, Fields
<1>3. /\ \A t \in Tables : /\ seen'[t] \subseteq Periods /\ 0 \notin seen'[t]
                           /\ form[t] \in seen'[t] \cup {0}
                           /\ seen[t] \ {0} \subseteq seen'[t]
      /\ HeartbeatPeriod(form) \in seen'["activity"]
      /\ seen' \in [Tables -> SUBSET Periods]
  <2>1. seen' = [t \in Tables |->
                  (seen[t] \cup {form[t]} \cup
                     (IF t = "activity" THEN {HeartbeatPeriod(form)} ELSE {})) \ {0}]
    BY DEF Saved
  <2>2. \A t \in Tables : seen[t] \subseteq Periods
    BY DEF RetentionTypeOK
  <2> QED BY <1>2, <2>1, <2>2 DEF Tables
<1>4. RetentionTypeOK'
  BY <1>1, <1>3 DEF RetentionTypeOK
<1>5. PoliciesSeen'
  <2>1. ASSUME NEW run \in runs
        PROVE  IF run.job = "heartbeat" THEN run.policy["heartbeat"] \in seen'["activity"]
               ELSE \A t \in Tables : run.policy[t] \in seen'[t] \cup {0}
    <3>1. "activity" \in Tables /\ 0 \notin seen["activity"]
      BY DEF PoliciesSeen, Tables
    <3> QED BY <1>3, <3>1 DEF PoliciesSeen
  <2> QED BY <1>1, <1>3, <2>1 DEF PoliciesSeen
<1> QED BY <1>4, <1>5

LEMMA NextRetentionInv ==
  ASSUME RetentionInv, [RetentionNext]_retentionVars
  PROVE  RetentionInv'
<1> USE RetentionAssumption DEF RetentionInv, pageState
<1>1. /\ rows \subseteq StoredRow /\ written \in 0 .. MaxRows
      /\ stored \in Policy \cup {Unset} /\ Defaults \in Policy
      /\ due \subseteq {"daily", "heartbeat"} /\ form \in Policy /\ fetched \in Policy
      /\ editing \in BOOLEAN /\ asked \subseteq {"save", "fetch", "run"} /\ edits \in 0 .. MaxEdits
      /\ \A run \in runs : run \in Run
  BY DEF RetentionTypeOK
<1>2. StoredPolicy \in Policy
  BY <1>1 DEF StoredPolicy
<1>3. CASE FetchAnswered \/ EditOpened \/ EditCancelled \/ SaveAnswered
           \/ \E f \in Fields, period \in Periods : FieldEdited(f, period)
  <2>1. Filled(StoredPolicy) \in Policy /\ Filled(fetched) \in Policy
    BY <1>1, <1>2, PeriodFacts
  <2>2. form' \in Policy
    BY <1>1, <1>3, <2>1
    DEF FetchAnswered, EditOpened, EditCancelled, SaveAnswered, FieldEdited, Policy
  <2>3. UNCHANGED <<rows, written, stored, due, runs, seen>>
        /\ fetched' \in {fetched, StoredPolicy} /\ asked' \subseteq asked
    BY <1>3
    DEF FetchAnswered, EditOpened, EditCancelled, SaveAnswered, FieldEdited
  <2>4. editing' \in BOOLEAN
    BY <1>1, <1>3
    DEF FetchAnswered, EditOpened, EditCancelled, SaveAnswered, FieldEdited
  <2>5. edits' \in 0 .. MaxEdits
    <3>1. edits' = edits \/ (edits < MaxEdits /\ edits' = edits + 1)
      BY <1>3 DEF FetchAnswered, EditOpened, EditCancelled, SaveAnswered, FieldEdited
    <3> QED BY <1>1, <3>1
  <2> QED BY <1>1, <1>2, <2>2, <2>3, <2>4, <2>5, FormRetentionInv
<1>4. CASE DailyCleanup \/ HeartbeatCleanup \/ RunRequested
  <2>1. /\ UNCHANGED <<rows, written, stored, form, fetched, editing, seen>>
        /\ due' \subseteq due /\ asked' \subseteq asked \cup {"fetch", "run"}
        /\ edits' \in 0 .. MaxEdits
    BY <1>1, <1>4 DEF DailyCleanup, HeartbeatCleanup, RunRequested
  <2>2. \/ CleanupStarts("daily") \/ CleanupStarts("manual")
        \/ runs' = runs \cup {[job |-> "heartbeat", at |-> "activity",
                               policy |-> [f \in {"heartbeat"} |-> HeartbeatPeriod(stored)]]}
    BY <1>4 DEF DailyCleanup, HeartbeatCleanup, RunRequested
  <2> QED BY <1>1, <2>1, <2>2, StartRetentionInv
<1>5. ASSUME NEW t \in Tables, RowWritten(t) PROVE RetentionInv'
  <2>1. rows' \subseteq StoredRow /\ written' \in 0 .. MaxRows
    <3> DEFINE new == [nr |-> written + 1, table |-> t, age |-> 0, acknowledged |-> FALSE]
    <3>1. rows' = rows \cup {new} /\ written' = written + 1 /\ written < MaxRows
      BY <1>5 DEF RowWritten
    <3>2. written + 1 \in 1 .. MaxRows /\ 0 \in 0 .. MaxAge
      BY <1>1, <3>1
    <3>3. new \in StoredRow
      BY <3>2 DEF StoredRow
    <3> HIDE DEF new
    <3> QED BY <1>1, <3>1, <3>2, <3>3
  <2> QED BY <1>1, <1>5, <2>1, RunsRetentionInv DEF RowWritten
<1>6. ASSUME NEW r \in rows, EventAcknowledged(r) PROVE RetentionInv'
  <2>1. rows' \subseteq StoredRow
    BY <1>1, <1>6 DEF EventAcknowledged, StoredRow
  <2> QED BY <1>1, <1>6, <2>1, RunsRetentionInv DEF EventAcknowledged
<1>7. CASE TimePasses
  <2>1. rows' \subseteq StoredRow
    BY <1>1, <1>7 DEF TimePasses, StoredRow
  <2> QED BY <1>1, <1>7, <2>1, RunsRetentionInv DEF TimePasses
<1>8. ASSUME NEW run \in runs, RunStep(run) \/ CleanupFails(run) PROVE RetentionInv'
  <2>1. rows' \subseteq rows /\ UNCHANGED <<written, stored, due, form, fetched, editing, seen>>
        /\ asked' \subseteq asked \cup {"fetch"} /\ edits' \in 0 .. MaxEdits
    BY <1>1, <1>8
    DEF RunStep, CleanupDeletes, CleanupEnds, HeartbeatCleanupDeletes, CleanupFails
  <2>2. \A r \in runs' : r \in Run /\ \E q \in runs : r.job = q.job /\ r.policy = q.policy
    <3>1. CASE CleanupDeletes(run)
      <4>1. run \in [job : {"daily", "manual"}, at : RunStages, policy : Policy]
        BY <1>1, <3>1 DEF CleanupDeletes, Run
      <4>2. After(run.at) \in RunStages
        BY <3>1, <4>1 DEF CleanupDeletes, After, RunStages
      <4> DEFINE next == [run EXCEPT !.at = After(run.at)]
      <4>3. next \in Run /\ next.job = run.job /\ next.policy = run.policy
        BY <4>1, <4>2 DEF Run
      <4>4. runs' \subseteq runs \cup {next}
        BY <3>1 DEF CleanupDeletes
      <4> QED BY <1>1, <4>3, <4>4
    <3>2. CASE runs' = runs \ {run}
      BY <1>1, <3>2
    <3> QED
      BY <1>8, <3>1, <3>2 DEF RunStep, CleanupEnds, HeartbeatCleanupDeletes, CleanupFails
  <2> QED BY <1>1, <2>1, <2>2, RunsRetentionInv
<1>9. CASE UNCHANGED retentionVars
  BY <1>1, <1>9, FormRetentionInv DEF retentionVars
<1> QED
  BY <1>3, <1>4, <1>5, <1>6, <1>7, <1>8, <1>9, SavedRetentionInv DEF RetentionNext

(* The rows, the runs, the settings and the form keep their types.         *)
THEOREM RetentionTypes == RetentionSpec => []RetentionTypeOK
<1>1. RetentionSpec => []RetentionInv
  BY InitRetentionInv, NextRetentionInv, PTL DEF RetentionSpec
<1> QED BY <1>1, PTL DEF RetentionInv

(* Which rows a step lets go.                                              *)
GoesExpired ==
    \A r \in rows :
        (\A s \in rows' : s.nr # r.nr) =>
           /\ \E period \in seen[r.table] : r.age > period
           /\ r.table = "audit" => r.acknowledged

LEMMA StepGoesExpired ==
  ASSUME RetentionInv, [RetentionNext]_retentionVars
  PROVE  GoesExpired
<1> USE DEF RetentionInv
<1>1. rows \subseteq StoredRow
  BY DEF RetentionTypeOK
<1>2. ASSUME rows \subseteq rows' PROVE GoesExpired
  BY <1>2 DEF GoesExpired
<1>3. CASE TimePasses
  <2>1. \A r \in rows : \E s \in rows' : s.nr = r.nr
    <3> TAKE r \in rows
    <3>1. [r EXCEPT !.age = IF @ < MaxAge THEN @ + 1 ELSE @] \in rows'
      BY <1>3 DEF TimePasses
    <3> QED BY <1>1, <3>1 DEF StoredRow
  <2> QED BY <2>1 DEF GoesExpired
<1>4. ASSUME NEW q \in rows, EventAcknowledged(q) PROVE GoesExpired
  <2>1. [q EXCEPT !.acknowledged = TRUE] \in rows' /\ [q EXCEPT !.acknowledged = TRUE].nr = q.nr
    BY <1>1, <1>4 DEF EventAcknowledged, StoredRow
  <2>2. \A r \in rows : r # q => r \in rows'
    BY <1>4 DEF EventAcknowledged
  <2> QED BY <2>1, <2>2 DEF GoesExpired
<1>5. ASSUME NEW run \in runs, CleanupDeletes(run) PROVE GoesExpired
  <2>1. run.at \in Tables /\ run.policy[run.at] \in seen[run.at] \cup {0}
    <3>1. run.job # "heartbeat" /\ run.at # "stamp"
      BY <1>5 DEF CleanupDeletes
    <3>2. run.at \in Tables
      BY <3>1, RunShapes DEF RunStages, Tables
    <3> QED BY <3>1, <3>2 DEF PoliciesSeen
  <2>2. \A r \in rows : r \notin rows' => Expired(r, run.at, run.policy[run.at])
    BY <1>5 DEF CleanupDeletes
  <2> QED BY <2>1, <2>2 DEF GoesExpired, Expired
<1>6. ASSUME NEW run \in runs, HeartbeatCleanupDeletes(run) PROVE GoesExpired
  <2>1. run.policy["heartbeat"] \in seen["activity"]
    BY <1>6 DEF HeartbeatCleanupDeletes, PoliciesSeen
  <2>2. \A r \in rows : r \notin rows' => Expired(r, "activity", run.policy["heartbeat"])
    BY <1>6 DEF HeartbeatCleanupDeletes
  <2> QED BY <2>1, <2>2 DEF GoesExpired, Expired
<1>7. ASSUME NEW run \in runs, CleanupEnds(run) \/ CleanupFails(run) PROVE rows' = rows
  BY <1>7 DEF CleanupEnds, CleanupFails
<1>8. ASSUME NEW t \in Tables, RowWritten(t) PROVE rows \subseteq rows'
  BY <1>8 DEF RowWritten
<1>9. CASE FetchAnswered \/ EditOpened \/ EditCancelled \/ SaveAnswered \/ Saved \/ RunRequested
           \/ DailyCleanup \/ HeartbeatCleanup \/ UNCHANGED retentionVars
           \/ \E f \in Fields, period \in Periods : FieldEdited(f, period)
  BY <1>2, <1>9
  DEF FetchAnswered, EditOpened, EditCancelled, SaveAnswered, Saved, RunRequested,
      DailyCleanup, HeartbeatCleanup, FieldEdited, retentionVars
<1> QED
  BY <1>2, <1>3, <1>4, <1>5, <1>6, <1>7, <1>8, <1>9 DEF RetentionNext, RunStep

(* A row goes only when it is older than a period once stored for its      *)
(* table, and an audit event only when acknowledged, whatever settings a   *)
(* run still works with.                                                   *)
THEOREM NothingGoesEarly == RetentionSpec => OnlyExpiredRowsGo
<1>1. RetentionSpec => []RetentionInv
  BY InitRetentionInv, NextRetentionInv, PTL DEF RetentionSpec
<1>2. RetentionInv /\ [RetentionNext]_retentionVars => [GoesExpired]_retentionVars
  BY StepGoesExpired
<1>3. RetentionSpec => [][GoesExpired]_retentionVars
  BY <1>1, <1>2, PTL DEF RetentionSpec
<1> QED BY <1>3 DEF OnlyExpiredRowsGo, GoesExpired

-----------------------------------------------------------------------------
(* MachineList: what its proved invariant does not yet say of the types.   *)
Rest ==
    /\ adopted \subseteq Machines /\ halfAdopted \subseteq Machines
    /\ configured \subseteq Machines
    /\ sockets \in [Machines -> 0 .. 2]
    /\ ws \in {"off", "connecting", "up", "lost"}
    /\ waiting \subseteq Machines
    /\ selected \in [id : Machines, entry : Entry] \cup {Nothing}
    /\ ops \in 0 .. MaxOps

ListInv == AInv /\ Rest

LEMMA ListInvTypes == ListInv => ListTypeOK
  BY DEF ListInv, Rest, AInv, Shapes, List, ListTypeOK

LEMMA InitListInv == ListInit => ListInv
<1> SUFFICES ASSUME ListInit PROVE Rest
  BY InitAInv DEF ListInv
<1>1. sockets \in [Machines -> 0 .. 2]
  BY DEF ListInit
<1>2. ops = 0 /\ waiting = {} /\ selected = Nothing /\ ws = "connecting"
      /\ adopted \subseteq Machines /\ halfAdopted = {} /\ configured \subseteq Machines
  BY DEF ListInit
<1> QED BY <1>1, <1>2, MachineListAssumption DEF Rest

(* Handling a list keeps the pending machines and the selection typed.     *)
LEMMA HandledTypes ==
  ASSUME ListInv, NEW list \in List, NEW archived, HandleMachinesList(list, archived)
  PROVE  waiting' \subseteq Machines /\ selected' \in [id : Machines, entry : Entry] \cup {Nothing}
<1> DEFINE visible == {m \in Machines : Listed(list, m, archived)}
<1>1. \A m \in visible : m \in Machines /\ list[m] \in Entry
  BY DEF Listed, List
<1>2. waiting' = {m \in Machines : list[m] # Absent /\ list[m].status = "pending"}
      /\ IF selected = Nothing
         THEN IF visible = {} THEN UNCHANGED selected
              ELSE \E m \in visible : selected' = [id |-> m, entry |-> list[m]]
         ELSE selected' = IF selected.id \in visible
                            THEN [selected EXCEPT !.entry = list[selected.id]] ELSE selected
  BY DEF HandleMachinesList
<1> HIDE DEF visible
<1>3. selected \in [id : Machines, entry : Entry] \cup {Nothing}
  BY DEF ListInv, Rest
<1>4. CASE selected = Nothing
  BY <1>1, <1>2, <1>3, <1>4
<1>5. CASE selected # Nothing /\ selected.id \in visible
  BY <1>1, <1>2, <1>3, <1>5
<1>6. CASE selected # Nothing /\ selected.id \notin visible
  BY <1>2, <1>3, <1>6
<1> QED BY <1>2, <1>4, <1>5, <1>6

LEMMA NextListInv == ASSUME ListInv, [ListNext]_listVars PROVE ListInv'
<1> USE MachineListAssumption DEF serverVars, clientVars
<1>1. AInv /\ AInv' /\ Rest
  BY NextAInv DEF ListInv
<1> SUFFICES Rest'
  BY <1>1 DEF ListInv
<1>2. Spend => ops' \in 0 .. MaxOps
  BY <1>1 DEF Spend, Rest
<1>3. ASSUME UNCHANGED <<adopted, halfAdopted, configured, sockets, ws, waiting, selected>>,
             ops' = ops \/ Spend
      PROVE  Rest'
  BY <1>1, <1>2, <1>3 DEF Rest
<1>4. ASSUME NEW w \in work, w.m \in Machines,
             ConnectReads(w) \/ RequestWrites(w) \/ RequestAnswers(w) \/ RequestFails(w)
      PROVE  Rest'
  <2>1. sockets' \in [Machines -> 0 .. 2]
    <3>1. CASE ConnectReads(w)
      <4>1. sockets[w.m] \in 0 .. 1
        BY <1>1, <1>4, <3>1 DEF ConnectReads, Rest
      <4>2. sockets' = [sockets EXCEPT ![w.m] = sockets[w.m] + 1] /\ sockets[w.m] + 1 \in 0 .. 2
        BY <3>1, <4>1 DEF ConnectReads
      <4> QED BY <1>1, <4>2 DEF Rest
    <3>2. CASE RequestWrites(w) \/ RequestAnswers(w) \/ RequestFails(w)
      BY <1>1, <3>2 DEF RequestWrites, RequestAnswers, RequestFails, Rest
    <3> QED BY <1>4, <3>1, <3>2
  <2>2. /\ adopted' \subseteq Machines /\ halfAdopted' \subseteq Machines
        /\ configured' \subseteq Machines
        /\ UNCHANGED <<ws, waiting, selected>> /\ ops' \in 0 .. MaxOps
    BY <1>1, <1>2, <1>4 DEF ConnectReads, RequestWrites, RequestAnswers, RequestFails, Rest
  <2> QED BY <1>1, <2>1, <2>2 DEF Rest
<1>5. ASSUME NEW w \in work,
             ConnectReads(w) \/ RequestWrites(w) \/ RequestAnswers(w) \/ RequestFails(w)
      PROVE  w.m \in Machines
  <2>1. w \in Work /\ w.op \in Kinds \cup {"connect"}
    BY <1>1, <1>5 DEF AInv, Shapes, ConnectReads, RequestWrites, RequestAnswers,
                       RequestFails
  <2> QED BY <2>1 DEF Work, Kinds
<1>6. ASSUME NEW w \in work,
             ConnectFinishes(w) \/ RequestChecks(w) \/ ListReads(w) \/ FetchFails(w)
      PROVE  Rest'
  BY <1>3, <1>6 DEF ConnectFinishes, RequestChecks, ListReads, FetchFails
<1>7. ASSUME NEW w \in work, ListArrives(w) \/ FetchArrives(w)
      PROVE  Rest'
  <2>1. w \in Work /\ w.op \in {"list", "fetch"} /\ w.at = "read"
    BY <1>1, <1>7 DEF AInv, Shapes, ListArrives, FetchArrives
  <2>2. w.list \in List
    BY <2>1 DEF Work, Kinds
  <2>3. \/ UNCHANGED <<waiting, selected>>
        \/ \E archived : HandleMachinesList(w.list, archived)
    BY <1>7 DEF ListArrives, FetchArrives
  <2>4. waiting' \subseteq Machines
        /\ selected' \in [id : Machines, entry : Entry] \cup {Nothing}
    <3>1. CASE UNCHANGED <<waiting, selected>>
      BY <1>1, <3>1 DEF Rest
    <3>2. CASE \E archived : HandleMachinesList(w.list, archived)
      BY <1>1, <2>2, <3>2, HandledTypes DEF ListInv
    <3> QED BY <2>3, <3>1, <3>2
  <2>5. UNCHANGED <<adopted, halfAdopted, configured, sockets, ws, ops>>
    BY <1>7 DEF ListArrives, FetchArrives
  <2> QED BY <1>1, <2>4, <2>5 DEF Rest
<1>8. ASSUME NEW m \in Machines, MachineDisconnects(m) PROVE Rest'
  <2>1. sockets[m] \in 1 .. 2
    BY <1>1, <1>8 DEF MachineDisconnects, Rest
  <2>2. sockets' \in [Machines -> 0 .. 2]
    BY <1>1, <1>8, <2>1 DEF MachineDisconnects, Rest
  <2>3. UNCHANGED <<adopted, halfAdopted, configured, ws, waiting, selected>> /\ ops' \in 0 .. MaxOps
    BY <1>2, <1>8 DEF MachineDisconnects
  <2> QED BY <1>1, <2>2, <2>3 DEF Rest
<1>9. ASSUME NEW m \in Machines,
             \/ MachineConnects(m) \/ Heartbeat(m) \/ Age(m)
             \/ \E kind \in Kinds : UserClicks(kind, m)
      PROVE  Rest'
  BY <1>3, <1>9 DEF MachineConnects, Heartbeat, Age, UserClicks
<1>10. ASSUME NEW m \in Machines, UserSelects(m) PROVE Rest'
  <2>1. shown[m] \in Entry
    BY <1>1, <1>10 DEF UserSelects, AInv, Shapes, List
  <2> QED BY <1>1, <1>10, <2>1 DEF UserSelects, Rest
<1>11. CASE SocketConnects \/ SocketLost \/ RefreshTick \/ UserShowsArchived \/ SignOut \/ SignIn
  <2>1. ws' \in {"off", "connecting", "up", "lost"}
    BY <1>1, <1>11 DEF SocketConnects, SocketLost, RefreshTick, UserShowsArchived, SignOut,
                       SignIn, Connecting, Rest
  <2>2. UNCHANGED <<adopted, halfAdopted, configured, sockets, waiting, selected>> /\ (ops' = ops \/ Spend)
    BY <1>11 DEF SocketConnects, SocketLost, RefreshTick, UserShowsArchived, SignOut, SignIn
  <2> QED BY <1>1, <1>2, <2>1, <2>2 DEF Rest
<1>12. CASE UNCHANGED listVars
  BY <1>3, <1>12 DEF listVars
<1> QED
  BY <1>4, <1>5, <1>6, <1>7, <1>8, <1>9, <1>10, <1>11, <1>12
  DEF ListNext, ServerStep, Arrival

-----------------------------------------------------------------------------
(* The parts side by side: each of them behaves as its own specification   *)
(* says, so the invariants of all of them hold together.                   *)
ServerInv ==
    /\ part \in Parts
    /\ ListInv
    /\ StateTypeOK /\ SettingsSurvive
    /\ RetentionInv
    /\ TokensInv

LEMMA StateInvStep ==
  ASSUME StateTypeOK, SettingsSurvive, [StateNext]_stateVars
  PROVE  StateTypeOK' /\ SettingsSurvive'
  BY NextStateTypes, SettingsStep

LEMMA InitServerInv == ServerInit => ServerInv
<1>1. StateInit => SettingsSurvive
  BY DEF StateInit, SettingsSurvive
<1> QED
  BY <1>1, InitListInv, InitStateTypes, InitRetentionInv, InitTokensInv
  DEF ServerInit, ServerInv

LEMMA PartsStep ==
  ASSUME [ServerNext]_allVars
  PROVE  /\ part' = part
         /\ [ListNext]_listVars /\ [StateNext]_stateVars
         /\ [RetentionNext]_retentionVars /\ [TokensNext]_tokenVars
<1>1. CASE UNCHANGED allVars
  BY <1>1 DEF allVars
<1>2. CASE ServerNext
  BY <1>2 DEF ServerNext, Moves
<1> QED BY <1>1, <1>2

LEMMA NextServerInv == ASSUME ServerInv, [ServerNext]_allVars PROVE ServerInv'
  BY PartsStep, NextListInv, StateInvStep, NextRetentionInv, NextTokensInv DEF ServerInv

(* The variables of the part that moves are well typed.                    *)
THEOREM ServerTypes == ServerSpec => []ServerTypeOK
<1>1. ServerSpec => []ServerInv
  BY InitServerInv, NextServerInv, PTL DEF ServerSpec
<1>2. ServerInv => ServerTypeOK
  BY ListInvTypes DEF ServerInv, ServerTypeOK, Parts, RetentionInv, TokensInv
<1> QED BY <1>1, <1>2, PTL

(* The parts keep what each of them promises also side by side: only       *)
(* adoption activates, settings survive, a disconnect is final, and no row *)
(* goes early.                                                             *)
THEOREM ServerPartsAreSafe ==
    ServerSpec => /\ [](ActiveMeansAdopted /\ SettingsSurvive /\ DisconnectSticks)
                  /\ OnlyExpiredRowsGo
<1>1. ServerSpec => []ServerInv
  BY InitServerInv, NextServerInv, PTL DEF ServerSpec
<1>2. ServerInv => ActiveMeansAdopted /\ SettingsSurvive /\ DisconnectSticks
  BY DEF ServerInv, ListInv, AInv, RowsKnown, Settled, ActiveMeansAdopted, TokensInv,
         TokensKept, DisconnectSticks
<1>3. ServerInv /\ [ServerNext]_allVars => [GoesExpired]_retentionVars
  BY PartsStep, StepGoesExpired DEF ServerInv
<1>4. ServerSpec => [][GoesExpired]_retentionVars
  BY <1>1, <1>3, PTL DEF ServerSpec
<1> QED BY <1>1, <1>2, <1>4, PTL DEF OnlyExpiredRowsGo, GoesExpired
=============================================================================
