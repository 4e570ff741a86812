---------------------------- MODULE MachineState ----------------------------
(***************************************************************************)
(* The machine_state row of one machine and the status computed from it.   *)
(* Three writers share the row, each reading before it writes: the         *)
(* machine:heartbeat handler (socketHandler.ts), the ping monitor          *)
(* (jobs/pingMonitor.ts), and adopt and the settings route, which store    *)
(* the settings.  Status: getConnectionStatus and getStatusText            *)
(* (utils/statusHelper.ts), broadcastMachineList, routes/web/status.ts.    *)
(***************************************************************************)
EXTENDS Naturals

CONSTANTS MaxSaves,   \* bound: times the settings are stored
          MaxFlips    \* bound: times the machine or its service starts or stops

ASSUME MachineStateAssumption == MaxSaves \in Nat /\ MaxFlips \in Nat

VARIABLES
    power,      \* the computer: "running" (with the service), "idle" (without), "off"
    status,     \* Machine.status
    silence,    \* age of Machine.lastSeen
    address,    \* an IP address or a hostname is known
    state,      \* the machine_state row, or NoState
    beat,       \* the heartbeat handler in progress
    probe,      \* the ping monitor
    saved,      \* history: the settings stored last
    flips

stateVars == <<power, status, silence, address, state, beat, probe, saved, flips>>

Silences == {"fresh", "shaky", "quiet", "long"}   \* < 10 s, < 30 s, < 120 s, more or never
Settings == 0 .. MaxSaves   \* versions; 0 stands for null and for "{}"
Health == {"report", "reachable", "unreachable"}
NoState == [health |-> "none", settings |-> 0]
States == [health : Health \cup {"null"}, settings : Settings] \cup {NoState}
Idle == [at |-> "idle"]

StateTypeOK ==
    /\ power \in {"running", "idle", "off"}
    /\ status \in {"pending", "active"}
    /\ silence \in Silences
    /\ address \in BOOLEAN
    /\ state \in States
    /\ beat \in {Idle} \cup [at : {"status"}, status : {"pending", "active"}]
                  \cup [at : {"state", "seen"}, settings : Settings]
    /\ probe \in {Idle} \cup [at : {"ping"}] \cup [at : {"read", "write"}, alive : BOOLEAN]
    /\ saved \in 0 .. MaxSaves
    /\ flips \in 0 .. MaxFlips

(* A machine that was registered, with or without a hostname, before its   *)
(* service has connected for the first time.                               *)
StateInit ==
    /\ power = "running"
    /\ status = "pending"
    /\ silence = "long"
    /\ address \in BOOLEAN
    /\ state = NoState
    /\ beat = Idle
    /\ probe = Idle
    /\ saved = 0
    /\ flips = 0

-----------------------------------------------------------------------------
PowerChanges ==
    /\ flips < MaxFlips
    /\ flips' = flips + 1
    /\ power' \in {"running", "idle", "off"} \ {power}
    /\ UNCHANGED <<status, silence, address, state, beat, probe, saved>>

Older(s) == CASE s = "fresh" -> "shaky" [] s = "shaky" -> "quiet" [] OTHER -> "long"

(* A running service reports at least every ten seconds, or its silence    *)
(* grows as anyone's.                                                      *)
SilenceGrows ==
    /\ silence # "long"
    /\ silence' = Older(silence)
    /\ UNCHANGED <<power, status, address, state, beat, probe, saved, flips>>

(* The connect handler stores the address (MachineList: ConnectFinishes);  *)
(* the first heartbeat follows it.                                         *)
BeatArrives ==
    /\ power = "running" /\ beat = Idle
    /\ address' = TRUE
    /\ beat' = [at |-> "status", status |-> status]
    /\ UNCHANGED <<power, status, silence, state, probe, saved, flips>>

(* Not active: only lastSeen of a pending machine is updated.  Active: the *)
(* settings are read "to preserve" them.                                   *)
BeatReads ==
    /\ beat.at = "status"
    /\ IF beat.status = "active"
         THEN /\ beat' = [at |-> "state",
                          settings |-> IF state = NoState THEN 0 ELSE state.settings]
              /\ UNCHANGED silence
         ELSE beat' = Idle /\ silence' = "fresh"
    /\ UNCHANGED <<power, status, address, state, probe, saved, flips>>

(* Mutant of BeatUpserts: the settings that were read are written back.    *)
BeatUpsertsSettings ==
    /\ beat.at = "state"
    /\ state' = [health |-> "report", settings |-> beat.settings]
    /\ beat' = [beat EXCEPT !.at = "seen"]
    /\ UNCHANGED <<power, status, silence, address, probe, saved, flips>>

(* The upsert: what was read is used only if there is still no row.        *)
BeatUpserts ==
    /\ beat.at = "state"
    /\ state' = [health |-> "report",
                 settings |-> IF state = NoState THEN beat.settings ELSE state.settings]
    /\ beat' = [beat EXCEPT !.at = "seen"]
    /\ UNCHANGED <<power, status, silence, address, probe, saved, flips>>

BeatUpdatesLastSeen ==
    /\ beat.at = "seen"
    /\ silence' = "fresh"
    /\ beat' = Idle
    /\ UNCHANGED <<power, status, address, state, probe, saved, flips>>

-----------------------------------------------------------------------------
(* checkOfflineMachines: machines silent for two minutes, with an address. *)
ProbeStarts ==
    /\ probe = Idle
    /\ silence = "long" /\ address
    /\ probe' = [at |-> "ping"]
    /\ UNCHANGED <<power, status, silence, address, state, beat, saved, flips>>

(* The ping: seconds may pass.  It may also throw, which ends the attempt. *)
ProbeAnswers ==
    /\ probe.at = "ping"
    /\ probe' = [at |-> "read", alive |-> power # "off"]
    /\ UNCHANGED <<power, status, silence, address, state, beat, saved, flips>>

(* prevState is read; its settings are used only to create a row, and then *)
(* there are none: "{}".                                                   *)
ProbeReads ==
    /\ probe.at = "read"
    /\ probe' = [probe EXCEPT !.at = "write"]
    /\ UNCHANGED <<power, status, silence, address, state, beat, saved, flips>>

(* Mutant of ProbeUpserts: only a successful ping is stored.               *)
ProbeUpsertsAliveOnly ==
    /\ probe.at = "write"
    /\ state' = IF ~probe.alive THEN state
                ELSE [health |-> "reachable",
                      settings |-> IF state = NoState THEN 0 ELSE state.settings]
    /\ probe' = Idle
    /\ UNCHANGED <<power, status, silence, address, beat, saved, flips>>

(* The row is written although a heartbeat may have come in between.       *)
ProbeUpserts ==
    /\ probe.at = "write"
    /\ state' = [health |-> IF probe.alive THEN "reachable" ELSE "unreachable",
                 settings |-> IF state = NoState THEN 0 ELSE state.settings]
    /\ probe' = Idle
    /\ UNCHANGED <<power, status, silence, address, beat, saved, flips>>

-----------------------------------------------------------------------------
(* adopt activates the machine, then stores its settings; the settings     *)
(* route stores them again.                                                *)
Adopt ==
    /\ status = "pending"
    /\ status' = "active"
    /\ UNCHANGED <<power, silence, address, state, beat, probe, saved, flips>>

StoreSettings ==
    /\ status = "active"
    /\ saved < MaxSaves
    /\ saved' = saved + 1
    /\ state' = [health |-> IF state = NoState THEN "null" ELSE state.health,
                 settings |-> saved + 1]
    /\ UNCHANGED <<power, status, silence, address, beat, probe, flips>>

-----------------------------------------------------------------------------
(* getConnectionStatus, and the list's "reachable".                        *)
ConnectionStatus(s) ==
    CASE s = "fresh" -> "online" [] s = "shaky" -> "unstable" [] OTHER -> "offline"

ListedStatus ==
    IF ConnectionStatus(silence) = "offline" /\ state.health = "reachable"
    THEN "reachable" ELSE ConnectionStatus(silence)

(* The branches of getStatusText, by the connectionStatus it is given.     *)
StatusText(connectionStatus) ==
    CASE connectionStatus = "online" -> "Connected"
      [] connectionStatus = "reachable" -> "Machine reachable"
      [] connectionStatus = "unstable" -> "Connection lost"
      [] OTHER -> "Offline"

ListedText == StatusText(ListedStatus)

(* GET /status/:machineId: pings are ignored, and the text is made without *)
(* a connectionStatus.                                                     *)
StatusAnswer == [status |-> ConnectionStatus(silence), text |-> StatusText("none")]

StateNext ==
    \/ PowerChanges \/ SilenceGrows
    \/ BeatArrives \/ BeatReads \/ BeatUpserts \/ BeatUpdatesLastSeen
    \/ ProbeStarts \/ ProbeAnswers \/ ProbeReads \/ ProbeUpserts
    \/ Adopt \/ StoreSettings

(* Time passes; the monitor runs every five minutes and its awaits return; *)
(* a running service keeps sending heartbeats, more often than its silence *)
(* can grow.                                                               *)
StateFair(k) ==
    \/ k = 1 /\ SilenceGrows /\ power # "running"
    \/ k = 2 /\ ProbeStarts
    \/ k = 3 /\ (ProbeAnswers \/ ProbeReads \/ ProbeUpserts)
    \/ k = 4 /\ BeatReads
    \/ k = 5 /\ (BeatUpserts \/ BeatUpdatesLastSeen)

StateFairness == (\A k \in 1 .. 5 : WF_stateVars(StateFair(k)))

StateSpec == StateInit /\ [][StateNext]_stateVars /\ StateFairness

(* The settings stored last are never lost to a heartbeat or a ping that   *)
(* read the row before they were stored.                                   *)
SettingsSurvive == saved # 0 => state.settings = saved

(* A computer that stays off is shown as offline in the end, and one that  *)
(* is on without the service as reachable (if its address is known),       *)
(* whatever probe or heartbeat was under way when it changed; the status   *)
(* route calls both offline.                                               *)
StatusSettles ==
    /\ <>[](power = "off") =>
         <>[](/\ ListedStatus = "offline" /\ ListedText = "Offline"
              /\ StatusAnswer = [status |-> "offline", text |-> "Offline"])
    /\ <>[](power = "idle" /\ address) =>
         <>[](/\ ListedStatus = "reachable" /\ ListedText = "Machine reachable"
              /\ StatusAnswer = [status |-> "offline", text |-> "Offline"])

=============================================================================
