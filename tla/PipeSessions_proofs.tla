------------------------ MODULE PipeSessions_proofs -------------------------
(* Proofs, for any number of agents and sessions, of the safety properties *)
(* of PipeSessions.                                                        *)
EXTENDS PipeSessions, TLAPS

LEMMA InitType == Init => TypeOK
<1> USE NoAgentAssumption DEF Init, TypeOK
<1>1. Init => acl \in [Agents -> Acls] /\ instance \in Acls
  BY DEF Acls
<1>2. Init => hpc \in [Agents -> HandlerStates]
  BY DEF HandlerStates
<1>3. Init => sessions \in [Sessions -> Agents \cup {NoAgent}]
  OBVIOUS
<1>4. Init => apc \in [Agents -> {"idle", "connecting", "open", "sent", "failed"}]
             /\ frames \in [Agents -> 0..3]
  OBVIOUS
<1>5. Init => lpc = "create" /\ srv = "running" /\ worldAccess \in BOOLEAN /\ fallback \in BOOLEAN
             /\ disposed \subseteq Agents /\ raised \subseteq Agents
  OBVIOUS
<1> QED BY <1>1, <1>2, <1>3, <1>4, <1>5

LEMMA NextType == ASSUME TypeOK, [Next]_vars PROVE TypeOK'
<1> USE SessionAssumption, NoAgentAssumption
    DEF TypeOK, Acls, HandlerStates, Reading, Goto, listener, agent, server
<1>1. CASE Listener
  BY <1>1 DEF Listener, CreateWorld, WorldDenied, CreateDefault, ListenFails, DelayOver,
     ListenerStops
<1>2. ASSUME NEW a \in Agents,
             Launch(a) \/ Connect(a) \/ AgentWrite(a) \/ AgentFails(a)
      PROVE  TypeOK'
  <2>1. CASE Launch(a)      BY <2>1 DEF Launch
  <2>2. CASE Connect(a)     BY <2>2 DEF Connect
  <2>3. CASE AgentWrite(a)  BY <2>3 DEF AgentWrite
  <2>4. CASE AgentFails(a)  BY <2>4 DEF AgentFails
  <2> QED BY <1>2, <2>1, <2>2, <2>3, <2>4
<1>3. ASSUME NEW a \in Agents, HandleClient(a) PROVE TypeOK'
  BY <1>3 DEF HandleClient, ReadId, ReadIdFails, Register, ReadLength, ReadBody, Raise,
     ReadEnds, ClosePipe, Unregister
<1>4. CASE Stop \/ CloseSessions \/ ClearSessions
  BY <1>4 DEF Stop, CloseSessions, ClearSessions
<1>5. CASE UNCHANGED vars
  BY <1>5 DEF vars
<1> QED BY <1>1, <1>2, <1>3, <1>4, <1>5 DEF Next

(* Every variable of the pipe server keeps its type.                       *)
THEOREM TypeCorrect == Spec => []TypeOK
  BY InitType, NextType, PTL DEF Spec

-----------------------------------------------------------------------------
(* Registrations.                                                          *)

(* A connection has no handler before it is made.                          *)
NotYetHandled == \A a \in Agents : apc[a] \in {"idle", "connecting"} => hpc[a] = "none"

LEMMA NextNotYet == ASSUME TypeOK, NotYetHandled, [Next]_vars PROVE NotYetHandled'
<1> USE DEF TypeOK, NotYetHandled, Goto, listener, agent, server
<1>1. CASE Listener
  BY <1>1 DEF Listener, CreateWorld, WorldDenied, CreateDefault, ListenFails, DelayOver,
     ListenerStops
<1>2. ASSUME NEW a \in Agents,
             Launch(a) \/ Connect(a) \/ AgentWrite(a) \/ AgentFails(a)
      PROVE  NotYetHandled'
  BY <1>2 DEF Launch, Connect, AgentWrite, AgentFails
<1>3. ASSUME NEW a \in Agents, HandleClient(a) PROVE NotYetHandled'
  BY <1>3 DEF HandleClient, ReadId, ReadIdFails, Register, ReadLength, ReadBody, Raise,
     ReadEnds, ClosePipe, Unregister, Reading
<1>4. CASE Stop \/ CloseSessions \/ ClearSessions
  BY <1>4 DEF Stop, CloseSessions, ClearSessions
<1>5. CASE UNCHANGED vars
  BY <1>5 DEF vars
<1> QED BY <1>1, <1>2, <1>3, <1>4, <1>5 DEF Next

LEMMA NextStale ==
  ASSUME TypeOK, NotYetHandled, NoStaleRegistration, [Next]_vars PROVE NoStaleRegistration'
<1> USE SessionAssumption, NoAgentAssumption
    DEF TypeOK, NoStaleRegistration, Reading, Goto, listener, agent, server
<1>1. CASE Listener
  BY <1>1 DEF Listener, CreateWorld, WorldDenied, CreateDefault, ListenFails, DelayOver,
     ListenerStops
<1>2. ASSUME NEW a \in Agents,
             Launch(a) \/ Connect(a) \/ AgentWrite(a) \/ AgentFails(a)
      PROVE  NoStaleRegistration'
  <2>1. CASE Connect(a)
    BY <2>1 DEF Connect, NotYetHandled
  <2>2. CASE Launch(a) \/ AgentWrite(a) \/ AgentFails(a)
    BY <2>2 DEF Launch, AgentWrite, AgentFails
  <2> QED BY <1>2, <2>1, <2>2
<1>3. ASSUME NEW a \in Agents, HandleClient(a) PROVE NoStaleRegistration'
  <2>1. CASE ReadId(a) \/ ReadIdFails(a)
    BY <2>1 DEF ReadId, ReadIdFails
  <2>2. CASE Register(a)
    BY <2>2 DEF Register
  <2>3. CASE ReadLength(a) \/ ReadBody(a) \/ Raise(a) \/ ReadEnds(a) \/ ClosePipe(a)
    BY <2>3 DEF ReadLength, ReadBody, Raise, ReadEnds, ClosePipe
  <2>4. CASE Unregister(a)
    BY <2>4 DEF Unregister
  <2> QED BY <1>3, <2>1, <2>2, <2>3, <2>4 DEF HandleClient
<1>4. CASE Stop \/ CloseSessions \/ ClearSessions
  BY <1>4 DEF Stop, CloseSessions, ClearSessions
<1>5. CASE UNCHANGED vars
  BY <1>5 DEF vars
<1> QED BY <1>1, <1>2, <1>3, <1>4, <1>5 DEF Next

(* A registered session always belongs to a handler that will unregister   *)
(* it, however duplicates and the stop interleave.                         *)
THEOREM RegistrationsAreLive == Spec => []NoStaleRegistration
<1>1. Init => NoStaleRegistration /\ NotYetHandled
  BY DEF Init, NoStaleRegistration, NotYetHandled
<1> QED BY <1>1, NextNotYet, NextStale, TypeCorrect, PTL DEF Spec

-----------------------------------------------------------------------------
(* Access rules: the two flags exclude each other, and every instance, past*)
(* or waiting, carries the rules of the flag that is set.                  *)
AclInv ==
    /\ ~(worldAccess /\ fallback)
    /\ instance = "world" => worldAccess
    /\ instance = "default" => fallback
    /\ lpc = "waiting" => instance # "none"
    /\ \A a \in Agents : /\ acl[a] = "world" => worldAccess
                         /\ acl[a] = "default" => fallback

LEMMA NextAcl == ASSUME TypeOK, AclInv, [Next]_vars PROVE AclInv'
<1> USE DEF TypeOK, Acls, AclInv, listener, agent, server
<1>1. CASE Listener
  BY <1>1 DEF Listener, CreateWorld, WorldDenied, CreateDefault, ListenFails, DelayOver,
     ListenerStops
<1>2. ASSUME NEW a \in Agents, Connect(a) PROVE AclInv'
  BY <1>2 DEF Connect
<1>3. ASSUME NEW a \in Agents,
             Launch(a) \/ AgentWrite(a) \/ AgentFails(a) \/ HandleClient(a)
      PROVE  AclInv'
  BY <1>3 DEF Launch, AgentWrite, AgentFails, HandleClient, ReadId, ReadIdFails, Register,
     ReadLength, ReadBody, Raise, ReadEnds, ClosePipe, Unregister
<1>4. CASE Stop \/ CloseSessions \/ ClearSessions
  BY <1>4 DEF Stop, CloseSessions, ClearSessions
<1>5. CASE UNCHANGED vars
  BY <1>5 DEF vars
<1> QED BY <1>1, <1>2, <1>3, <1>4, <1>5 DEF Next

(* The listener never mixes access rules among the pipe's instances.       *)
THEOREM SecurityIsUniform == Spec => []NoMixedSecurity
<1>1. Init => AclInv
  BY DEF Init, AclInv
<1>2. TypeOK /\ AclInv => NoMixedSecurity
  BY DEF TypeOK, Acls, AclInv, NoMixedSecurity
<1> QED BY <1>1, <1>2, NextAcl, TypeCorrect, PTL DEF Spec
=============================================================================
