---------------------------- MODULE PipeSessions ----------------------------
(***************************************************************************)
(* The named pipe between the service and its one-shot agents              *)
(* (NamedPipeServer, IpcService).  An agent process is launched for every  *)
(* activity poll and every screenshot; it connects, writes its Windows     *)
(* session id, the length and the body of one message, and exits.  The     *)
(* server handles every connection in a task of its own and registers its  *)
(* pipe under the session id - of which two agents of one user have the    *)
(* same.                                                                   *)
(***************************************************************************)
EXTENDS Naturals, FiniteSets

CONSTANTS
    Agents,     \* the agent processes of a behaviour, one message each
    Sessions,   \* Windows session ids
    SessionOf,  \* [Agents -> Sessions]
    Zero,       \* the session id 0, which an agent also sends if it cannot tell
    Oversized,  \* agents whose message exceeds the server's 10 MB limit
    NoAgent     \* an unregistered session, a value outside Agents

ASSUME SessionAssumption == SessionOf \in [Agents -> Sessions]
ASSUME NoAgentAssumption == NoAgent \notin Agents
ASSUME OversizedAssumption == Oversized \subseteq Agents

VARIABLES
    lpc,          \* ListenForConnectionsAsync
    worldAccess,  \* worldAccessEstablished
    fallback,     \* fallbackToDefaultSecurity
    instance,     \* access rules of the instance waiting for a client
    acl,          \* [Agents -> access rules of the instance it connected to]
    apc,          \* [Agents -> IpcService.SendMessageAsync]
    frames,       \* [Agents -> parts written: id, length, body]
    hpc,          \* [Agents -> HandleClientAsync for its connection]
    disposed,     \* connections whose server end is closed
    sessions,     \* _sessions
    raised,       \* connections whose MessageReceived was raised
    srv           \* StopAsync

listener == <<lpc, worldAccess, fallback, instance>>
agent    == <<apc, frames>>
server   == <<hpc, disposed, sessions, raised>>
vars     == <<listener, acl, agent, server, srv>>

Acls == {"none", "world", "default"}
Reading == {"length", "body", "raise", "next"}
HandlerStates == {"none", "readId", "register", "ending", "finally", "done"} \cup Reading

cancelled == srv # "running"

Init ==
    /\ lpc = "create" /\ worldAccess = FALSE /\ fallback = FALSE /\ instance = "none"
    /\ acl = [a \in Agents |-> "none"]
    /\ apc = [a \in Agents |-> "idle"]
    /\ frames = [a \in Agents |-> 0]
    /\ hpc = [a \in Agents |-> "none"]
    /\ disposed = {} /\ raised = {}
    /\ sessions = [s \in Sessions |-> NoAgent]
    /\ srv = "running"

-----------------------------------------------------------------------------
(* The listener creates one instance at a time, and keeps to the access    *)
(* rules that worked first.                                                *)

CreateWorld ==
    /\ lpc = "create" /\ ~cancelled /\ ~fallback
    /\ instance' = "world" /\ worldAccess' = TRUE /\ lpc' = "waiting"
    /\ UNCHANGED <<fallback, acl, agent, server, srv>>

(* Mutant of WorldDenied: falls back although instances with world access  *)
(* exist.                                                                  *)
WorldDeniedSwitches ==
    /\ lpc = "create" /\ ~cancelled /\ ~fallback
    /\ fallback' = TRUE
    /\ UNCHANGED <<lpc, worldAccess, instance, acl, agent, server, srv>>

WorldDenied ==
    /\ lpc = "create" /\ ~cancelled /\ ~fallback
    /\ IF worldAccess
       THEN lpc' = "delay" /\ UNCHANGED fallback
       ELSE fallback' = TRUE /\ UNCHANGED lpc
    /\ UNCHANGED <<worldAccess, instance, acl, agent, server, srv>>

CreateDefault ==
    /\ lpc = "create" /\ ~cancelled /\ fallback
    /\ instance' = "default" /\ lpc' = "waiting"
    /\ UNCHANGED <<worldAccess, fallback, acl, agent, server, srv>>

(* Any other failure to create an instance or to wait on it.               *)
ListenFails ==
    /\ lpc \in {"create", "waiting"}
    /\ instance' = "none" /\ lpc' = "delay"
    /\ UNCHANGED <<worldAccess, fallback, acl, agent, server, srv>>

DelayOver ==
    /\ lpc = "delay" /\ ~cancelled
    /\ lpc' = "create"
    /\ UNCHANGED <<worldAccess, fallback, instance, acl, agent, server, srv>>

ListenerStops ==
    /\ cancelled /\ lpc # "stopped"
    /\ lpc' = "stopped" /\ instance' = "none"
    /\ UNCHANGED <<worldAccess, fallback, acl, agent, server, srv>>

-----------------------------------------------------------------------------
(* The agent.                                                              *)

Launch(a) ==
    /\ apc[a] = "idle"
    /\ apc' = [apc EXCEPT ![a] = "connecting"]
    /\ UNCHANGED <<listener, acl, frames, server, srv>>

(* WaitForConnectionAsync returns; the handler starts and is not awaited.  *)
Connect(a) ==
    /\ apc[a] = "connecting" /\ lpc = "waiting"
    /\ apc' = [apc EXCEPT ![a] = "open"]
    /\ acl' = [acl EXCEPT ![a] = instance]
    /\ hpc' = [hpc EXCEPT ![a] = "readId"]
    /\ lpc' = "create" /\ instance' = "none"
    /\ UNCHANGED <<worldAccess, fallback, frames, disposed, sessions, raised, srv>>

(* A write completes while the server end is open; the third is the last.  *)
AgentWrite(a) ==
    /\ apc[a] = "open" /\ a \notin disposed /\ frames[a] < 3
    /\ frames' = [frames EXCEPT ![a] = @ + 1]
    /\ apc' = [apc EXCEPT ![a] = IF frames[a] = 2 THEN "sent" ELSE "open"]
    /\ UNCHANGED <<listener, acl, server, srv>>

(* The connect times out or is refused, a write meets a closed pipe, or    *)
(* the process dies.  Nothing is retried.                                  *)
AgentFails(a) ==
    /\ apc[a] \in {"connecting", "open"}
    /\ apc' = [apc EXCEPT ![a] = "failed"]
    /\ UNCHANGED <<listener, acl, frames, server, srv>>

ClientClosed(a) == apc[a] \in {"sent", "failed"}

-----------------------------------------------------------------------------
(* HandleClientAsync.                                                      *)

Goto(a, state) == hpc' = [hpc EXCEPT ![a] = state]

ReadId(a) ==
    /\ hpc[a] = "readId" /\ frames[a] >= 1
    /\ Goto(a, "register")
    /\ UNCHANGED <<listener, acl, agent, disposed, sessions, raised, srv>>

(* No id arrived: sessionId is still 0, so the finally block does nothing. *)
ReadIdFails(a) ==
    /\ hpc[a] = "readId"
    /\ cancelled \/ (ClientClosed(a) /\ frames[a] = 0)
    /\ disposed' = disposed \cup {a}
    /\ Goto(a, "done")
    /\ UNCHANGED <<listener, acl, agent, sessions, raised, srv>>

(* TryAdd, or "already registered" and out.                                *)
Register(a) ==
    /\ hpc[a] = "register"
    /\ IF sessions[SessionOf[a]] = NoAgent
       THEN /\ sessions' = [sessions EXCEPT ![SessionOf[a]] = a]
            /\ Goto(a, "length")
       ELSE /\ Goto(a, "ending")
            /\ UNCHANGED sessions
    /\ UNCHANGED <<listener, acl, agent, disposed, raised, srv>>

ReadLength(a) ==
    /\ hpc[a] = "length" /\ frames[a] >= 2
    /\ Goto(a, IF a \in Oversized THEN "ending" ELSE "body")
    /\ UNCHANGED <<listener, acl, agent, disposed, sessions, raised, srv>>

ReadBody(a) ==
    /\ hpc[a] = "body" /\ frames[a] = 3
    /\ Goto(a, "raise")
    /\ UNCHANGED <<listener, acl, agent, disposed, sessions, raised, srv>>

Raise(a) ==
    /\ hpc[a] = "raise"
    /\ raised' = raised \cup {a}
    /\ Goto(a, "next")
    /\ UNCHANGED <<listener, acl, agent, disposed, sessions, srv>>

(* Mutant of ReadEnds: gives up as soon as the client has closed, although *)
(* the pipe still holds what it wrote.                                     *)
ReadEndsOnClose(a) ==
    /\ hpc[a] \in {"length", "body", "next"}
    /\ cancelled \/ a \in disposed \/ ClientClosed(a)
    /\ Goto(a, "ending")
    /\ UNCHANGED <<listener, acl, agent, disposed, sessions, raised, srv>>

(* Mutant of ReadEnds: a client that closed early is not noticed.          *)
ReadEndsNever(a) ==
    /\ hpc[a] \in {"length", "body", "next"}
    /\ cancelled \/ a \in disposed
    /\ Goto(a, "ending")
    /\ UNCHANGED <<listener, acl, agent, disposed, sessions, raised, srv>>

(* Cancelled, closed by StopAsync, or the client is gone and the pipe does *)
(* not hold the part awaited.                                              *)
ReadEnds(a) ==
    /\ hpc[a] \in {"length", "body", "next"}
    /\ \/ cancelled \/ a \in disposed
       \/ ClientClosed(a) /\ frames[a] < (CASE hpc[a] = "length" -> 2
                                            [] hpc[a] = "body"   -> 3
                                            [] hpc[a] = "next"   -> 4)
    /\ Goto(a, "ending")
    /\ UNCHANGED <<listener, acl, agent, disposed, sessions, raised, srv>>

(* The using block closes the pipe ...                                     *)
ClosePipe(a) ==
    /\ hpc[a] = "ending"
    /\ disposed' = disposed \cup {a}
    /\ Goto(a, "finally")
    /\ UNCHANGED <<listener, acl, agent, sessions, raised, srv>>

(* Mutant of Unregister: removes nothing.                                  *)
UnregisterNothing(a) ==
    /\ hpc[a] = "finally"
    /\ Goto(a, "done")
    /\ UNCHANGED <<listener, acl, agent, disposed, sessions, raised, srv>>

(* ... and the finally block removes whatever is registered under the id.  *)
Unregister(a) ==
    /\ hpc[a] = "finally"
    /\ sessions' = IF SessionOf[a] = Zero THEN sessions
                   ELSE [sessions EXCEPT ![SessionOf[a]] = NoAgent]
    /\ Goto(a, "done")
    /\ UNCHANGED <<listener, acl, agent, disposed, raised, srv>>

-----------------------------------------------------------------------------
(* StopAsync: cancel, await the listener (not the handlers), close the     *)
(* registered pipes, clear.                                                *)

Stop ==
    /\ srv = "running" /\ srv' = "cancelling"
    /\ UNCHANGED <<listener, acl, agent, server>>

(* Mutant of CloseSessions: closes the entries without the null check.     *)
CloseSessionsUnchecked ==
    /\ srv = "cancelling" /\ lpc = "stopped"
    /\ disposed' = disposed \cup {sessions[s] : s \in Sessions}
    /\ srv' = "clearing"
    /\ UNCHANGED <<listener, acl, agent, hpc, sessions, raised>>

CloseSessions ==
    /\ srv = "cancelling" /\ lpc = "stopped"
    /\ disposed' = disposed \cup {sessions[s] : s \in {r \in Sessions : sessions[r] # NoAgent}}
    /\ srv' = "clearing"
    /\ UNCHANGED <<listener, acl, agent, hpc, sessions, raised>>

ClearSessions ==
    /\ srv = "clearing"
    /\ sessions' = [s \in Sessions |-> NoAgent]
    /\ srv' = "stopped"
    /\ UNCHANGED <<listener, acl, agent, hpc, disposed, raised>>

Listener ==
    \/ CreateWorld \/ WorldDenied \/ CreateDefault \/ ListenFails \/ DelayOver
    \/ ListenerStops

HandleClient(a) ==
    \/ ReadId(a) \/ ReadIdFails(a) \/ Register(a) \/ ReadLength(a) \/ ReadBody(a)
    \/ Raise(a) \/ ReadEnds(a) \/ ClosePipe(a) \/ Unregister(a)

Next ==
    \/ Listener
    \/ \E a \in Agents : \/ Launch(a) \/ Connect(a) \/ AgentWrite(a) \/ AgentFails(a)
                         \/ HandleClient(a)
    \/ Stop \/ CloseSessions \/ ClearSessions

(* An agent that connected writes on or fails (its pipe is closed or it    *)
(* dies); handlers, the cancelled listener and StopAsync run on.           *)
Fairness ==
    /\ \A a \in Agents : /\ WF_vars(AgentWrite(a) \/ AgentFails(a))
                         /\ WF_vars(HandleClient(a))
    /\ WF_vars(ListenerStops) /\ WF_vars(CloseSessions) /\ WF_vars(ClearSessions)

Spec == Init /\ [][Next]_vars
LiveSpec == Spec /\ Fairness

-----------------------------------------------------------------------------
(* Type invariant of the pipe server, its registry and its clients.        *)
TypeOK ==
    /\ lpc \in {"create", "waiting", "delay", "stopped"}
    /\ worldAccess \in BOOLEAN /\ fallback \in BOOLEAN
    /\ instance \in Acls
    /\ acl \in [Agents -> Acls]
    /\ apc \in [Agents -> {"idle", "connecting", "open", "sent", "failed"}]
    /\ frames \in [Agents -> 0..3]
    /\ hpc \in [Agents -> HandlerStates]
    /\ disposed \subseteq Agents /\ raised \subseteq Agents
    /\ sessions \in [Sessions -> Agents \cup {NoAgent}]
    /\ srv \in {"running", "cancelling", "clearing", "stopped"}

(* "We CANNOT switch to Default Security because existing pipe instances   *)
(* use World Access": no two instances ever differ in their access rules.  *)
NoMixedSecurity ==
    \A a, b \in Agents :
        /\ acl[a] # "none" /\ acl[b] # "none" => acl[a] = acl[b]
        /\ acl[a] # "none" /\ instance # "none" => acl[a] = instance

(* Whoever is registered under a session has that session, and a handler   *)
(* that has yet to unregister it - whatever duplicates, StopAsync or late  *)
(* registrations do to the registry.  Session 0 is never unregistered.     *)
NoStaleRegistration ==
    \A s \in Sessions \ {Zero} :
        sessions[s] # NoAgent =>
            /\ SessionOf[sessions[s]] = s
            /\ hpc[sessions[s]] \in Reading \cup {"ending", "finally"}

(* Every connection is handled to its end, and after StopAsync the         *)
(* registry empties, although handlers it did not await may still register *)
(* (session 0 apart).                                                      *)
ConnectionsEnd ==
    /\ \A a \in Agents : (hpc[a] = "readId") ~> (hpc[a] = "done")
    /\ (srv = "stopped") ~> [](\A s \in Sessions \ {Zero} : sessions[s] = NoAgent)

(* A message written completely on a registered connection is raised,      *)
(* unless it is too large or the server stops.                             *)
RegisteredIsHeard ==
    \A a \in Agents \ Oversized :
        (hpc[a] = "length" /\ apc[a] = "sent") ~> (a \in raised \/ cancelled)

(* BroadcastMessageAsync "broadcasts a message to all connected sessions", *)
(* that is to the registry: a connection being served must be in it.       *)
ConnectedIsRegistered ==
    srv = "running" =>
        \A a \in Agents : hpc[a] \in Reading => sessions[SessionOf[a]] = a
=============================================================================
