------------------------ MODULE VorsightPages_proofs -------------------------
(* Proofs, for every value of the constants, of safety properties of the   *)
(* parts of VorsightPages: machine accounts, the reports of a machine, the *)
(* audit log and the screenshot gallery.                                   *)
EXTENDS VorsightPages, DashboardPages_proofs, FiniteSetTheorems, TLAPS

-----------------------------------------------------------------------------
(* MachineAccounts: the credentials the server gives out work for any      *)
(* computers, ids and names, although register looks for the id, looks for *)
(* the name and creates the row in three separate statements.              *)

(* What is used of the type invariant.                                     *)
Typed ==
    /\ own \in [Agents -> [id : Ids, name : Names]]
    /\ account \in [Ids -> Names \cup {NoRow}]
    /\ creds \in [Agents -> [id : Ids, key : Ids] \cup {NoCreds}]

(* Rows are never deleted, so whatever credentials named stays there.      *)
GivenOut ==
    \A a \in Agents :
        creds[a] # NoCreds => /\ creds[a].key = KeyOf(creds[a].id)
                              /\ account[creds[a].id] # NoRow

AccountsIInv == Typed /\ GivenOut

LEMMA AnswerIInv ==
  ASSUME AccountsIInv, NEW a \in Agents, NEW i \in Ids, Answer(a, i, KeyOf(i)),
         own' = own, account' \in [Ids -> Names \cup {NoRow}],
         account'[i] # NoRow, \A j \in Ids : account[j] # NoRow => account'[j] # NoRow
  PROVE  AccountsIInv'
<1> USE AccountsAssumption DEF AccountsIInv, Typed, KeyOf
<1>1. creds' = [creds EXCEPT ![a] = [id |-> i, key |-> i]]
  BY DEF Answer
<1>2. creds' \in [Agents -> [id : Ids, key : Ids] \cup {NoCreds}]
  BY <1>1
<1>3. GivenOut'
  <2> SUFFICES ASSUME NEW b \in Agents, creds'[b] # NoCreds
               PROVE  creds'[b].key = creds'[b].id /\ account'[creds'[b].id] # NoRow
    BY DEF GivenOut
  <2>1. CASE b = a
    BY <1>1, <2>1
  <2>2. CASE b # a
    <3>1. creds'[b] = creds[b] /\ creds[b] \in [id : Ids, key : Ids]
      BY <1>1, <2>2
    <3> QED BY <3>1 DEF GivenOut
  <2> QED BY <2>1, <2>2
<1> QED BY <1>2, <1>3

LEMMA NextAccountsIInv ==
  ASSUME AccountsIInv, [AccountsNext]_accountsVars PROVE AccountsIInv'
<1> USE AccountsAssumption
<1>1. ASSUME UNCHANGED <<own, account, creds>> PROVE AccountsIInv'
  BY <1>1 DEF AccountsIInv, Typed, GivenOut
<1>2. ASSUME NEW a \in Agents, Register(a) PROVE AccountsIInv'
  BY <1>2 DEF Register, AccountsIInv, Typed, GivenOut
<1>3. ASSUME NEW a \in Agents, RegisterById(a) PROVE AccountsIInv'
  <2>1. own[a].id \in Ids
    BY DEF AccountsIInv, Typed
  <2>2. CASE account[own[a].id] # NoRow
    BY <1>3, <2>1, <2>2, AnswerIInv DEF RegisterById, AccountsIInv, Typed
  <2>3. CASE account[own[a].id] = NoRow
    BY <1>1, <1>3, <2>3 DEF RegisterById
  <2> QED BY <2>2, <2>3
<1>4. ASSUME NEW a \in Agents, RegisterByName(a) PROVE AccountsIInv'
  <2>1. own[a].name \in Names
    BY DEF AccountsIInv, Typed
  <2>2. ASSUME NEW i \in Ids, account[i] = own[a].name, Answer(a, i, KeyOf(i))
        PROVE  AccountsIInv'
    BY <1>4, <2>1, <2>2, AnswerIInv DEF RegisterByName, AccountsIInv, Typed
  <2> QED BY <1>1, <1>4, <2>2 DEF RegisterByName
<1>5. ASSUME NEW a \in Agents, RegisterCreate(a) PROVE AccountsIInv'
  <2>1. own[a].id \in Ids /\ own[a].name \in Names
    BY DEF AccountsIInv, Typed
  <2>2. CASE account[own[a].id] = NoRow
    <3>1. /\ account' = [account EXCEPT ![own[a].id] = own[a].name]
          /\ Answer(a, own[a].id, KeyOf(own[a].id)) /\ own' = own
      BY <1>5, <2>2 DEF RegisterCreate
    <3> QED BY <2>1, <3>1, AnswerIInv DEF AccountsIInv, Typed
  <2>3. CASE account[own[a].id] # NoRow
    BY <1>1, <1>5, <2>3 DEF RegisterCreate
  <2> QED BY <2>2, <2>3
<1>6. ASSUME NEW a \in Agents, Authenticate(a) PROVE AccountsIInv'
  BY <1>1, <1>6 DEF Authenticate
<1>7. ASSUME NEW a \in Agents, UpdateDetails(a) PROVE AccountsIInv'
  <2>1. PICK n \in Names : account' = [account EXCEPT ![creds[a].id] = n]
    BY <1>7 DEF UpdateDetails
  <2>2. \A j \in Ids : account[j] # NoRow => account'[j] # NoRow
    BY <2>1 DEF AccountsIInv, Typed
  <2>3. Typed'
    BY <1>7, <2>1 DEF UpdateDetails, AccountsIInv, Typed
  <2>4. \A b \in Agents : creds[b] # NoCreds => creds[b].id \in Ids
    BY DEF AccountsIInv, Typed
  <2> QED BY <1>7, <2>2, <2>3, <2>4 DEF UpdateDetails, AccountsIInv, GivenOut
<1> QED BY <1>1, <1>2, <1>3, <1>4, <1>5, <1>6, <1>7 DEF AccountsNext, accountsVars

LEMMA InitAccountsIInv == AccountsInit => AccountsIInv
BY DEF AccountsInit, AccountsIInv, Typed, GivenOut

LEMMA IInvCredentials == AccountsIInv => CredentialsWork
BY AccountsAssumption DEF AccountsIInv, Typed, GivenOut, CredentialsWork, RowsOfKey, KeyOf

(* What the account invariant leaves out of the type invariant.            *)
LEMMA AccountsTypesStep ==
  ASSUME AccountsTypeOK, AccountsIInv', [AccountsNext]_accountsVars PROVE AccountsTypeOK'
<1> SUFFICES asking' \in [Agents -> Stages] /\ accepted' \in [Agents -> BOOLEAN]
  BY DEF AccountsIInv, Typed, AccountsTypeOK
<1> USE DEF AccountsTypeOK
<1>1. \A a \in Agents, g \in Stages : Proceed(a, g) => asking' \in [Agents -> Stages]
  BY DEF Proceed
<1>2. ASSUME NEW a \in Agents,
             Register(a) \/ RegisterById(a) \/ RegisterByName(a) \/ RegisterCreate(a)
      PROVE  asking' \in [Agents -> Stages] /\ accepted' \in [Agents -> BOOLEAN]
  <2>1. \E g \in Stages : Proceed(a, g)
    BY <1>2 DEF Register, RegisterById, RegisterByName, RegisterCreate, Answer, Stages
  <2>2. accepted' \in [Agents -> BOOLEAN]
    BY <1>2 DEF Register, RegisterById, RegisterByName, RegisterCreate
  <2> QED BY <1>1, <2>1, <2>2
<1>3. ASSUME NEW a \in Agents, Authenticate(a) \/ UpdateDetails(a)
      PROVE  asking' \in [Agents -> Stages] /\ accepted' \in [Agents -> BOOLEAN]
  <2>1. asking' = asking
    BY <1>3 DEF Authenticate, UpdateDetails
  <2>2. accepted' \in [Agents -> BOOLEAN]
    <3>1. CASE UpdateDetails(a)
      BY <3>1 DEF UpdateDetails
    <3>2. CASE Authenticate(a)
      <4>1. PICK b \in BOOLEAN : accepted' = [accepted EXCEPT ![a] = b]
        <5>1. accepted' = [accepted EXCEPT ![a] = creds[a].id \in RowsOfKey(creds[a].key)]
          BY <3>2 DEF Authenticate
        <5>2. CASE creds[a].id \in RowsOfKey(creds[a].key)
          <6>1. (creds[a].id \in RowsOfKey(creds[a].key)) = TRUE
            BY <5>2
          <6> QED BY <5>1, <6>1, Zenon
        <5>3. CASE creds[a].id \notin RowsOfKey(creds[a].key)
          <6>1. (creds[a].id \in RowsOfKey(creds[a].key)) = FALSE
            BY <5>3
          <6> QED BY <5>1, <6>1, Zenon
        <5> QED BY <5>2, <5>3
      <4> QED BY <4>1
    <3> QED BY <1>3, <3>1, <3>2
  <2> QED BY <2>1, <2>2
<1>4. CASE UNCHANGED accountsVars
  BY <1>4 DEF accountsVars
<1> QED BY <1>2, <1>3, <1>4 DEF AccountsNext

(* Every pair of id and key that an agent holds opens the account it names,*)
(* and no other - also when it was recovered by name.                      *)
THEOREM CredentialsOpenTheirAccount == AccountsSpec => []CredentialsWork
BY InitAccountsIInv, IInvCredentials, NextAccountsIInv, PTL DEF AccountsSpec
-----------------------------------------------------------------------------
(* MachineIngest: the handlers in progress, as records of their kind.      *)
Handler ==
    [kind : {"activity", "post"}, nr : 1 .. MaxReports,
     at : {"status", "store", "recent", "first"}, body : Activity]
      \cup [kind : {"activity", "post"}, nr : 1 .. MaxReports, at : {"merge"},
            body : Activity, row : Nat, read : Session]
      \cup [kind : {"audit"}, nr : 1 .. MaxReports, at : {"status", "find", "store", "alert"},
            body : Event]
      \cup [kind : {"shot"}, nr : 1 .. MaxReports, at : {"status", "store"}, body : ShotIds]

InProgress == {h \in running : IsActivity(h)}

(* Every handler has a number of its own, and at any time there have been  *)
(* enough reports for the counts of the sessions and the handlers.         *)
Ingesting ==
    /\ running \subseteq Handler /\ IsFiniteSet(running)
    /\ clock <= (HttpGrace + 2) * reports
    /\ \A h \in running : h.nr <= reports
    /\ \A g, h \in running : g.nr = h.nr => g = h
    /\ \A i \in DOMAIN sessions : sessions[i].count + Cardinality(running) <= reports
    /\ \A h \in InProgress :
          /\ h.body.start + h.body.length <= clock
          /\ h.at = "merge" => h.row \in DOMAIN sessions
                               /\ h.read.count + Cardinality(running) <= reports

IngestInv == IngestTypeOK /\ Ingesting

LEMMA Bounds ==
  ASSUME NEW K \in Nat, NEW r \in Nat, NEW M \in Nat, r < M, NEW x \in Nat, x <= K,
         NEW c \in Nat, c <= K * r
  PROVE  c + x <= K * (r + 1) /\ K * (r + 1) <= K * M /\ K * M \in Nat
<1>1. K * (r + 1) = K * r + K
  OBVIOUS
<1>2. PICK d \in Nat : M = r + 1 + d
  <2>1. M - (r + 1) \in Nat /\ M = r + 1 + (M - (r + 1))
    OBVIOUS
  <2> QED BY <2>1
<1>3. K * M = K * (r + 1) + K * d
  BY <1>2
<1>4. K * d \in Nat /\ K * (r + 1) \in Nat /\ K * r \in Nat
  OBVIOUS
<1> QED BY <1>1, <1>3, <1>4

LEMMA InitIngestInv == IngestInit => IngestInv
<1> SUFFICES ASSUME IngestInit PROVE IngestInv
  OBVIOUS
<1> USE IngestAssumption DEF IngestInit
<1>1. HttpGrace + 2 \in Nat /\ (HttpGrace + 2) * MaxReports \in Nat /\ (HttpGrace + 2) * 0 = 0
  OBVIOUS
<1>2. IngestTypeOK
  <2>1. 0 \in 0 .. Limit /\ 0 \in 0 .. MaxReports
    BY <1>1 DEF Limit
  <2>2. sessions \in Seq(Session) /\ audits \in Seq(AuditRow) /\ alertsSent \in Seq(Event)
    OBVIOUS
  <2> QED BY <2>1, <2>2 DEF IngestTypeOK
<1>3. Ingesting
  BY <1>1, FS_EmptySet DEF Ingesting, InProgress
<1> QED BY <1>2, <1>3 DEF IngestInv

LEMMA CountsAreNumbers ==
  ASSUME IngestInv PROVE \A i \in DOMAIN sessions : sessions[i] \in Session
                                                     /\ sessions[i].count \in Nat
<1> TAKE i \in DOMAIN sessions
<1>1. sessions \in Seq(Session)
  BY DEF IngestInv, IngestTypeOK
<1>2. sessions[i] \in Session
  BY <1>1
<1> QED BY <1>2, IngestAssumption DEF Session

(* A handler is replaced by its next step.                                 *)
LEMMA StepsRunning ==
  ASSUME IngestInv, NEW h \in running, NEW next \in Handler, next.nr = h.nr, Step(h, next)
  PROVE  /\ running' \subseteq Handler /\ IsFiniteSet(running)'
         /\ Cardinality(running') = Cardinality(running)
         /\ \A f, g \in running' : f.nr = g.nr => f = g
         /\ \A g \in running' : g = next \/ (g \in running /\ g # h)
<1>1. running' = (running \ {h}) \cup {next} /\ next \notin running \ {h}
  BY DEF Step, IngestInv, Ingesting
<1>2. IsFiniteSet(running) /\ running \subseteq Handler
  BY DEF IngestInv, Ingesting
<1>3. /\ IsFiniteSet(running \ {h}) /\ Cardinality(running \ {h}) = Cardinality(running) - 1
      /\ Cardinality(running) \in Nat
  BY <1>2, FS_RemoveElement, FS_CardinalityType
<1>4. IsFiniteSet(running') /\ Cardinality(running') = Cardinality(running)
  BY <1>1, <1>3, FS_AddElement
<1> QED BY <1>1, <1>2, <1>4 DEF IngestInv, Ingesting

(* A handler ends.                                                         *)
LEMMA EndsRunning ==
  ASSUME IngestInv, NEW h \in running, Done(h)
  PROVE  /\ running' \subseteq Handler /\ IsFiniteSet(running)'
         /\ Cardinality(running') = Cardinality(running) - 1 /\ Cardinality(running) \in Nat
         /\ \A f, g \in running' : f.nr = g.nr => f = g
         /\ \A g \in running' : g \in running /\ g # h
<1>1. running' = running \ {h}
  BY DEF Done
<1>2. IsFiniteSet(running) /\ running \subseteq Handler
  BY DEF IngestInv, Ingesting
<1>3. /\ IsFiniteSet(running') /\ Cardinality(running') = Cardinality(running) - 1
      /\ Cardinality(running) \in Nat
  BY <1>1, <1>2, FS_RemoveElement, FS_CardinalityType
<1> QED BY <1>1, <1>2, <1>3 DEF IngestInv, Ingesting

(* A report arrives.                                                       *)
LEMMA StartsIngestInv ==
  ASSUME IngestInv, NEW kind, NEW stage, NEW body, Start(kind, stage, body),
         [kind |-> kind, nr |-> reports + 1, at |-> stage, body |-> body] \in Handler,
         stage # "merge",
         clock' \in Nat, clock <= clock', clock' <= (HttpGrace + 2) * (reports + 1),
         kind \in {"activity", "post"} => body.start + body.length <= clock',
         UNCHANGED <<active, heartbeats, sessions, audits, shots, alertsSent, due>>
  PROVE  IngestInv'
<1> USE IngestAssumption
<1> DEFINE new == [kind |-> kind, nr |-> reports + 1, at |-> stage, body |-> body]
<1>1. /\ reports < MaxReports /\ reports' = reports + 1 /\ running' = running \cup {new}
      /\ new \in Handler /\ reports \in Nat /\ clock \in Nat
      /\ new.nr = reports + 1 /\ new.kind = kind /\ new.body = body /\ new.at = stage
  BY DEF Start, IngestInv, IngestTypeOK
<1>2. overlapped' \in BOOLEAN
  BY DEF Start, IngestInv, IngestTypeOK
<1> HIDE DEF new
<1>3. (HttpGrace + 2) * (reports + 1) <= Limit /\ Limit \in Nat
  <2>1. 0 <= (HttpGrace + 2) * reports /\ (HttpGrace + 2) \in Nat
    BY <1>1 DEF IngestInv, Ingesting
  <2> QED BY <1>1, <2>1, Bounds DEF Limit
<1>4. IngestTypeOK'
  BY <1>1, <1>2, <1>3 DEF IngestInv, IngestTypeOK
<1>5. \A h \in running : h.nr # reports + 1 /\ h.nr \in Nat /\ h \in Handler
  BY <1>1 DEF IngestInv, Ingesting, Handler
<1>6. /\ IsFiniteSet(running') /\ Cardinality(running') = Cardinality(running) + 1
      /\ Cardinality(running) \in Nat
  BY <1>1, <1>5, FS_AddElement, FS_CardinalityType DEF IngestInv, Ingesting
<1>7. \A i \in DOMAIN sessions : sessions[i].count \in Nat
  BY CountsAreNumbers
<1>8. /\ running' \subseteq Handler /\ clock' <= (HttpGrace + 2) * reports'
      /\ \A h \in running' : h.nr <= reports'
      /\ \A g, h \in running' : g.nr = h.nr => g = h
  BY <1>1, <1>5 DEF IngestInv, Ingesting
<1>9. \A i \in DOMAIN sessions' : sessions'[i].count + Cardinality(running') <= reports'
  BY <1>1, <1>6, <1>7 DEF IngestInv, Ingesting
<1>10. ASSUME NEW h \in InProgress'
       PROVE  /\ h.body.start + h.body.length <= clock'
              /\ h.at = "merge" => h.row \in DOMAIN sessions'
                                   /\ h.read.count + Cardinality(running') <= reports'
  <2>1. CASE h = new
    BY <1>1, <1>10, <2>1 DEF InProgress, IsActivity, Table, Handler
  <2>2. CASE h # new
    <3>1. h \in InProgress /\ h \in Handler /\ h.kind \in {"activity", "post"}
      BY <1>1, <1>5, <1>10, <2>2 DEF InProgress, IsActivity, Table, Handler
    <3>2. h.body.start \in Nat /\ h.body.length \in Nat
          /\ (h.at = "merge" => h.read.count \in Nat)
      BY <3>1 DEF Handler, Activity, Session
    <3> QED BY <1>1, <1>6, <3>1, <3>2 DEF IngestInv, Ingesting
  <2> QED BY <2>1, <2>2
<1> QED BY <1>4, <1>6, <1>8, <1>9, <1>10 DEF IngestInv, Ingesting

(* As many handlers run as there have been reports, at most.               *)
LEMMA NumbersBoundHandlers ==
  ASSUME IngestInv PROVE Cardinality(running) <= reports
<1>1. reports \in Nat /\ IsFiniteSet(running) /\ IsFiniteSet(1 .. reports)
      /\ Cardinality(1 .. reports) = reports
  <2>1. reports \in Nat /\ IsFiniteSet(running)
    BY IngestAssumption DEF IngestInv, IngestTypeOK, Ingesting
  <2>2. reports \in Int /\ 1 \in Int /\ (IF 1 > reports THEN 0 ELSE reports - 1 + 1) = reports
    BY <2>1
  <2> QED BY <2>1, <2>2, FS_Interval
<1> DEFINE f == [h \in running |-> h.nr]
<1>2. f \in Injection(running, 1 .. reports)
  <2>1. \A h \in running : h.nr \in 1 .. reports
    BY <1>1 DEF IngestInv, Ingesting, Handler
  <2> QED BY <2>1 DEF Injection, IsInjective, IngestInv, Ingesting
<1> QED BY <1>1, <1>2, FS_Injection

LEMMA ActivityHandler ==
  ASSUME IngestInv, NEW h \in InProgress
  PROVE  /\ h \in running /\ h \in Handler /\ h.kind \in {"activity", "post"}
         /\ h.nr \in 1 .. MaxReports /\ h.nr <= reports
         /\ h.body \in Activity /\ h.body.program \in Programs
         /\ h.body.start \in Nat /\ h.body.length \in 0 .. 1
         /\ h.body.start + h.body.length \in 0 .. Limit
         /\ h.body.start + h.body.length <= clock /\ clock \in 0 .. Limit /\ Limit \in Nat
         /\ h.at \in {"status", "store", "recent", "first", "merge"}
         /\ h.at = "merge" => h.row \in DOMAIN sessions /\ h.read \in Session
<1> USE IngestAssumption
<1>1. h \in running /\ h \in Handler /\ IsActivity(h) /\ h.nr <= reports
  BY DEF InProgress, IngestInv, Ingesting
<1>2. h.kind \in {"activity", "post"}
  BY <1>1 DEF IsActivity, Table, Handler
<1>3. /\ h.nr \in 1 .. MaxReports /\ h.body \in Activity
      /\ h.at \in {"status", "store", "recent", "first", "merge"}
      /\ h.at = "merge" => h.read \in Session
  BY <1>1, <1>2 DEF Handler
<1>4. clock \in 0 .. Limit /\ Limit \in Nat
  BY InitIngestInv, Bounds DEF IngestInv, IngestTypeOK, Limit
<1>5. h.body.start + h.body.length <= clock /\ (h.at = "merge" => h.row \in DOMAIN sessions)
  BY DEF IngestInv, Ingesting
<1> QED BY <1>1, <1>2, <1>3, <1>4, <1>5 DEF Activity

(* A handler goes on without touching the sessions.                        *)
LEMMA GoesOn ==
  ASSUME IngestInv, IngestTypeOK', NEW h \in running, NEW next \in Handler,
         next.nr = h.nr, next.kind = h.kind, next.body = h.body, Step(h, next),
         next.at = "merge" => next.row \in DOMAIN sessions
                              /\ next.read.count + Cardinality(running) <= reports,
         UNCHANGED <<clock, reports, sessions>>
  PROVE  IngestInv'
<1>1. /\ running' \subseteq Handler /\ IsFiniteSet(running')
      /\ Cardinality(running') = Cardinality(running)
      /\ \A f, g \in running' : f.nr = g.nr => f = g
      /\ \A g \in running' : g = next \/ (g \in running /\ g # h)
  BY StepsRunning
<1>2. ASSUME NEW g \in InProgress'
      PROVE  /\ g.body.start + g.body.length <= clock'
             /\ g.at = "merge" => g.row \in DOMAIN sessions'
                                  /\ g.read.count + Cardinality(running') <= reports'
  <2>1. CASE g \in InProgress
    BY <1>1, <2>1 DEF IngestInv, Ingesting
  <2>2. CASE g = next
    <3>1. h \in InProgress
      BY <1>2, <2>2 DEF InProgress, IsActivity
    <3> QED BY <1>1, <2>2, <3>1 DEF IngestInv, Ingesting
  <2> QED BY <1>1, <1>2, <2>1, <2>2 DEF InProgress, IsActivity
<1> QED BY <1>1, <1>2 DEF IngestInv, Ingesting

(* A handler ends without touching the sessions.                           *)
LEMMA GoesAway ==
  ASSUME IngestInv, IngestTypeOK', NEW h \in running, Done(h),
         UNCHANGED <<clock, reports, sessions>>
  PROVE  IngestInv'
<1> DEFINE n == Cardinality(running)
<1>1. /\ running' \subseteq Handler /\ IsFiniteSet(running')
      /\ Cardinality(running') = n - 1 /\ n \in Nat
      /\ \A f, g \in running' : f.nr = g.nr => f = g
      /\ \A g \in running' : g \in running /\ g # h
  BY EndsRunning
<1>2. reports \in Nat
  BY DEF IngestInv, IngestTypeOK
<1>3. \A i \in DOMAIN sessions' : sessions'[i].count + (n - 1) <= reports'
  BY <1>2, <1>1, CountsAreNumbers DEF IngestInv, Ingesting
<1>4. ASSUME NEW g \in InProgress'
      PROVE  /\ g.body.start + g.body.length <= clock'
             /\ g.at = "merge" => g.row \in DOMAIN sessions'
                                  /\ g.read.count + (n - 1) <= reports'
  <2>1. g \in InProgress
    BY <1>1, <1>4 DEF InProgress, IsActivity
  <2>2. g.at = "merge" => g.read.count \in Nat
    BY <2>1, ActivityHandler, IngestAssumption DEF Session
  <2> QED BY <1>1, <1>2, <2>1, <2>2 DEF IngestInv, Ingesting
<1> QED BY <1>1, <1>3, <1>4 DEF IngestInv, Ingesting

LEMMA StoresHeartbeatTypes ==
  ASSUME IngestInv, NEW h \in running, StoresHeartbeat(h) PROVE IngestInv'
<1>1. h \in InProgress
  BY DEF StoresHeartbeat, InProgress
<1> DEFINE beat == [nr |-> h.nr, program |-> h.body.program, start |-> h.body.start,
                    end |-> h.body.start + h.body.length]
           next == [h EXCEPT !.at = "recent"]
<1>2. beat \in [nr : 1 .. MaxReports, program : Programs, start : 0 .. Limit, end : 0 .. Limit]
  <2>1. h.body.start \in 0 .. Limit
    BY <1>1, ActivityHandler DEF Activity
  <2> QED BY <1>1, <2>1, ActivityHandler
<1>3. next \in Handler /\ next.nr = h.nr /\ next.kind = h.kind /\ next.body = h.body
      /\ next.at # "merge"
  BY <1>1, ActivityHandler DEF Handler, StoresHeartbeat
<1>4. IngestTypeOK'
  BY <1>2 DEF StoresHeartbeat, IngestInv, IngestTypeOK
<1>5. Step(h, next) /\ UNCHANGED <<clock, reports, sessions>>
  BY DEF StoresHeartbeat, Goto
<1> HIDE DEF next
<1> QED BY <1>3, <1>4, <1>5, GoesOn

LEMMA ReadsSessionTypes ==
  ASSUME IngestInv, NEW h \in running, ReadsSession(h) PROVE IngestInv'
<1>1. h \in InProgress /\ UNCHANGED <<clock, reports, sessions>>
  BY DEF ReadsSession, InProgress
<1>2. IngestTypeOK'
  BY DEF ReadsSession, IngestInv, IngestTypeOK
<1>3. CASE sessions = <<>>
  <2> DEFINE next == [kind |-> h.kind, nr |-> h.nr, at |-> "first", body |-> h.body]
  <2>1. next \in Handler /\ next.nr = h.nr /\ next.kind = h.kind /\ next.body = h.body
        /\ next.at # "merge" /\ Step(h, next)
    BY <1>1, <1>3, ActivityHandler DEF Handler, ReadsSession
  <2> HIDE DEF next
  <2> QED BY <1>1, <1>2, <2>1, GoesOn
<1>4. CASE sessions # <<>>
  <2>1. PICK i \in RecentSessions :
               Step(h, [kind |-> h.kind, nr |-> h.nr, at |-> "merge", body |-> h.body,
                        row |-> i, read |-> sessions[i]])
    BY <1>4 DEF ReadsSession
  <2> DEFINE next == [kind |-> h.kind, nr |-> h.nr, at |-> "merge", body |-> h.body,
                      row |-> i, read |-> sessions[i]]
  <2>2. i \in DOMAIN sessions /\ i \in Nat /\ sessions[i] \in Session
    <3>1. i \in DOMAIN sessions
      BY DEF RecentSessions
    <3> QED BY <3>1, CountsAreNumbers DEF IngestInv, IngestTypeOK
  <2>3. next \in Handler /\ next.nr = h.nr /\ next.kind = h.kind /\ next.body = h.body
        /\ next.row \in DOMAIN sessions /\ next.read = sessions[i] /\ Step(h, next)
    BY <1>1, <2>1, <2>2, ActivityHandler DEF Handler
  <2>4. next.read.count + Cardinality(running) <= reports
    BY <2>2, <2>3 DEF IngestInv, Ingesting
  <2> HIDE DEF next
  <2> QED BY <1>1, <1>2, <2>3, <2>4, GoesOn
<1> QED BY <1>3, <1>4

(* A session is created, or its end and its count are replaced.            *)
LEMMA StoresSessionTypes ==
  ASSUME IngestInv, NEW h \in running, StoresSession(h) PROVE IngestInv'
<1> DEFINE n == Cardinality(running)
<1> USE IngestAssumption
<1>1. h \in InProgress /\ UNCHANGED <<clock, reports>> /\ Done(h)
  BY DEF StoresSession, InProgress
<1>2. /\ running' \subseteq Handler /\ IsFiniteSet(running')
      /\ Cardinality(running') = n - 1 /\ n \in Nat
      /\ \A f, g \in running' : f.nr = g.nr => f = g
      /\ \A g \in running' : g \in running /\ g # h
  BY <1>1, EndsRunning
<1>3. reports \in 0 .. MaxReports /\ n - 1 \in Nat
  BY <1>1, <1>2, FS_CardinalityType DEF IngestInv, IngestTypeOK
<1>4. NewEnd(h) \in 0 .. Limit /\ h.body.start \in 0 .. Limit /\ h.body.program \in Programs
  BY <1>1, ActivityHandler DEF NewEnd, Activity
<1>5. sessions \in Seq(Session)
  BY DEF IngestInv, IngestTypeOK
<1>6. /\ DOMAIN sessions \subseteq DOMAIN sessions' /\ sessions' \in Seq(Session)
      /\ \A i \in DOMAIN sessions' : sessions'[i].count + (n - 1) <= reports
  <2>1. CASE Extends(h)
    <3>1. /\ h.row \in DOMAIN sessions /\ h.read \in Session /\ h.read.count + n <= reports
          /\ sessions[h.row] \in Session /\ h.read.count \in Nat
      BY <1>1, <2>1, ActivityHandler, CountsAreNumbers DEF Extends, IngestInv, Ingesting, Session
    <3>2. sessions' = [sessions EXCEPT ![h.row] =
                         [@ EXCEPT !.end = NewEnd(h), !.count = h.read.count + 1]]
      BY <2>1 DEF StoresSession
    <3>3. h.read.count + 1 \in 1 .. MaxReports
      BY <1>1, <1>2, <1>3, <3>1
    <3>4. [sessions[h.row] EXCEPT !.end = NewEnd(h), !.count = h.read.count + 1] \in Session
      BY <1>4, <3>1, <3>3 DEF Session
    <3>5. sessions' \in Seq(Session) /\ DOMAIN sessions' = DOMAIN sessions
      BY <1>5, <3>1, <3>2, <3>4
    <3>6. ASSUME NEW i \in DOMAIN sessions'
          PROVE  sessions'[i].count + (n - 1) <= reports
      <4>1. CASE i = h.row
        <5>1. sessions'[i].count = h.read.count + 1
          BY <3>1, <3>2, <4>1 DEF Session
        <5> QED BY <1>2, <1>3, <3>1, <5>1
      <4>2. CASE i # h.row
        <5>1. sessions'[i] = sessions[i] /\ sessions[i].count \in Nat
              /\ sessions[i].count + n <= reports
          BY <3>2, <3>5, <3>6, <4>2, CountsAreNumbers DEF IngestInv, Ingesting
        <5> QED BY <1>2, <1>3, <5>1
      <4> QED BY <4>1, <4>2
    <3> QED BY <3>5, <3>6
  <2>2. CASE ~Extends(h)
    <3> DEFINE new == [program |-> h.body.program, start |-> h.body.start,
                       end |-> NewEnd(h), count |-> 1]
    <3>1. sessions' = Append(sessions, new) /\ new \in Session /\ new.count = 1
      BY <1>1, <1>4, <2>2, ActivityHandler DEF StoresSession, Session
    <3> HIDE DEF new
    <3>2. 1 + (n - 1) <= reports
      BY <1>2, <1>3, NumbersBoundHandlers
    <3>3. ASSUME NEW i \in DOMAIN sessions'
          PROVE  sessions'[i].count + (n - 1) <= reports
      <4>1. CASE i = Len(sessions) + 1
        BY <1>5, <3>1, <3>2, <4>1
      <4>2. CASE i # Len(sessions) + 1
        <5>1. i \in DOMAIN sessions /\ sessions'[i] = sessions[i]
          BY <1>5, <3>1, <3>3, <4>2
        <5>2. sessions[i].count \in Nat /\ sessions[i].count + n <= reports
          BY <5>1, CountsAreNumbers DEF IngestInv, Ingesting
        <5> QED BY <1>2, <1>3, <5>1, <5>2
      <4> QED BY <4>1, <4>2
    <3> QED BY <1>5, <3>1, <3>3
  <2> QED BY <2>1, <2>2
<1>7. IngestTypeOK'
  BY <1>6 DEF StoresSession, IngestInv, IngestTypeOK
<1>8. ASSUME NEW g \in InProgress'
      PROVE  /\ g.body.start + g.body.length <= clock'
             /\ g.at = "merge" => g.row \in DOMAIN sessions'
                                  /\ g.read.count + (n - 1) <= reports'
  <2>1. g \in InProgress
    BY <1>2, <1>8 DEF InProgress, IsActivity
  <2>2. g.at = "merge" => g.read.count \in Nat /\ g.row \in DOMAIN sessions
                         /\ g.read.count + n <= reports
    BY <2>1, ActivityHandler DEF Session, IngestInv, Ingesting
  <2>3. g.at = "merge" => g.read.count + (n - 1) <= reports
    BY <1>2, <1>3, <2>2
  <2> QED BY <1>1, <1>6, <2>1, <2>2, <2>3 DEF IngestInv, Ingesting
<1> QED BY <1>1, <1>2, <1>6, <1>7, <1>8 DEF IngestInv, Ingesting

LEMMA ReportsIngestInv ==
  ASSUME IngestInv,
         \/ \E p \in Programs :
              \/ \E gap \in {Grace, Grace + 1} : ActivityReported(p, gap)
              \/ \E gap \in {HttpGrace, HttpGrace + 1} : ActivityPosted(p, gap)
         \/ \E id \in EventIds : EventReported(id)
         \/ \E id \in ShotIds : ShotReported(id)
  PROVE  IngestInv'
<1> USE IngestAssumption
<1>1. /\ clock \in Nat /\ reports \in Nat /\ Limit \in Nat
      /\ clock <= (HttpGrace + 2) * reports
  BY InitIngestInv, Bounds DEF IngestInv, IngestTypeOK, Ingesting, Limit
<1>2. ASSUME NEW x \in Nat, x <= HttpGrace + 2, reports < MaxReports
      PROVE  /\ clock + x \in Nat /\ clock <= clock + x
             /\ clock + x <= (HttpGrace + 2) * (reports + 1) /\ clock + x <= Limit
  <2>1. /\ clock + x <= (HttpGrace + 2) * (reports + 1)
        /\ (HttpGrace + 2) * (reports + 1) <= Limit
    BY <1>1, <1>2, Bounds DEF Limit
  <2>2. (HttpGrace + 2) * (reports + 1) \in Nat
    BY <1>1
  <2> QED BY <1>1, <2>1, <2>2
<1>3. ASSUME NEW p \in Programs, NEW gap \in {Grace, Grace + 1}, ActivityReported(p, gap)
      PROVE  IngestInv'
  <2> DEFINE body == [program |-> p, start |-> clock + gap, length |-> 1]
  <2>1. Start("activity", "status", body) /\ clock' = clock + (gap + 1) /\ reports < MaxReports
        /\ UNCHANGED <<active, heartbeats, sessions, audits, shots, alertsSent, due>>
    BY <1>1, <1>3 DEF ActivityReported, Start
  <2>2. gap \in Nat /\ gap <= HttpGrace + 2 /\ gap + 1 \in Nat /\ gap + 1 <= HttpGrace + 2
    OBVIOUS
  <2>3. clock + gap \in 0 .. Limit
    BY <1>1, <1>2, <2>1, <2>2
  <2>4. body \in Activity /\ body.start + body.length = clock + (gap + 1)
    BY <1>1, <2>2, <2>3 DEF Activity
  <2>5. [kind |-> "activity", nr |-> reports + 1, at |-> "status", body |-> body] \in Handler
    BY <1>1, <2>1, <2>4 DEF Handler
  <2> HIDE DEF body
  <2> QED BY <1>1, <1>2, <2>1, <2>2, <2>4, <2>5, StartsIngestInv
<1>4. ASSUME NEW p \in Programs, NEW gap \in {HttpGrace, HttpGrace + 1}, ActivityPosted(p, gap)
      PROVE  IngestInv'
  <2> DEFINE body == [program |-> p, start |-> clock + gap, length |-> 0]
  <2>1. Start("post", "store", body) /\ clock' = clock + gap /\ reports < MaxReports
        /\ UNCHANGED <<active, heartbeats, sessions, audits, shots, alertsSent, due>>
    BY <1>4 DEF ActivityPosted, Start
  <2>2. gap \in Nat /\ gap <= HttpGrace + 2
    OBVIOUS
  <2>3. clock + gap \in 0 .. Limit
    BY <1>1, <1>2, <2>1, <2>2
  <2>4. body \in Activity /\ body.start + body.length = clock + gap
    BY <1>1, <2>2, <2>3 DEF Activity
  <2>5. [kind |-> "post", nr |-> reports + 1, at |-> "store", body |-> body] \in Handler
    BY <1>1, <2>1, <2>4 DEF Handler
  <2> HIDE DEF body
  <2> QED BY <1>1, <1>2, <2>1, <2>2, <2>4, <2>5, StartsIngestInv
<1>5. /\ clock <= (HttpGrace + 2) * (reports + 1)
      /\ (reports < MaxReports => reports + 1 \in 1 .. MaxReports)
  <2>1. (HttpGrace + 2) * (reports + 1) = (HttpGrace + 2) * reports + (HttpGrace + 2)
        /\ (HttpGrace + 2) * reports \in Nat
    BY <1>1
  <2> QED BY <1>1, <2>1
<1>6. ASSUME NEW id \in EventIds, EventReported(id) PROVE IngestInv'
  <2>1. Start("audit", "status", [id |-> id, nr |-> reports + 1]) /\ reports < MaxReports
        /\ UNCHANGED <<active, clock, heartbeats, sessions, audits, shots, alertsSent, due>>
    BY <1>6 DEF EventReported, Start
  <2>2. [kind |-> "audit", nr |-> reports + 1, at |-> "status",
         body |-> [id |-> id, nr |-> reports + 1]] \in Handler
    BY <1>5, <2>1 DEF Handler, Event
  <2> QED BY <1>1, <1>5, <2>1, <2>2, StartsIngestInv
<1>7. ASSUME NEW id \in ShotIds, ShotReported(id) PROVE IngestInv'
  <2>1. Start("shot", "status", id) /\ reports < MaxReports
        /\ UNCHANGED <<active, clock, heartbeats, sessions, audits, shots, alertsSent, due>>
    BY <1>7 DEF ShotReported, Start
  <2>2. [kind |-> "shot", nr |-> reports + 1, at |-> "status", body |-> id] \in Handler
    BY <1>5, <2>1 DEF Handler
  <2> QED BY <1>1, <1>5, <2>1, <2>2, StartsIngestInv
<1> QED BY <1>3, <1>4, <1>6, <1>7

(* The steps of the handlers other than those about the sessions.          *)
LEMMA OtherHandlersIngestInv ==
  ASSUME IngestInv, NEW h \in running,
         \/ ChecksStatus(h) \/ FindsEvent(h) \/ StoresEvent(h) \/ SendsAlert(h)
         \/ StoresShot(h)
  PROVE  IngestInv'
<1>1. h \in Handler /\ UNCHANGED <<clock, reports, sessions>>
  BY DEF IngestInv, Ingesting, ChecksStatus, FindsEvent, StoresEvent, SendsAlert, StoresShot
<1>2. IngestTypeOK'
  <2>1. CASE StoresEvent(h)
    <3>1. [id |-> h.body.id, nr |-> h.body.nr, upto |-> reports] \in AuditRow
      <4>1. h.body \in Event
        BY <1>1, <2>1 DEF StoresEvent, Handler
      <4>2. reports \in 0 .. MaxReports
        BY DEF IngestInv, IngestTypeOK
      <4> QED BY <4>1, <4>2 DEF Event, AuditRow
    <3> QED BY <2>1, <3>1 DEF StoresEvent, IngestInv, IngestTypeOK
  <2>2. CASE SendsAlert(h)
    <3>1. h.body \in Event
      BY <1>1, <2>2 DEF SendsAlert, Handler
    <3> QED BY <2>2, <3>1 DEF SendsAlert, IngestInv, IngestTypeOK
  <2>3. CASE StoresShot(h)
    <3>1. h.body \in ShotIds
      BY <1>1, <2>3 DEF StoresShot, Handler
    <3> QED BY <2>3, <3>1 DEF StoresShot, IngestInv, IngestTypeOK
  <2>4. CASE ChecksStatus(h)
    <3>1. h.kind = "audit" => h.body.id \in EventIds
      BY <1>1 DEF Handler, Event
    <3> QED BY <2>4, <3>1 DEF ChecksStatus, IngestInv, IngestTypeOK
  <2>5. CASE FindsEvent(h)
    BY <2>5 DEF FindsEvent, IngestInv, IngestTypeOK
  <2> QED BY <2>1, <2>2, <2>3, <2>4, <2>5
<1>3. \/ Done(h)
      \/ \E stage \in {"find", "store", "alert"} :
            Goto(h, stage) /\ [h EXCEPT !.at = stage] \in Handler
  <2>1. CASE ChecksStatus(h)
    BY <1>1, <2>1 DEF ChecksStatus, Handler
  <2>2. CASE FindsEvent(h)
    BY <1>1, <2>2 DEF FindsEvent, Handler
  <2>3. CASE StoresEvent(h)
    BY <1>1, <2>3 DEF StoresEvent, Handler
  <2>4. CASE SendsAlert(h) \/ StoresShot(h)
    BY <2>4 DEF SendsAlert, StoresShot
  <2> QED BY <2>1, <2>2, <2>3, <2>4
<1>4. CASE Done(h)
  BY <1>1, <1>2, <1>4, GoesAway
<1>5. ASSUME NEW stage \in {"find", "store", "alert"}, Goto(h, stage),
             [h EXCEPT !.at = stage] \in Handler
      PROVE  IngestInv'
  <2> DEFINE next == [h EXCEPT !.at = stage]
  <2>1. next \in Handler /\ next.nr = h.nr /\ next.kind = h.kind /\ next.body = h.body
        /\ next.at # "merge" /\ Step(h, next)
    BY <1>1, <1>5 DEF Goto, Handler
  <2> HIDE DEF next
  <2> QED BY <1>1, <1>2, <2>1, GoesOn
<1> QED BY <1>3, <1>4, <1>5

LEMMA NextIngestInv == ASSUME IngestInv, [IngestNext]_ingestVars PROVE IngestInv'
<1>1. CASE StatusChanges \/ UNCHANGED ingestVars
  <2>1. UNCHANGED <<clock, reports, running, heartbeats, sessions, audits, shots, alertsSent,
                    overlapped, due>> /\ active' \in BOOLEAN
    BY <1>1 DEF StatusChanges, ingestVars, IngestInv, IngestTypeOK
  <2>2. IngestTypeOK'
    BY <2>1 DEF IngestInv, IngestTypeOK
  <2>3. Ingesting'
    BY <2>1 DEF IngestInv, Ingesting, InProgress, IsActivity
  <2> QED BY <2>2, <2>3 DEF IngestInv
<1>2. ASSUME NEW h \in running,
             \/ ChecksStatus(h) \/ StoresHeartbeat(h) \/ ReadsSession(h) \/ StoresSession(h)
             \/ FindsEvent(h) \/ StoresEvent(h) \/ SendsAlert(h) \/ StoresShot(h)
      PROVE  IngestInv'
  BY <1>2, StoresHeartbeatTypes, ReadsSessionTypes, StoresSessionTypes, OtherHandlersIngestInv
<1> QED BY <1>1, <1>2, ReportsIngestInv DEF IngestNext

(* The rows, the reports so far and the end of the last activity stay      *)
(* within their bounds, whatever handlers run at once.                     *)
THEOREM IngestTypes == IngestSpec => []IngestTypeOK
<1>1. IngestInv => IngestTypeOK
  BY DEF IngestInv
<1> QED BY <1>1, InitIngestInv, NextIngestInv, PTL DEF IngestSpec

(* While no two handlers of the same rows have run at once, there is at    *)
(* most one in progress for each table.                                    *)
Alone == ~overlapped => \A g, h \in running : Table(g.kind) = Table(h.kind) => g = h

(* What all steps of a handler have in common.                             *)
LEMMA HandlerSteps ==
  ASSUME IngestInv, NEW h \in running,
         \/ ChecksStatus(h) \/ StoresHeartbeat(h) \/ ReadsSession(h) \/ StoresSession(h)
         \/ FindsEvent(h) \/ StoresEvent(h) \/ SendsAlert(h) \/ StoresShot(h)
  PROVE  /\ UNCHANGED <<active, clock, reports, overlapped>>
         /\ \/ Done(h)
            \/ \E next : Step(h, next) /\ next.kind = h.kind /\ next.body = h.body
<1>1. CASE StoresSession(h) \/ SendsAlert(h) \/ StoresShot(h)
  BY <1>1 DEF StoresSession, SendsAlert, StoresShot
<1>2. CASE ReadsSession(h)
  <2>1. CASE sessions = <<>>
    BY <1>2, <2>1 DEF ReadsSession
  <2>2. CASE sessions # <<>>
    <3>1. PICK i \in RecentSessions :
                 Step(h, [kind |-> h.kind, nr |-> h.nr, at |-> "merge", body |-> h.body,
                          row |-> i, read |-> sessions[i]])
      BY <1>2, <2>2 DEF ReadsSession
    <3> QED BY <1>2, <3>1 DEF ReadsSession
  <2> QED BY <2>1, <2>2
<1>3. CASE ChecksStatus(h) \/ StoresHeartbeat(h) \/ FindsEvent(h) \/ StoresEvent(h)
  <2>1. /\ UNCHANGED <<active, clock, reports, overlapped>>
        /\ Done(h) \/ \E stage \in {"find", "store", "recent", "alert"} : Goto(h, stage)
    BY <1>3 DEF ChecksStatus, StoresHeartbeat, FindsEvent, StoresEvent
  <2>2. ASSUME NEW stage \in {"find", "store", "recent", "alert"}, Goto(h, stage)
        PROVE  \E next : Step(h, next) /\ next.kind = h.kind /\ next.body = h.body
    <3>1. /\ [h EXCEPT !.at = stage].kind = h.kind
          /\ [h EXCEPT !.at = stage].body = h.body
      BY DEF IngestInv, Ingesting, Handler
    <3> QED BY <2>2, <3>1 DEF Goto
  <2> QED BY <2>1, <2>2
<1> QED BY <1>1, <1>2, <1>3

(* What all arrivals have in common.                                       *)
ReportArrives(new) ==
    /\ UNCHANGED <<active, heartbeats, sessions, audits, shots, alertsSent, due>>
    /\ running' = running \cup {new}
    /\ overlapped' = (overlapped \/ \E h \in running : Table(h.kind) = Table(new.kind))
    /\ new.at \in {"status", "store"}
    /\ new.kind = "audit" => new.at = "status" /\ new.body.nr = new.nr
    /\ IF IsActivity(new)
         THEN /\ clock < new.body.start /\ new.body.length \in 0 .. 1
              /\ new.body.start \in Nat /\ clock' = new.body.start + new.body.length
         ELSE clock' = clock

LEMMA ReportSteps ==
  ASSUME IngestInv,
         \/ \E p \in Programs :
              \/ \E gap \in {Grace, Grace + 1} : ActivityReported(p, gap)
              \/ \E gap \in {HttpGrace, HttpGrace + 1} : ActivityPosted(p, gap)
         \/ \E id \in EventIds : EventReported(id)
         \/ \E id \in ShotIds : ShotReported(id)
  PROVE  \E new : ReportArrives(new)
<1> USE IngestAssumption
<1>1. clock \in Nat
  BY InitIngestInv, Bounds DEF IngestInv, IngestTypeOK, Limit
<1> DEFINE New(kind, stage, body) ==
             [kind |-> kind, nr |-> reports + 1, at |-> stage, body |-> body]
<1>2. ASSUME NEW kind, NEW stage, NEW body, Start(kind, stage, body)
      PROVE  /\ running' = running \cup {New(kind, stage, body)}
             /\ overlapped' = (overlapped \/ \E h \in running : Table(h.kind) = Table(kind))
             /\ New(kind, stage, body).kind = kind /\ New(kind, stage, body).at = stage
             /\ New(kind, stage, body).body = body /\ New(kind, stage, body).nr = reports + 1
  BY <1>2 DEF Start
<1> HIDE DEF New
<1>3. ASSUME NEW p \in Programs, NEW gap \in {Grace, Grace + 1}, ActivityReported(p, gap)
      PROVE  \E new : ReportArrives(new)
  <2> DEFINE body == [program |-> p, start |-> clock + gap, length |-> 1]
  <2>1. /\ Start("activity", "status", body) /\ clock' = clock + gap + 1
        /\ body.start = clock + gap /\ body.length = 1
        /\ UNCHANGED <<active, heartbeats, sessions, audits, shots, alertsSent, due>>
    BY <1>3 DEF ActivityReported
  <2> HIDE DEF body
  <2>2. clock < body.start /\ body.start \in Nat /\ clock' = body.start + body.length
    BY <1>1, <2>1
  <2> WITNESS New("activity", "status", body)
  <2> QED BY <1>2, <2>1, <2>2 DEF ReportArrives, IsActivity, Table
<1>4. ASSUME NEW p \in Programs, NEW gap \in {HttpGrace, HttpGrace + 1}, ActivityPosted(p, gap)
      PROVE  \E new : ReportArrives(new)
  <2> DEFINE body == [program |-> p, start |-> clock + gap, length |-> 0]
  <2>1. /\ Start("post", "store", body) /\ clock' = clock + gap
        /\ body.start = clock + gap /\ body.length = 0
        /\ UNCHANGED <<active, heartbeats, sessions, audits, shots, alertsSent, due>>
    BY <1>4 DEF ActivityPosted
  <2> HIDE DEF body
  <2>2. clock < body.start /\ body.start \in Nat /\ clock' = body.start + body.length
    BY <1>1, <2>1
  <2> WITNESS New("post", "store", body)
  <2> QED BY <1>2, <2>1, <2>2 DEF ReportArrives, IsActivity, Table
<1>5. ASSUME NEW id \in EventIds, EventReported(id) PROVE \E new : ReportArrives(new)
  <2> DEFINE body == [id |-> id, nr |-> reports + 1]
  <2>1. /\ Start("audit", "status", body) /\ clock' = clock /\ body.nr = reports + 1
        /\ UNCHANGED <<active, heartbeats, sessions, audits, shots, alertsSent, due>>
    BY <1>5 DEF EventReported
  <2> HIDE DEF body
  <2> WITNESS New("audit", "status", body)
  <2> QED BY <1>2, <2>1 DEF ReportArrives, IsActivity, Table
<1>6. ASSUME NEW id \in ShotIds, ShotReported(id) PROVE \E new : ReportArrives(new)
  <2>1. /\ Start("shot", "status", id) /\ clock' = clock
        /\ UNCHANGED <<active, heartbeats, sessions, audits, shots, alertsSent, due>>
    BY <1>6 DEF ShotReported
  <2> WITNESS New("shot", "status", id)
  <2> QED BY <1>2, <2>1 DEF ReportArrives, IsActivity, Table
<1> QED BY <1>3, <1>4, <1>5, <1>6

LEMMA AloneStep == ASSUME IngestInv, Alone, [IngestNext]_ingestVars PROVE Alone'
<1>1. ASSUME NEW new, ReportArrives(new) PROVE Alone'
  BY <1>1 DEF ReportArrives, Alone
<1>2. ASSUME NEW h \in running, UNCHANGED overlapped,
             Done(h) \/ \E next : Step(h, next) /\ next.kind = h.kind
      PROVE  Alone'
  BY <1>2 DEF Alone, Done, Step
<1>3. CASE StatusChanges \/ UNCHANGED ingestVars
  BY <1>3 DEF StatusChanges, ingestVars, Alone
<1> QED BY <1>1, <1>2, <1>3, ReportSteps, HandlerSteps DEF IngestNext

(* An event handler about to store had arrived before every row of its kind *)
(* was stored; one about to announce has its row.                          *)
StoredOnce ==
    /\ OneRowPerKind
    /\ \A h \in running : h.kind = "audit" =>
          /\ h.body.nr = h.nr
          /\ h.at = "store" => \A i \in DOMAIN audits :
                                  audits[i].id = h.body.id => h.body.nr <= audits[i].upto
          /\ h.at = "alert" => RowOf(h.body)

LEMMA AppendToSet ==
  ASSUME NEW S, NEW s \in Seq(S), NEW e \in S
  PROVE  /\ ToSet(Append(s, e)) = ToSet(s) \cup {e} /\ Append(s, e) \in Seq(S)
         /\ DOMAIN Append(s, e) = DOMAIN s \cup {Len(s) + 1} /\ Len(s) + 1 \notin DOMAIN s
         /\ Append(s, e)[Len(s) + 1] = e /\ \A i \in DOMAIN s : Append(s, e)[i] = s[i]
<1>1. /\ Append(s, e) \in Seq(S) /\ DOMAIN Append(s, e) = DOMAIN s \cup {Len(s) + 1}
      /\ Len(s) + 1 \notin DOMAIN s
      /\ Append(s, e)[Len(s) + 1] = e /\ \A i \in DOMAIN s : Append(s, e)[i] = s[i]
  OBVIOUS
<1>2. ToSet(Append(s, e)) = ToSet(s) \cup {e}
  BY <1>1 DEF ToSet
<1> QED BY <1>1, <1>2

(* The new row is the last, and its handler had passed the look for rows.   *)
LEMMA StoresEventEvents ==
  ASSUME IngestInv, StoredOnce, NEW h \in running, StoresEvent(h) PROVE StoredOnce'
<1> DEFINE next == [h EXCEPT !.at = "alert"]
           row == [id |-> h.body.id, nr |-> h.body.nr, upto |-> reports]
           last == Len(audits) + 1
<1>1. /\ h.kind = "audit" /\ h.at = "store" /\ audits' = Append(audits, row)
      /\ Step(h, next) /\ UNCHANGED <<alertsSent, due, reports>>
  BY DEF StoresEvent, Goto
<1>2. /\ h \in Handler /\ h.body \in Event /\ audits \in Seq(AuditRow)
      /\ reports \in 0 .. MaxReports
  BY <1>1 DEF IngestInv, IngestTypeOK, Ingesting, Handler
<1>3. row \in AuditRow /\ row.id = h.body.id /\ row.nr = h.body.nr /\ row.upto = reports
  BY <1>2 DEF AuditRow, Event
<1>4. next.at = "alert" /\ next.kind = "audit" /\ next.body = h.body /\ next.nr = h.nr
  BY <1>1, <1>2 DEF Handler
<1> HIDE DEF next, row
<1>5. /\ DOMAIN audits' = DOMAIN audits \cup {last} /\ last \notin DOMAIN audits
      /\ audits'[last] = row /\ \A i \in DOMAIN audits : audits'[i] = audits[i]
  BY <1>1, <1>2, <1>3, AppendToSet
<1>6. \A i \in DOMAIN audits : i < last /\ i \in Nat
  BY <1>2
<1>7. \A g \in running' : g = next \/ (g \in running /\ g # h)
  BY <1>1 DEF Step
<1>8. \A g \in running : g # h => g \in running'
  BY <1>1 DEF Step
<1>9. \A e : RowOf(e) => RowOf(e)'
  BY <1>5 DEF RowOf
<1>10. RowOf(h.body)'
  BY <1>3, <1>5 DEF RowOf
<1>11. OneRowPerKind'
  <2>1. ASSUME NEW id \in due
        PROVE  \/ \E i \in DOMAIN audits' : audits'[i].id = id
               \/ \E g \in running' : g.kind = "audit" /\ g.at \in {"find", "store"} /\ g.body.id = id
    <3>1. CASE \E i \in DOMAIN audits : audits[i].id = id
      BY <1>5, <3>1
    <3>2. CASE h.body.id = id
      BY <1>3, <1>5, <3>2
    <3>3. CASE \E g \in running : /\ g.kind = "audit" /\ g.at \in {"find", "store"}
                                  /\ g.body.id = id /\ g # h
      BY <1>8, <3>3
    <3> QED BY <3>1, <3>2, <3>3 DEF StoredOnce, OneRowPerKind
  <2>2. ASSUME NEW i \in DOMAIN audits', NEW j \in DOMAIN audits', i < j,
               audits'[i].id = audits'[j].id
        PROVE  audits'[j].nr <= audits'[i].upto
    <3>1. CASE j \in DOMAIN audits
      <4>1. i \in DOMAIN audits
        BY <1>5, <1>6, <2>2, <3>1
      <4> QED BY <1>5, <2>2, <3>1, <4>1 DEF StoredOnce, OneRowPerKind
    <3>2. CASE j = last
      <4>1. i \in DOMAIN audits
        BY <1>5, <1>2, <2>2, <3>2
      <4> QED BY <1>1, <1>3, <1>5, <2>2, <3>2, <4>1 DEF StoredOnce
    <3> QED BY <1>5, <3>1, <3>2
  <2>3. \A a \in ToSet(alertsSent) : RowOf(a)'
    BY <1>9 DEF StoredOnce, OneRowPerKind
  <2> QED BY <1>1, <2>1, <2>2, <2>3 DEF OneRowPerKind
<1>12. ASSUME NEW g \in running', g.kind = "audit"
       PROVE  /\ g.body.nr = g.nr
              /\ g.at = "store" => \A i \in DOMAIN audits' :
                                     audits'[i].id = g.body.id => g.body.nr <= audits'[i].upto
              /\ g.at = "alert" => RowOf(g.body)'
  <2>1. CASE g = next
    BY <1>1, <1>4, <1>10, <2>1 DEF StoredOnce
  <2>2. CASE g \in running /\ g # h
    <3>1. g.body.nr = g.nr /\ g.nr <= reports
      BY <1>12, <2>2 DEF StoredOnce, IngestInv, Ingesting
    <3> QED BY <1>3, <1>5, <1>9, <1>12, <2>2, <3>1 DEF StoredOnce
  <2> QED BY <1>7, <2>1, <2>2
<1> QED BY <1>11, <1>12 DEF StoredOnce

(* A step that leaves the rows alone: what is left to show are the handlers *)
(* and the announcements.                                                  *)
LEMMA SameRows ==
  ASSUME StoredOnce, UNCHANGED audits,
         \A g \in running' : g.kind = "audit" =>
             /\ g.body.nr = g.nr
             /\ g.at = "store" => \A i \in DOMAIN audits :
                                    audits[i].id = g.body.id => g.body.nr <= audits[i].upto
             /\ g.at = "alert" => RowOf(g.body),
         \A id \in due' :
            \/ \E i \in DOMAIN audits : audits[i].id = id
            \/ \E g \in running' : g.kind = "audit" /\ g.at \in {"find", "store"} /\ g.body.id = id,
         \A a \in ToSet(alertsSent)' : RowOf(a)
  PROVE  StoredOnce'
BY DEF StoredOnce, OneRowPerKind, RowOf

LEMMA EventsStep ==
  ASSUME IngestInv, StoredOnce, [IngestNext]_ingestVars PROVE StoredOnce'
<1> USE DEF StoredOnce, OneRowPerKind
<1>1. ASSUME NEW new, ReportArrives(new) PROVE StoredOnce'
  <2>1. /\ UNCHANGED <<audits, alertsSent, due>> /\ running' = running \cup {new}
        /\ new.kind = "audit" => new.at = "status" /\ new.body.nr = new.nr
    BY <1>1 DEF ReportArrives
  <2> QED BY <2>1, SameRows
<1>2. ASSUME NEW h \in running, SendsAlert(h) PROVE StoredOnce'
  <2>1. /\ alertsSent' = Append(alertsSent, h.body) /\ RowOf(h.body) /\ h.at = "alert"
        /\ running' = running \ {h} /\ UNCHANGED <<audits, due>>
    BY <1>2 DEF SendsAlert, Done
  <2>2. alertsSent \in Seq(Event) /\ h.body \in Event
    BY <1>2 DEF SendsAlert, IngestInv, IngestTypeOK, Ingesting, Handler
  <2>3. ToSet(alertsSent') = ToSet(alertsSent) \cup {h.body}
    BY <2>1, <2>2, AppendToSet
  <2> QED BY <2>1, <2>3, SameRows
<1>3. ASSUME NEW h \in running, FindsEvent(h) \/ ChecksStatus(h) PROVE StoredOnce'
  <2>1. UNCHANGED <<audits, alertsSent>> /\ h \in Handler
    BY <1>3 DEF FindsEvent, ChecksStatus, IngestInv, Ingesting
  <2>2. ASSUME NEW stage \in {"find", "store"}
        PROVE  /\ [h EXCEPT !.at = stage].at = stage /\ [h EXCEPT !.at = stage].kind = h.kind
               /\ [h EXCEPT !.at = stage].body = h.body /\ [h EXCEPT !.at = stage].nr = h.nr
    BY <2>1 DEF Handler
  <2> DEFINE ends == \/ ChecksStatus(h) /\ ~active
                     \/ FindsEvent(h) /\ \E i \in DOMAIN audits : audits[i].id = h.body.id
  <2>3. CASE ends
    <3>1. running' = running \ {h} /\ due' = due
      BY <2>3 DEF FindsEvent, ChecksStatus, Done
    <3>2. h.kind = "audit" /\ h.at \in {"find", "store"} =>
             \E i \in DOMAIN audits : audits[i].id = h.body.id
      BY <2>3 DEF FindsEvent, ChecksStatus
    <3> QED BY <2>1, <3>1, <3>2, SameRows
  <2>4. CASE ~ends
    <3>1. PICK stage \in {"find", "store"} :
             /\ Goto(h, stage)
             /\ h.kind = "audit" /\ stage = "store" =>
                   \A i \in DOMAIN audits : audits[i].id # h.body.id
      BY <1>3, <2>4 DEF FindsEvent, ChecksStatus
    <3>2. due' = due \/ (h.kind = "audit" /\ due' = due \cup {h.body.id})
      BY <1>3 DEF FindsEvent, ChecksStatus
    <3> DEFINE next == [h EXCEPT !.at = stage]
    <3>3. running' = (running \ {h}) \cup {next} /\ next.at = stage /\ next.kind = h.kind
          /\ next.body = h.body /\ next.nr = h.nr
      BY <2>2, <3>1 DEF Goto, Step
    <3> HIDE DEF next
    <3> QED BY <2>1, <3>1, <3>2, <3>3, SameRows
  <2> QED BY <2>3, <2>4
<1>4. ASSUME NEW h \in running,
             StoresHeartbeat(h) \/ ReadsSession(h) \/ StoresSession(h) \/ StoresShot(h)
      PROVE  StoredOnce'
  <2>1. UNCHANGED <<audits, alertsSent, due>> /\ h.kind # "audit"
    BY <1>4 DEF StoresHeartbeat, ReadsSession, StoresSession, StoresShot, IsActivity, Table
  <2>2. Done(h) \/ \E next : Step(h, next) /\ next.kind = h.kind
    BY <1>4, HandlerSteps
  <2> QED BY <2>1, <2>2, SameRows DEF Step, Done
<1>5. CASE StatusChanges \/ UNCHANGED ingestVars
  <2>1. UNCHANGED <<audits, alertsSent, due, running>>
    BY <1>5 DEF StatusChanges, ingestVars
  <2> QED BY <2>1, SameRows
<1> QED BY <1>1, <1>2, <1>3, <1>4, <1>5, StoresEventEvents, ReportSteps DEF IngestNext

(* However many handlers of audit events overlap: every kind of event      *)
(* reported to an active machine gets a row, a second row of a kind belongs *)
(* to a report that arrived before the first one was stored - what arrives *)
(* later is dropped - and nothing is announced without a row: findFirst and *)
(* create of the audit handler are two statements.                         *)
THEOREM KindsAreStored == IngestSpec => []OneRowPerKind
<1>1. IngestInit => StoredOnce
  BY DEF IngestInit, StoredOnce, OneRowPerKind, ToSet
<1>2. StoredOnce => OneRowPerKind
  BY DEF StoredOnce
<1> QED BY <1>1, <1>2, InitIngestInv, NextIngestInv, EventsStep, PTL DEF IngestSpec

(* The heartbeat of a handler in progress.                                 *)
Beat(h) == [nr |-> h.nr, program |-> h.body.program, start |-> h.body.start,
            end |-> h.body.start + h.body.length]

(* All that is stored ended before the activity in progress began, and the *)
(* session it has read is still the last one, unchanged.                   *)
Timeline ==
    /\ \A i \in DOMAIN sessions :
          sessions[i].start <= sessions[i].end /\ sessions[i].end <= clock
    /\ \A b \in heartbeats : b.start <= b.end /\ b.end <= clock
    /\ \A h \in InProgress :
          /\ \A i \in DOMAIN sessions : sessions[i].end < h.body.start
          /\ \A b \in heartbeats :
                b.end < h.body.start \/ (h.at \notin {"status", "store"} /\ b = Beat(h))
          /\ h.at \notin {"status", "store"} => Beat(h) \in heartbeats
          /\ h.at = "first" => sessions = <<>>
          /\ h.at = "merge" => h.row \in RecentSessions /\ h.read = sessions[h.row]

Covered ==
    \A b \in heartbeats : \/ \E h \in InProgress : b = Beat(h)
                          \/ \E i \in DOMAIN sessions : Covers(sessions[i], b)

Counted ==
    \A i \in DOMAIN sessions :
        sessions[i].count = Cardinality({b \in heartbeats : Covers(sessions[i], b)})

OneByOne ==
    /\ IsFiniteSet(heartbeats)
    /\ ~overlapped => Timeline /\ Covered /\ Counted

LEMMA Times ==
  ASSUME IngestInv
  PROVE  /\ clock \in Nat
         /\ \A i \in DOMAIN sessions : sessions[i].start \in Nat /\ sessions[i].end \in Nat
         /\ \A b \in heartbeats : b.start \in Nat /\ b.end \in Nat
         /\ \A h \in InProgress :
               /\ Beat(h).start = h.body.start /\ Beat(h).end = h.body.start + h.body.length
               /\ Beat(h).program = h.body.program
               /\ h.body.start \in Nat /\ h.body.length \in 0 .. 1
               /\ Beat(h).start <= Beat(h).end /\ Beat(h).end <= clock /\ Beat(h).end \in Nat
<1>1. clock \in Nat /\ Limit \in Nat
  BY IngestAssumption, Bounds DEF IngestInv, IngestTypeOK, Limit
<1>2. \A i \in DOMAIN sessions : sessions[i].start \in Nat /\ sessions[i].end \in Nat
  BY CountsAreNumbers, <1>1 DEF Session
<1>3. \A b \in heartbeats : b.start \in Nat /\ b.end \in Nat
  BY <1>1 DEF IngestInv, IngestTypeOK
<1>4. ASSUME NEW h \in InProgress
      PROVE  /\ Beat(h).start = h.body.start /\ Beat(h).end = h.body.start + h.body.length
             /\ Beat(h).program = h.body.program
             /\ h.body.start \in Nat /\ h.body.length \in 0 .. 1
             /\ h.body.start + h.body.length <= clock
  BY ActivityHandler DEF Beat
<1> QED BY <1>1, <1>2, <1>3, <1>4

(* What the steps that store neither heartbeats nor sessions have to show. *)
LEMMA NothingStored ==
  ASSUME IngestInv, OneByOne, ~overlapped' => ~overlapped,
         UNCHANGED <<heartbeats, sessions>>, clock' \in Nat, clock <= clock',
         ~overlapped' => \A h \in InProgress' : h \in InProgress \/
            /\ \A i \in DOMAIN sessions : sessions[i].end < h.body.start
            /\ \A b \in heartbeats :
                  b.end < h.body.start \/ (h.at \notin {"status", "store"} /\ b = Beat(h))
            /\ h.at \notin {"status", "store"} => Beat(h) \in heartbeats
            /\ h.at = "first" => sessions = <<>>
            /\ h.at = "merge" => h.row \in RecentSessions /\ h.read = sessions[h.row],
         ~overlapped' => \A h \in InProgress : Beat(h) \in heartbeats =>
                            \E g \in InProgress' : Beat(g) = Beat(h)
  PROVE  OneByOne'
<1> SUFFICES ASSUME ~overlapped' PROVE (Timeline /\ Covered /\ Counted)'
  BY DEF OneByOne
<1>1. ~overlapped /\ Timeline /\ Covered /\ Counted
  BY DEF OneByOne
<1>2. /\ \A i \in DOMAIN sessions :
             sessions[i].start <= sessions[i].end /\ sessions[i].end <= clock'
      /\ \A b \in heartbeats : b.start <= b.end /\ b.end <= clock'
  BY <1>1, Times DEF Timeline
<1>3. RecentSessions' = RecentSessions
  BY DEF RecentSessions
<1>4. Timeline'
  BY <1>1, <1>2, <1>3 DEF Timeline
<1>5. Covered'
  BY <1>1 DEF Covered
<1>6. Counted'
  BY <1>1 DEF Counted
<1> QED BY <1>4, <1>5, <1>6

LEMMA OnlyOne ==
  ASSUME IngestInv, Alone, ~overlapped, NEW h \in InProgress
  PROVE  InProgress = {h}
  BY DEF Alone, InProgress, IsActivity

LEMMA ArrivesOneByOne ==
  ASSUME IngestInv, IngestInv', Alone, OneByOne, NEW new, ReportArrives(new) PROVE OneByOne'
<1>1. clock' \in Nat /\ clock \in Nat /\ UNCHANGED <<heartbeats, sessions>>
  BY Times, IngestAssumption, Bounds DEF IngestInv, IngestTypeOK, Limit, ReportArrives
<1>2. clock <= clock'
  BY <1>1, Times DEF ReportArrives
<1>3. ~overlapped' => ~overlapped
  BY DEF ReportArrives
<1>4. InProgress' \subseteq InProgress \cup {new} /\ InProgress \subseteq InProgress'
  BY DEF ReportArrives, InProgress, IsActivity
<1>5. ASSUME ~overlapped', NEW h \in InProgress', h \notin InProgress
      PROVE  /\ \A i \in DOMAIN sessions : sessions[i].end < h.body.start
             /\ \A b \in heartbeats : b.end < h.body.start
             /\ h.at \in {"status", "store"}
  <2>1. h = new /\ IsActivity(new)
    BY <1>4, <1>5 DEF InProgress, IsActivity
  <2>2. clock < h.body.start /\ h.body.start \in Nat /\ h.at \in {"status", "store"}
    BY <2>1 DEF ReportArrives
  <2>3. Timeline
    BY <1>3, <1>5 DEF OneByOne
  <2> QED BY <1>1, <2>2, <2>3, Times DEF Timeline
<1> QED BY <1>1, <1>2, <1>3, <1>4, <1>5, NothingStored

LEMMA StoresHeartbeatOneByOne ==
  ASSUME IngestInv, Alone, OneByOne, NEW h \in running, StoresHeartbeat(h) PROVE OneByOne'
<1> DEFINE next == [h EXCEPT !.at = "recent"]
<1>1. /\ h \in InProgress /\ h.at = "store" /\ heartbeats' = heartbeats \cup {Beat(h)}
      /\ Step(h, next) /\ UNCHANGED <<clock, sessions, overlapped>>
  BY DEF StoresHeartbeat, InProgress, Beat, Goto
<1>2. next.at = "recent" /\ next.kind = h.kind /\ next.body = h.body /\ next.nr = h.nr
  BY <1>1, ActivityHandler DEF Handler
<1> HIDE DEF next
<1>3. IsFiniteSet(heartbeats')
  BY <1>1, FS_AddElement DEF OneByOne
<1> SUFFICES ASSUME ~overlapped PROVE (Timeline /\ Covered /\ Counted)'
  BY <1>1, <1>3 DEF OneByOne
<1>4. Timeline /\ Covered /\ Counted /\ InProgress = {h}
  BY <1>1, OnlyOne DEF OneByOne
<1>5. InProgress' = {next} /\ Beat(next) = Beat(h)
  <2>1. running' = (running \ {h}) \cup {next}
    BY <1>1 DEF Step
  <2> QED BY <1>1, <1>2, <1>4, <2>1 DEF InProgress, IsActivity, Beat
<1>6. /\ Beat(h).start = h.body.start /\ Beat(h).end \in Nat /\ h.body.start \in Nat
      /\ h.body.start <= Beat(h).end /\ Beat(h).end <= clock /\ Beat(h).start <= Beat(h).end
  BY <1>1, Times
<1>7. \A i \in DOMAIN sessions : sessions[i].end < h.body.start /\ ~Covers(sessions[i], Beat(h))
  <2> TAKE i \in DOMAIN sessions
  <2>1. sessions[i].end < h.body.start /\ sessions[i].end \in Nat
    BY <1>1, <1>4, Times DEF Timeline
  <2> QED BY <1>6, <2>1 DEF Covers
<1>8. Timeline'
  <2>1. \A b \in heartbeats : b.end < h.body.start
    BY <1>1, <1>4 DEF Timeline
  <2>2. /\ \A i \in DOMAIN sessions :
              sessions[i].start <= sessions[i].end /\ sessions[i].end <= clock
        /\ \A b \in heartbeats' : b.start <= b.end /\ b.end <= clock
    BY <1>1, <1>4, <1>6 DEF Timeline
  <2>3. \A b \in heartbeats' : b.end < next.body.start \/ b = Beat(next)
    BY <1>1, <1>2, <1>5, <2>1
  <2> QED BY <1>1, <1>2, <1>5, <1>7, <2>2, <2>3 DEF Timeline
<1>9. Covered'
  BY <1>1, <1>4, <1>5 DEF Covered
<1>10. Counted'
  <2> SUFFICES ASSUME NEW i \in DOMAIN sessions
               PROVE  {b \in heartbeats' : Covers(sessions[i], b)}
                        = {b \in heartbeats : Covers(sessions[i], b)}
    BY <1>1, <1>4 DEF Counted
  <2> QED BY <1>1, <1>7
<1> QED BY <1>8, <1>9, <1>10

LEMMA ReadsSessionOneByOne ==
  ASSUME IngestInv, Alone, OneByOne, NEW h \in running, ReadsSession(h) PROVE OneByOne'
<1>1. /\ h \in InProgress /\ h.at = "recent"
      /\ UNCHANGED <<clock, heartbeats, sessions, overlapped>> /\ clock \in Nat
  BY Times DEF ReadsSession, InProgress
<1>2. PICK next : /\ Step(h, next) /\ next.kind = h.kind /\ next.body = h.body /\ next.nr = h.nr
                  /\ next.at \in {"first", "merge"}
                  /\ next.at = "first" => sessions = <<>>
                  /\ next.at = "merge" => next.row \in RecentSessions /\ next.read = sessions[next.row]
  <2>1. CASE sessions = <<>>
    BY <1>1, <2>1 DEF ReadsSession
  <2>2. CASE sessions # <<>>
    <3>1. PICK i \in RecentSessions :
                 Step(h, [kind |-> h.kind, nr |-> h.nr, at |-> "merge", body |-> h.body,
                          row |-> i, read |-> sessions[i]])
      BY <2>2 DEF ReadsSession
    <3> WITNESS [kind |-> h.kind, nr |-> h.nr, at |-> "merge", body |-> h.body,
                 row |-> i, read |-> sessions[i]]
    <3> QED BY <3>1
  <2> QED BY <2>1, <2>2
<1>3. Beat(next) = Beat(h)
  BY <1>2 DEF Beat
<1>4. running' = (running \ {h}) \cup {next}
  BY <1>2 DEF Step
<1>5. next \in InProgress' /\ \A g \in InProgress' : g \in InProgress \/ g = next
  BY <1>1, <1>2, <1>4 DEF InProgress, IsActivity
<1>6. ~overlapped =>
        /\ \A i \in DOMAIN sessions : sessions[i].end < next.body.start
        /\ \A b \in heartbeats : b.end < next.body.start \/ b = Beat(next)
        /\ Beat(next) \in heartbeats
  BY <1>1, <1>2, <1>3 DEF OneByOne, Timeline
<1>7. \A g \in InProgress : g \in InProgress' \/ g = h
  BY <1>1, <1>2, <1>4 DEF InProgress, IsActivity
<1>8. ~overlapped' => \A g \in InProgress : Beat(g) \in heartbeats =>
                         \E k \in InProgress' : Beat(k) = Beat(g)
  BY <1>3, <1>5, <1>7
<1>9. ~overlapped' => \A g \in InProgress' : g \in InProgress \/
         /\ \A i \in DOMAIN sessions : sessions[i].end < g.body.start
         /\ \A b \in heartbeats :
               b.end < g.body.start \/ (g.at \notin {"status", "store"} /\ b = Beat(g))
         /\ g.at \notin {"status", "store"} => Beat(g) \in heartbeats
         /\ g.at = "first" => sessions = <<>>
         /\ g.at = "merge" => g.row \in RecentSessions /\ g.read = sessions[g.row]
  BY <1>1, <1>2, <1>5, <1>6
<1> QED BY <1>1, <1>8, <1>9, NothingStored

(* The session that was read is extended: it covers what it covered and    *)
(* the activity, nothing else.                                             *)
LEMMA ExtendsOneByOne ==
  ASSUME IngestInv, Alone, OneByOne, NEW h \in running, StoresSession(h), Extends(h), ~overlapped
  PROVE  (Timeline /\ Covered /\ Counted)'
<1>1. /\ h \in InProgress /\ h.at = "merge" /\ Done(h)
      /\ UNCHANGED <<clock, heartbeats, overlapped>>
  BY DEF StoresSession, InProgress, Extends
<1>2. Timeline /\ Covered /\ Counted /\ InProgress = {h} /\ InProgress' = {}
  <2>1. running' = running \ {h}
    BY <1>1 DEF Done
  <2>2. InProgress = {h}
    BY <1>1, OnlyOne
  <2> QED BY <2>1, <2>2 DEF OneByOne, InProgress, IsActivity
<1> DEFINE r == h.row
           old == sessions[r]
           beat == Beat(h)
           Under(s) == {b \in heartbeats : Covers(s, b)}
<1>3. /\ r \in DOMAIN sessions /\ h.read = old /\ beat \in heartbeats /\ old.end < beat.start
      /\ \A j \in DOMAIN sessions : sessions[j].end <= old.end
      /\ old.program = beat.program
  BY <1>1, <1>2, Times DEF Timeline, RecentSessions, Extends
<1>4. /\ sessions \in Seq(Session) /\ old \in Session /\ clock \in Nat
      /\ beat.start \in Nat /\ beat.end \in Nat /\ beat.start <= beat.end /\ beat.end <= clock
      /\ old.start \in Nat /\ old.end \in Nat /\ old.start <= old.end
      /\ beat.end = NewEnd(h)
  BY <1>1, <1>2, <1>3, Times, CountsAreNumbers DEF IngestInv, IngestTypeOK, Timeline, NewEnd
<1> DEFINE merged == [old EXCEPT !.end = NewEnd(h), !.count = h.read.count + 1]
<1>5. /\ sessions' = [sessions EXCEPT ![r] = merged]
      /\ DOMAIN sessions' = DOMAIN sessions
      /\ sessions'[r] = merged /\ \A j \in DOMAIN sessions \ {r} : sessions'[j] = sessions[j]
  <2>1. sessions' = [sessions EXCEPT ![h.row] =
                       [@ EXCEPT !.end = NewEnd(h), !.count = h.read.count + 1]]
    BY DEF StoresSession
  <2> QED BY <1>3, <1>4, <2>1
<1>6. /\ merged.program = old.program /\ merged.start = old.start
      /\ merged.end = beat.end /\ merged.count = old.count + 1
  BY <1>3, <1>4 DEF Session
<1> HIDE DEF r, old, beat, merged
<1>7. Under(merged) = Under(old) \cup {beat} /\ beat \notin Under(old)
  <2>1. ASSUME NEW b \in heartbeats, Covers(old, b) PROVE Covers(merged, b)
    <3>1. b.end \in Nat /\ b.end <= old.end /\ old.end <= beat.end
      BY <1>3, <1>4, <2>1, Times DEF Covers
    <3> QED BY <1>4, <1>6, <2>1, <3>1 DEF Covers
  <2>2. Covers(merged, beat) /\ ~Covers(old, beat)
    <3>1. old.start <= beat.start /\ ~(beat.end <= old.end)
      BY <1>3, <1>4
    <3> QED BY <1>3, <1>4, <1>6, <3>1 DEF Covers
  <2>3. ASSUME NEW b \in heartbeats, Covers(merged, b), b # beat PROVE Covers(old, b)
    <3>1. PICK j \in DOMAIN sessions : Covers(sessions[j], b)
      BY <1>2, <2>3 DEF Covered, beat
    <3>2. b.end <= sessions[j].end /\ sessions[j].end <= old.end /\ b.end \in Nat
          /\ sessions[j].end \in Nat
      BY <1>3, <3>1, Times DEF Covers
    <3> QED BY <1>4, <1>6, <2>3, <3>2 DEF Covers
  <2> QED BY <1>3, <2>1, <2>2, <2>3
<1>8. Timeline'
  <2>1. ASSUME NEW j \in DOMAIN sessions'
        PROVE  sessions'[j].start <= sessions'[j].end /\ sessions'[j].end <= clock
    <3>1. CASE j = r
      <4>1. old.start <= beat.end
        BY <1>3, <1>4
      <4> QED BY <1>4, <1>5, <1>6, <3>1, <4>1
    <3>2. CASE j # r
      BY <1>2, <1>5, <2>1, <3>2 DEF Timeline
    <3> QED BY <3>1, <3>2
  <2> QED BY <1>1, <1>2, <2>1 DEF Timeline
<1>9. Covered'
  <2> SUFFICES ASSUME NEW b \in heartbeats
               PROVE  \E j \in DOMAIN sessions' : Covers(sessions'[j], b)
    BY <1>1 DEF Covered
  <2>1. CASE b = beat
    BY <1>3, <1>5, <1>7, <2>1
  <2>2. CASE b # beat
    <3>1. PICK j \in DOMAIN sessions : Covers(sessions[j], b)
      BY <1>2, <2>2 DEF Covered, beat
    <3>2. CASE j = r
      BY <1>3, <1>5, <1>7, <3>1, <3>2 DEF old
    <3> QED BY <1>5, <3>1, <3>2
  <2> QED BY <2>1, <2>2
<1>10. Counted'
  <2>1. IsFiniteSet(heartbeats) /\ IsFiniteSet(Under(old))
    BY FS_Subset DEF OneByOne
  <2>2. Cardinality(Under(merged)) = Cardinality(Under(old)) + 1
    BY <1>7, <2>1, FS_AddElement
  <2>3. ASSUME NEW j \in DOMAIN sessions
        PROVE  sessions'[j].count = Cardinality(Under(sessions'[j]))
    <3>1. sessions[j].count = Cardinality(Under(sessions[j]))
      BY <1>2 DEF Counted
    <3>2. CASE j = r
      BY <1>5, <1>6, <2>2, <3>1, <3>2 DEF old
    <3>3. CASE j # r
      BY <1>5, <3>1, <3>3
    <3> QED BY <3>2, <3>3
  <2> QED BY <1>1, <1>5, <2>3 DEF Counted
<1> QED BY <1>8, <1>9, <1>10

(* A new session covers the activity, nothing else.                        *)
LEMMA BeginsOneByOne ==
  ASSUME IngestInv, Alone, OneByOne, NEW h \in running, StoresSession(h), ~Extends(h), ~overlapped
  PROVE  (Timeline /\ Covered /\ Counted)'
<1> DEFINE beat == Beat(h)
           n == Len(sessions)
           new == [program |-> h.body.program, start |-> h.body.start,
                   end |-> NewEnd(h), count |-> 1]
           Under(s) == {b \in heartbeats : Covers(s, b)}
<1>1. /\ h \in InProgress /\ h.at \in {"first", "merge"} /\ Done(h)
      /\ sessions' = Append(sessions, new)
      /\ UNCHANGED <<clock, heartbeats, overlapped>>
  BY DEF StoresSession, InProgress
<1>2. Timeline /\ Covered /\ Counted /\ InProgress = {h} /\ InProgress' = {}
  <2>1. running' = running \ {h}
    BY <1>1 DEF Done
  <2>2. InProgress = {h}
    BY <1>1, OnlyOne
  <2> QED BY <2>1, <2>2 DEF OneByOne, InProgress, IsActivity
<1>3. /\ sessions \in Seq(Session) /\ clock \in Nat
      /\ beat.start \in Nat /\ beat.end \in Nat /\ beat.start <= beat.end /\ beat.end <= clock
      /\ beat \in heartbeats /\ \A b \in heartbeats \ {beat} : b.end < beat.start
  BY <1>1, <1>2, Times DEF IngestInv, IngestTypeOK, Timeline
<1>4. /\ new.program = beat.program /\ new.start = beat.start /\ new.end = beat.end
      /\ new.count = 1
  BY <1>1, Times DEF NewEnd
<1> HIDE DEF new, beat
<1>5. /\ DOMAIN sessions' = DOMAIN sessions \cup {n + 1} /\ sessions'[n + 1] = new
      /\ \A j \in DOMAIN sessions : sessions'[j] = sessions[j]
      /\ n + 1 \notin DOMAIN sessions
  BY <1>1, <1>3
<1> HIDE DEF n
<1>6. Under(new) = {beat}
  <2>1. Covers(new, beat)
    BY <1>3, <1>4 DEF Covers
  <2>2. ASSUME NEW b \in heartbeats, b # beat PROVE ~Covers(new, b)
    <3>1. b.end < beat.start /\ b.start <= b.end /\ b.start \in Nat /\ b.end \in Nat
      BY <1>2, <1>3, <2>2, Times DEF Timeline
    <3> QED BY <1>3, <1>4, <3>1 DEF Covers
  <2> QED BY <1>3, <2>1, <2>2
<1>7. Timeline'
  <2>1. \A j \in DOMAIN sessions' :
           sessions'[j].start <= sessions'[j].end /\ sessions'[j].end <= clock
    BY <1>2, <1>3, <1>4, <1>5 DEF Timeline
  <2> QED BY <1>1, <1>2, <2>1 DEF Timeline
<1>8. Covered'
  <2> SUFFICES ASSUME NEW b \in heartbeats
               PROVE  \E j \in DOMAIN sessions' : Covers(sessions'[j], b)
    BY <1>1 DEF Covered
  <2>1. CASE b = beat
    BY <1>3, <1>5, <1>6, <2>1
  <2>2. CASE b # beat
    <3>1. PICK j \in DOMAIN sessions : Covers(sessions[j], b)
      BY <1>2, <2>2 DEF Covered, beat
    <3> QED BY <1>5, <3>1
  <2> QED BY <2>1, <2>2
<1>9. Counted'
  <2>1. Cardinality(Under(new)) = 1
    BY <1>6, FS_Singleton
  <2>2. ASSUME NEW j \in DOMAIN sessions'
        PROVE  sessions'[j].count = Cardinality(Under(sessions'[j]))
    <3>1. CASE j \in DOMAIN sessions
      BY <1>2, <1>5, <3>1 DEF Counted
    <3>2. CASE j = n + 1
      BY <1>4, <1>5, <2>1, <3>2
    <3> QED BY <1>5, <3>1, <3>2
  <2> QED BY <1>1, <2>2 DEF Counted
<1> QED BY <1>7, <1>8, <1>9

LEMMA OneByOneStep ==
  ASSUME IngestInv, IngestInv', Alone, OneByOne, [IngestNext]_ingestVars PROVE OneByOne'
<1>1. ASSUME NEW h \in running, StoresSession(h) PROVE OneByOne'
  <2>1. UNCHANGED <<heartbeats, overlapped>>
    BY <1>1 DEF StoresSession
  <2> QED BY <1>1, <2>1, ExtendsOneByOne, BeginsOneByOne DEF OneByOne
<1>2. ASSUME NEW h \in running, ChecksStatus(h) PROVE OneByOne'
  <2>1. /\ UNCHANGED <<clock, heartbeats, sessions, overlapped>> /\ h.at = "status"
        /\ h \in Handler /\ clock \in Nat
        /\ Done(h) \/ \E stage \in {"find", "store"} :
              Goto(h, stage) /\ (h.kind # "audit" => stage = "store")
    BY <1>2, Times DEF ChecksStatus, IngestInv, Ingesting
  <2>2. CASE Done(h)
    <3>1. InProgress' \subseteq InProgress /\ InProgress \subseteq InProgress' \cup {h}
      BY <2>2 DEF Done, InProgress, IsActivity
    <3>2. ~overlapped /\ h \in InProgress => Beat(h) \notin heartbeats
      <4> SUFFICES ASSUME ~overlapped, h \in InProgress, Beat(h) \in heartbeats PROVE FALSE
        OBVIOUS
      <4>1. Beat(h).end < h.body.start
        BY <2>1 DEF OneByOne, Timeline
      <4> QED BY <4>1, Times
    <3> QED BY <2>1, <3>1, <3>2, NothingStored
  <2>3. ASSUME NEW stage \in {"find", "store"}, Goto(h, stage), h.kind # "audit" => stage = "store"
        PROVE  OneByOne'
    <3> DEFINE next == [h EXCEPT !.at = stage]
    <3>1. /\ next.at = stage /\ next.kind = h.kind /\ next.body = h.body /\ next.nr = h.nr
      BY <2>1 DEF Handler
    <3>2. running' = (running \ {h}) \cup {next}
      BY <2>3 DEF Goto, Step
    <3> HIDE DEF next
    <3>3. Beat(next) = Beat(h)
      BY <3>1 DEF Beat
    <3>4. /\ \A g \in InProgress' : g \in InProgress \/ (g = next /\ h \in InProgress /\ g.at = "store")
          /\ \A g \in InProgress : g \in InProgress' \/ (g = h /\ next \in InProgress')
      BY <2>3, <3>1, <3>2 DEF InProgress, IsActivity, Table
    <3>5. ~overlapped /\ h \in InProgress =>
            /\ \A i \in DOMAIN sessions : sessions[i].end < next.body.start
            /\ \A b \in heartbeats : b.end < next.body.start
      BY <2>1, <3>1 DEF OneByOne, Timeline
    <3> QED BY <2>1, <3>3, <3>4, <3>5, NothingStored
  <2> QED BY <2>1, <2>2, <2>3
<1>3. ASSUME UNCHANGED <<clock, heartbeats, sessions, overlapped>>, InProgress' = InProgress
      PROVE  OneByOne'
  BY <1>3, NothingStored, Times
<1>4. ASSUME NEW h \in running, FindsEvent(h) \/ StoresEvent(h) \/ SendsAlert(h) \/ StoresShot(h)
      PROVE  OneByOne'
  <2>1. UNCHANGED <<clock, heartbeats, sessions, overlapped>> /\ ~IsActivity(h)
    BY <1>4 DEF FindsEvent, StoresEvent, SendsAlert, StoresShot, IsActivity, Table
  <2>2. Done(h) \/ \E next : Step(h, next) /\ next.kind = h.kind
    BY <1>4, HandlerSteps
  <2>3. InProgress' = InProgress
    BY <2>1, <2>2 DEF Done, Step, InProgress, IsActivity
  <2> QED BY <1>3, <2>1, <2>3
<1>5. CASE StatusChanges \/ UNCHANGED ingestVars
  BY <1>3, <1>5 DEF StatusChanges, ingestVars, InProgress, IsActivity
<1> QED BY <1>1, <1>2, <1>4, <1>5, StoresHeartbeatOneByOne, ReadsSessionOneByOne,
           ArrivesOneByOne, ReportSteps DEF IngestNext

LEMMA ReportedCovers == Alone /\ OneByOne => SessionsCoverActivity
BY DEF OneByOne, Covered, Counted, InProgress, Quiet, SessionsCoverActivity

(* When the activities of a machine are handled one after the other, each  *)
(* lies in a session of its program, and the count of a session is the     *)
(* number of activities in it, for any number of reports and any grace.    *)
THEOREM SessionsCover == IngestSpec => []SessionsCoverActivity
<1>1. IngestInit => Alone /\ OneByOne
  BY FS_EmptySet DEF IngestInit, Alone, OneByOne, Timeline, Covered, Counted, InProgress
<1> QED BY <1>1, ReportedCovers, InitIngestInv, NextIngestInv, AloneStep, OneByOneStep, PTL DEF IngestSpec
-----------------------------------------------------------------------------
(* AuditLog.  Whatever tells the open view of a change makes it fetch      *)
(* again, and that request replaces one whose answer is older: as long as  *)
(* the view was told of all changes, what it shows and what the request    *)
(* under way has read are the current rows.                                *)
Fresh == ~unheard /\ alerts = 0 /\ \A p \in patches : p.written => p.sender # auditView

AuditInv ==
    /\ AuditTypeOK
    /\ alerts <= Len(log)
    /\ \A p \in patches : p.id \in DOMAIN log
    /\ asked # NoRequest => auditView \in Fetching
    /\ auditView \in Fetching /\ Fresh =>
          /\ asked = NoRequest => shown[auditView] = Rows(auditView)
          /\ asked # NoRequest /\ asked.read => asked.rows = Rows(auditView)

LEMMA SentTyped == Sent \in Request /\ ~Sent.read /\ Sent # NoRequest
<1>1. Sent = [read |-> FALSE, rows |-> {}] /\ {} \in SUBSET Row
  BY DEF Sent
<1>2. Sent \in Request /\ Sent.read = FALSE
  BY <1>1 DEF Request
<1> QED BY <1>2, AuditAssumption

LEMMA InitAuditInv == AuditInit => AuditInv
<1> SUFFICES ASSUME AuditInit PROVE AuditInv
  OBVIOUS
<1> USE AuditAssumption DEF AuditInit
<1>1. asked \in Request /\ asked # NoRequest /\ ~asked.read
  BY SentTyped
<1>2. log \in Seq(Row) /\ Len(log) = 0 /\ DOMAIN log = {} /\ 0 <= MaxEvents /\ 0 <= MaxPatches
      /\ 1 <= MaxEvents
  OBVIOUS
<1>3. AuditTypeOK
  <2>1. /\ currentPage \in 1 .. MaxEvents /\ sentPatches \in 0 .. MaxPatches
        /\ alerts \in 0 .. MaxEvents
    BY <1>2
  <2>2. shown \in [Fetching -> SUBSET Row] /\ patches \subseteq Patch
        /\ {connected, joined, unheard} \subseteq BOOLEAN
        /\ auditView \in AuditViews /\ statusFilter \in Filters
    BY DEF AuditViews, Filters
  <2> QED BY <1>1, <1>2, <2>1, <2>2 DEF AuditTypeOK
<1> QED BY <1>1, <1>2, <1>3 DEF AuditInv, Fetching

LEMMA RowsTyped == ASSUME AuditTypeOK, NEW v PROVE Rows(v) \in SUBSET Row
  BY DEF AuditTypeOK, Rows, Slice, LogRows

LEMMA AskTyped ==
  ASSUME NEW v, Ask(v)
  PROVE  /\ asked' \in Request \cup {NoRequest}
         /\ asked' # NoRequest => v \in Fetching /\ ~asked'.read
         /\ v \in Fetching => asked' # NoRequest
  BY SentTyped DEF Ask

(* A step that makes the open view fetch again.                            *)
LEMMA AsksAgain ==
  ASSUME AuditInv, AuditTypeOK', Ask(auditView'), alerts' <= Len(log'),
         \A p \in patches' : p.id \in DOMAIN log'
  PROVE  AuditInv'
  BY AskTyped DEF AuditInv

(* A step that changes neither the log nor what is shown of it.            *)
LEMMA ViewStays ==
  ASSUME AuditInv, AuditTypeOK', UNCHANGED <<log, shown, auditView, currentPage, asked>>,
         Fresh' => Fresh, alerts' <= Len(log), \A p \in patches' : p.id \in DOMAIN log
  PROVE  AuditInv'
<1>1. Rows(auditView)' = Rows(auditView)
  BY DEF Rows, LogRows, Slice
<1> QED BY <1>1 DEF AuditInv

(* A change nobody has told the view of.                                   *)
LEMMA NotFresh ==
  ASSUME AuditInv, AuditTypeOK', ~Fresh', UNCHANGED <<auditView, asked>>,
         alerts' <= Len(log'), \A p \in patches' : p.id \in DOMAIN log'
  PROVE  AuditInv'
  BY DEF AuditInv

LEMMA StatusTyped ==
  ASSUME AuditTypeOK, NEW e \in DOMAIN log, NEW ack \in BOOLEAN, SetStatus(e, ack)
  PROVE  /\ log' \in Seq(Row) /\ Len(log') = Len(log) /\ DOMAIN log' = DOMAIN log
         /\ \A d \in DOMAIN log' : log'[d].id = d
<1> DEFINE row == [log[e] EXCEPT !.acknowledged = ack, !.isFlagged = FALSE]
<1>1. log \in Seq(Row) /\ log[e] \in Row /\ log[e].id = e
  BY DEF AuditTypeOK
<1>2. row \in Row /\ row.id = e
  BY <1>1 DEF Row
<1>3. log' = [log EXCEPT ![e] = row]
  BY DEF SetStatus
<1> HIDE DEF row
<1> QED BY <1>1, <1>2, <1>3 DEF AuditTypeOK

LEMMA WorldAuditInv ==
  ASSUME AuditInv, \/ \E f \in BOOLEAN : EventArrives(f)
                   \/ AlertArrives \/ SocketDrops
  PROVE  AuditInv'
<1> USE AuditAssumption
<1>1. alerts \in Nat /\ log \in Seq(Row) /\ Len(log) \in Nat
  BY DEF AuditInv, AuditTypeOK
<1>2. ASSUME NEW f \in BOOLEAN, EventArrives(f) PROVE AuditInv'
  <2> DEFINE row == [id |-> Len(log) + 1, acknowledged |-> FALSE, isFlagged |-> f]
  <2>1. /\ log' = Append(log, row) /\ Len(log) < MaxEvents /\ row.id = Len(log) + 1
        /\ UNCHANGED <<shown, auditView, currentPage, statusFilter, asked, patches, sentPatches,
                       connected, joined>>
        /\ \/ alerts' = alerts + 1 /\ unheard' \in BOOLEAN
           \/ alerts' = alerts /\ unheard' = TRUE
    BY <1>2 DEF EventArrives, pageVars, socketVars, AuditInv, AuditTypeOK
  <2>2. row \in Row
    BY <1>1, <2>1 DEF Row, Events
  <2> HIDE DEF row
  <2>3. /\ log' \in Seq(Row) /\ Len(log') = Len(log) + 1 /\ DOMAIN log \subseteq DOMAIN log'
        /\ \A d \in DOMAIN log' : log'[d].id = d
    BY <1>1, <2>1, <2>2 DEF AuditInv, AuditTypeOK
  <2>4. alerts' \in Nat /\ alerts' <= Len(log') /\ Len(log') <= MaxEvents
    BY <1>1, <2>1, <2>3 DEF AuditInv
  <2>5. AuditTypeOK'
    <3>1. unheard' \in BOOLEAN
      BY <2>1
    <3>2. alerts' \in 0 .. MaxEvents
      BY <1>1, <2>3, <2>4
    <3> QED BY <2>1, <2>3, <2>4, <3>1, <3>2 DEF AuditInv, AuditTypeOK
  <2>6. ~Fresh'
    BY <1>1, <2>1 DEF Fresh
  <2> QED BY <2>1, <2>3, <2>4, <2>5, <2>6, NotFresh DEF AuditInv
<1>3. CASE AlertArrives
  <2>1. /\ Ask(auditView') /\ alerts' = alerts - 1 /\ alerts > 0
        /\ UNCHANGED <<log, shown, auditView, currentPage, statusFilter, patches, sentPatches,
                       connected, joined, unheard>>
    BY <1>3 DEF AlertArrives, pageVars, socketVars, Ask
  <2>2. AuditTypeOK'
    BY <1>1, <2>1, AskTyped DEF AuditInv, AuditTypeOK
  <2> QED BY <1>1, <2>1, <2>2, AsksAgain DEF AuditInv
<1>4. CASE SocketDrops
  <2>1. AuditTypeOK'
    <3>1. 0 \in 0 .. MaxEvents
      OBVIOUS
    <3> QED BY <1>4, <3>1 DEF SocketDrops, pageVars, AuditInv, AuditTypeOK
  <2>2. Fresh' => Fresh
    <3>1. ~unheard' => ~unheard /\ ~(alerts > 0)
      BY <1>4 DEF SocketDrops
    <3>2. patches' = patches /\ auditView' = auditView
      BY <1>4 DEF SocketDrops, pageVars
    <3> QED BY <1>1, <3>1, <3>2 DEF Fresh
  <2> QED BY <1>1, <1>4, <2>1, <2>2, ViewStays DEF SocketDrops, pageVars, AuditInv
<1> QED BY <1>2, <1>3, <1>4

LEMMA ViewAuditInv ==
  ASSUME AuditInv, \/ \E v \in AuditViews : OpenView(v)
                   \/ \E f \in Filters, p \in Events : Choose(f, p)
                   \/ FetchAgain \/ FetchReads \/ FetchAnswers \/ FetchFails
  PROVE  AuditInv'
<1> USE AuditAssumption
<1>1. 1 \in 1 .. MaxEvents /\ "all" \in Filters
  BY DEF Filters
<1>2. ASSUME NEW v \in AuditViews, OpenView(v) PROVE AuditInv'
  <2>1. joined' \in BOOLEAN
    <3>1. \/ joined' = (v = "dashboard") \/ joined' = joined
      BY <1>2 DEF OpenView
    <3> QED BY <3>1 DEF AuditInv, AuditTypeOK
  <2>2. /\ auditView' \in AuditViews /\ currentPage' = 1 /\ statusFilter' = "all"
        /\ UNCHANGED <<log, shown, patches, sentPatches, connected, alerts>>
    BY <1>2 DEF OpenView
  <2>3. CASE Ask(auditView') /\ unheard' = unheard
    <3>1. AuditTypeOK'
      BY <1>1, <2>1, <2>2, <2>3, AskTyped DEF AuditInv, AuditTypeOK
    <3> QED BY <2>2, <2>3, <3>1, AsksAgain DEF AuditInv
  <2>4. CASE asked' = NoRequest /\ unheard' = TRUE
    <3>1. unheard' \in BOOLEAN
      BY <2>4
    <3>2. AuditTypeOK'
      BY <1>1, <2>1, <2>2, <2>4, <3>1 DEF AuditInv, AuditTypeOK
    <3> QED BY <2>2, <2>4, <3>2 DEF AuditInv, Fresh
  <2> QED BY <1>2, <2>3, <2>4 DEF OpenView, Ask
<1>3. ASSUME NEW f \in Filters, NEW p \in Events, Choose(f, p) PROVE AuditInv'
  <2>1. /\ UNCHANGED <<log, shown, auditView, patches, sentPatches, connected, joined, alerts, unheard>>
        /\ statusFilter' = f /\ currentPage' = p
        /\ Ask(auditView') \/ UNCHANGED <<asked, currentPage>>
    BY <1>3 DEF Choose, socketVars, Ask
  <2>2. AuditTypeOK'
    BY <2>1, AskTyped DEF AuditInv, AuditTypeOK, Events
  <2>3. Fresh' => Fresh
    BY <2>1 DEF Fresh
  <2> QED BY <2>1, <2>2, <2>3, AsksAgain, ViewStays DEF AuditInv
<1>4. CASE FetchAgain
  <2>1. Ask(auditView') /\ UNCHANGED <<log, shown, auditView, currentPage, statusFilter, patches,
                                       sentPatches, connected, joined, alerts, unheard>>
    BY <1>4 DEF FetchAgain, pageVars, socketVars, Ask
  <2>2. AuditTypeOK'
    BY <2>1, AskTyped DEF AuditInv, AuditTypeOK
  <2> QED BY <2>1, <2>2, AsksAgain DEF AuditInv
<1>5. CASE FetchReads
  <2>1. /\ UNCHANGED <<log, shown, auditView, currentPage, statusFilter, patches, sentPatches,
                       connected, joined, alerts>>
        /\ unheard' = FALSE /\ asked # NoRequest
        /\ asked' = [read |-> TRUE, rows |-> Rows(auditView)]
    BY <1>5, SentTyped DEF FetchReads, pageVars, socketVars
  <2>2. asked' \in Request /\ asked' # NoRequest /\ asked'.rows = Rows(auditView)
    <3>1. Rows(auditView) \in SUBSET Row
      BY RowsTyped DEF AuditInv
    <3>2. asked' \in Request /\ asked'.rows = Rows(auditView)
      BY <2>1, <3>1 DEF Request
    <3> QED BY <3>2, AuditAssumption
  <2>3. Rows(auditView)' = Rows(auditView)
    BY <2>1 DEF Rows, LogRows, Slice
  <2>4. AuditTypeOK'
    BY <2>1, <2>2 DEF AuditInv, AuditTypeOK
  <2> QED BY <2>1, <2>2, <2>3, <2>4 DEF AuditInv
<1>6. CASE FetchAnswers
  <2>1. /\ UNCHANGED <<log, auditView, currentPage, statusFilter, patches, sentPatches,
                       connected, joined, alerts, unheard>>
        /\ asked # NoRequest /\ asked.read /\ asked' = NoRequest
        /\ shown' = [shown EXCEPT ![auditView] = asked.rows]
    BY <1>6 DEF FetchAnswers, pageVars, socketVars
  <2>2. asked \in Request /\ auditView \in Fetching /\ shown \in [Fetching -> SUBSET Row]
    BY <2>1 DEF AuditInv, AuditTypeOK
  <2>3. shown' \in [Fetching -> SUBSET Row] /\ shown'[auditView] = asked.rows
    BY <2>1, <2>2 DEF Request
  <2>4. AuditTypeOK'
    BY <2>1, <2>3 DEF AuditInv, AuditTypeOK
  <2>5. Rows(auditView)' = Rows(auditView) /\ Fresh' = Fresh
    BY <2>1 DEF Rows, LogRows, Slice, Fresh
  <2> QED BY <2>1, <2>2, <2>3, <2>4, <2>5 DEF AuditInv
<1>7. CASE FetchFails
  BY <1>7 DEF FetchFails, pageVars, socketVars, AuditInv, AuditTypeOK, Fresh
<1> QED BY <1>2, <1>3, <1>4, <1>5, <1>6, <1>7

LEMMA ChangeAuditInv ==
  ASSUME AuditInv,
         \/ \E e \in DOMAIN log, a \in BOOLEAN : Acknowledge(e, a) \/ OtherChanges(e, a)
         \/ \E p \in patches : PatchWrites(p) \/ PatchAnswers(p) \/ PatchFails(p)
  PROVE  AuditInv'
<1> USE AuditAssumption
<1>1. /\ sentPatches \in Nat /\ log \in Seq(Row) /\ Len(log) <= MaxEvents /\ patches \subseteq Patch
      /\ \A e \in DOMAIN log : e \in Events
  BY DEF AuditInv, AuditTypeOK, Events
<1>2. ASSUME NEW e \in DOMAIN log, NEW a \in BOOLEAN, Acknowledge(e, a) PROVE AuditInv'
  <2> DEFINE p == [id |-> e, acknowledged |-> a, written |-> FALSE, sender |-> auditView]
  <2>1. /\ patches' = patches \cup {p} /\ p.id = e /\ ~p.written
        /\ sentPatches < MaxPatches /\ sentPatches' = sentPatches + 1
        /\ UNCHANGED <<log, shown, auditView, currentPage, statusFilter, asked, connected, joined,
                       alerts, unheard>>
    BY <1>2 DEF Acknowledge, pageVars, socketVars
  <2>2. p \in Patch
    <3>1. auditView \in Fetching
      BY <1>2 DEF Acknowledge, Displayed, AuditInv, AuditTypeOK, AuditViews, Fetching
    <3> QED BY <1>1, <3>1 DEF Patch
  <2> HIDE DEF p
  <2>3. AuditTypeOK'
    BY <1>1, <2>1, <2>2 DEF AuditInv, AuditTypeOK
  <2>4. Fresh' => Fresh
    BY <2>1 DEF Fresh
  <2> QED BY <2>1, <2>3, <2>4, ViewStays DEF AuditInv
<1>3. ASSUME NEW e \in DOMAIN log, NEW a \in BOOLEAN, OtherChanges(e, a) PROVE AuditInv'
  <2>1. /\ SetStatus(e, a) /\ sentPatches < MaxPatches /\ sentPatches' = sentPatches + 1
        /\ unheard' = TRUE
        /\ UNCHANGED <<shown, auditView, currentPage, statusFilter, asked, patches, connected,
                       joined, alerts>>
    BY <1>3 DEF OtherChanges, pageVars, socketVars
  <2>2. AuditTypeOK'
    BY <1>1, <2>1, StatusTyped DEF AuditInv, AuditTypeOK
  <2>3. ~Fresh'
    BY <2>1 DEF Fresh
  <2>4. Len(log') = Len(log) /\ DOMAIN log' = DOMAIN log
    BY <2>1, StatusTyped DEF AuditInv
  <2> QED BY <2>1, <2>2, <2>3, <2>4, NotFresh DEF AuditInv
<1>4. ASSUME NEW p \in patches, PatchWrites(p) PROVE AuditInv'
  <2> DEFINE w == [p EXCEPT !.written = TRUE]
  <2>1. /\ SetStatus(p.id, p.acknowledged) /\ patches' = (patches \ {p}) \cup {w}
        /\ UNCHANGED <<shown, auditView, currentPage, statusFilter, asked, sentPatches, connected,
                       joined, alerts>>
        /\ unheard' = (unheard \/ p.sender # auditView)
    BY <1>4 DEF PatchWrites, pageVars, socketVars
  <2>2. w \in Patch /\ w.id = p.id /\ w.written /\ w.sender = p.sender /\ p.acknowledged \in BOOLEAN
        /\ p.id \in DOMAIN log
    BY <1>1 DEF Patch, AuditInv
  <2> HIDE DEF w
  <2>3. /\ log' \in Seq(Row) /\ Len(log') = Len(log) /\ DOMAIN log' = DOMAIN log
        /\ \A d \in DOMAIN log' : log'[d].id = d
    BY <2>1, <2>2, StatusTyped DEF AuditInv
  <2>4. AuditTypeOK'
    <3>1. unheard' \in BOOLEAN
      BY <2>1 DEF AuditInv, AuditTypeOK
    <3> QED BY <1>1, <2>1, <2>2, <2>3, <3>1 DEF AuditInv, AuditTypeOK
  <2>5. ~Fresh'
    BY <2>1, <2>2 DEF Fresh
  <2> QED BY <2>1, <2>2, <2>3, <2>4, <2>5, NotFresh DEF AuditInv
<1>5. ASSUME NEW p \in patches, PatchAnswers(p) PROVE AuditInv'
  <2>1. /\ patches' = patches \ {p}
        /\ UNCHANGED <<log, shown, auditView, currentPage, statusFilter, sentPatches, connected,
                       joined, alerts, unheard>>
    BY <1>5 DEF PatchAnswers, pageVars, socketVars
  <2>2. CASE p.sender = auditView
    <3>1. Ask(auditView')
      BY <1>5, <2>1, <2>2 DEF PatchAnswers, Refetches, Ask
    <3>2. AuditTypeOK'
      BY <2>1, <3>1, AskTyped DEF AuditInv, AuditTypeOK
    <3> QED BY <2>1, <3>1, <3>2, AsksAgain DEF AuditInv
  <2>3. CASE p.sender # auditView
    <3>1. asked' = asked
      BY <1>5, <2>3 DEF PatchAnswers, Refetches
    <3>2. AuditTypeOK'
      BY <2>1, <3>1 DEF AuditInv, AuditTypeOK
    <3>3. Fresh' => Fresh
      BY <2>1, <2>3 DEF Fresh
    <3> QED BY <2>1, <3>1, <3>2, <3>3, ViewStays DEF AuditInv
  <2> QED BY <2>2, <2>3
<1>6. ASSUME NEW p \in patches, PatchFails(p) PROVE AuditInv'
  <2>1. /\ patches' = patches \ {p} /\ unheard' = (unheard \/ p.written)
        /\ UNCHANGED <<log, shown, auditView, currentPage, statusFilter, asked, sentPatches,
                       connected, joined, alerts>>
    BY <1>6 DEF PatchFails, pageVars, socketVars
  <2>2. AuditTypeOK'
    BY <1>1, <2>1 DEF AuditInv, AuditTypeOK, Patch
  <2>3. Fresh' => Fresh
    BY <2>1 DEF Fresh
  <2> QED BY <2>1, <2>2, <2>3, ViewStays DEF AuditInv
<1> QED BY <1>2, <1>3, <1>4, <1>5, <1>6

LEMMA NextAuditInv == ASSUME AuditInv, [AuditNext]_auditVars PROVE AuditInv'
<1>1. CASE UNCHANGED auditVars
  <2>1. AuditTypeOK' /\ (Fresh' => Fresh)
    BY <1>1 DEF auditVars, AuditInv, AuditTypeOK, Fresh
  <2> QED BY <1>1, <2>1, ViewStays DEF auditVars, AuditInv
<1> QED BY <1>1, WorldAuditInv, ViewAuditInv, ChangeAuditInv DEF AuditNext

(* The open view of the audit log shows the current rows once nothing is   *)
(* under way and nothing happened behind its back, for any log, page size  *)
(* and number of status changes: an answer to an earlier request never     *)
(* replaces a later one.  A change sent from the other view and written    *)
(* after the open one had read happens behind its back.                    *)
THEOREM ViewKeepsUp == AuditSpec => []ViewIsCurrent
<1>1. AuditInv => ViewIsCurrent
  BY DEF AuditInv, Fresh, ViewIsCurrent
<1> QED BY <1>1, InitAuditInv, NextAuditInv, PTL DEF AuditSpec

(* The log, the rows shown and the requests stay within their types.       *)
THEOREM AuditTypes == AuditSpec => []AuditTypeOK
<1>1. AuditInv => AuditTypeOK
  BY DEF AuditInv
<1> QED BY <1>1, InitAuditInv, NextAuditInv, PTL DEF AuditSpec
-----------------------------------------------------------------------------
(* Gallery.  A screenshot that was there when the gallery was opened, and  *)
(* still is.                                                               *)
Old == early \cap screenshots

Under(s, c) == c = Top \/ s < c

(* A page answered under a cursor has no hole, and none comes into it: the *)
(* old screenshots only become fewer.                                      *)
PageFine(old, c, p) ==
    /\ \A s \in p.shots : Under(s, c)
    /\ p.more => p.next \in Shots /\ Under(p.next, c) /\ \A s \in p.shots : p.next < s
    /\ \A s \in old : Under(s, c) =>
          /\ (\E t \in p.shots : t < s) => s \in p.shots
          /\ p.more /\ p.next < s => s \in p.shots

(* Pages, each requested under the cursor of the one before it: a page     *)
(* lies below the cursors of those before it, and whatever is above its    *)
(* own end is on it, or on one of them, or is one of their cursors.        *)
InOrder(pages) ==
    /\ \A k \in DOMAIN pages : k < Len(pages) => pages[k].more
    /\ \A k \in DOMAIN pages :
          pages[k].more => pages[k].next \in Shots /\ \A s \in pages[k].shots : pages[k].next < s
    /\ \A j, k \in DOMAIN pages : j < k =>
          /\ \A s \in pages[k].shots : s < pages[j].next
          /\ pages[k].more => pages[k].next < pages[j].next

WithoutHole(old, pages) ==
    \A k \in DOMAIN pages, s \in old :
        (pages[k].more /\ pages[k].next < s) \/ (\E t \in pages[k].shots : t < s) =>
            \E j \in 1 .. k : s \in pages[j].shots \/ (j < k /\ s = pages[j].next)

GalleryInv ==
    /\ GalleryTypeOK
    /\ \A c \in Cursors : cache[c] # NoPage => PageFine(Old, c, cache[c])
    /\ InOrder(data) /\ WithoutHole(Old, data)
    /\ run # NoPage => /\ Len(run.pages) <= size
                       /\ InOrder(run.pages) /\ WithoutHole(Old, run.pages)

LEMMA CountNewer ==
  ASSUME NEW S \in SUBSET Shots, NEW s \in S, NEW t \in S, t < s
  PROVE  /\ Cardinality(Newer(s, S)) \in Nat /\ Cardinality(Newer(t, S)) \in Nat
         /\ Cardinality(Newer(s, S)) < Cardinality(Newer(t, S))
<1>1. IsFiniteSet(S)
  <2>1. 1 \in Int /\ MaxShots \in Int
    BY GalleryAssumption
  <2>2. IsFiniteSet(Shots)
    BY <2>1, FS_Interval DEF Shots
  <2> QED BY <2>2, FS_Subset
<1>2. Newer(s, S) \subseteq Newer(t, S) /\ Newer(t, S) \subseteq S
  <2>1. \A u \in S : u \in Nat
    BY GalleryAssumption DEF Shots
  <2>2. \A u \in S : s < u => t < u
    BY <2>1
  <2> QED BY <2>2 DEF Newer
<1>3. s \in Newer(t, S) /\ s \notin Newer(s, S)
  <2>1. s \in Nat
    BY GalleryAssumption DEF Shots
  <2> QED BY <2>1 DEF Newer
<1>4. IsFiniteSet(Newer(t, S)) /\ IsFiniteSet(Newer(s, S))
  BY <1>1, <1>2, FS_Subset
<1>5. /\ Cardinality(Newer(s, S)) <= Cardinality(Newer(t, S))
      /\ Cardinality(Newer(s, S)) # Cardinality(Newer(t, S))
  BY <1>2, <1>3, <1>4, FS_Subset
<1>6. Cardinality(Newer(s, S)) \in Nat /\ Cardinality(Newer(t, S)) \in Nat
  BY <1>4, FS_CardinalityType
<1> QED BY <1>5, <1>6

(* The newest of a set, and the one more than the limit.                   *)
LEMMA AnswerFine ==
  ASSUME NEW S \in SUBSET Shots
  PROVE  /\ AnswerPage(S) \in GalleryPage /\ AnswerPage(S).shots \subseteq S
         /\ ~AnswerPage(S).more => AnswerPage(S).next = Top
         /\ AnswerPage(S).more => /\ AnswerPage(S).next \in S
                                 /\ \A s \in AnswerPage(S).shots : AnswerPage(S).next < s
         /\ \A s \in S : /\ (\E t \in AnswerPage(S).shots : t < s) => s \in AnswerPage(S).shots
                         /\ AnswerPage(S).more /\ AnswerPage(S).next < s => s \in AnswerPage(S).shots
<1> USE GalleryAssumption
<1> DEFINE next == IF Extra(S) = {} THEN Top ELSE CHOOSE s \in Extra(S) : TRUE
<1>1. AnswerPage(S) = [shots |-> Newest(S), more |-> Extra(S) # {}, next |-> next]
  BY DEF AnswerPage
<1>2. /\ Extra(S) = {} => next = Top
      /\ Extra(S) # {} => next \in Extra(S)
  OBVIOUS
<1>3. Newest(S) \subseteq S /\ Extra(S) \subseteq S /\ (Extra(S) # {}) \in BOOLEAN
  BY DEF Newest, Extra
<1> HIDE DEF next
<1>4. /\ AnswerPage(S).shots = Newest(S) /\ AnswerPage(S).next = next
      /\ AnswerPage(S).more = (Extra(S) # {}) /\ AnswerPage(S) \in GalleryPage
  BY <1>1, <1>2, <1>3 DEF GalleryPage, Cursors
<1>5. ASSUME NEW s \in Newest(S), NEW e \in Extra(S) PROVE e < s
  <2>1. s \in S /\ e \in S /\ Cardinality(Newer(s, S)) < PerPage /\ Cardinality(Newer(e, S)) = PerPage
    BY DEF Newest, Extra
  <2>2. s \in Nat /\ e \in Nat
    BY <2>1 DEF Shots
  <2>3. ~(s < e) /\ s # e
    BY <2>1, CountNewer
  <2> QED BY <2>2, <2>3
<1>6. ASSUME NEW s \in S, NEW t \in Newest(S), t < s PROVE s \in Newest(S)
  <2>1. t \in S /\ Cardinality(Newer(t, S)) < PerPage
    BY DEF Newest
  <2>2. /\ Cardinality(Newer(s, S)) < Cardinality(Newer(t, S))
        /\ Cardinality(Newer(s, S)) \in Nat /\ Cardinality(Newer(t, S)) \in Nat
    BY <1>6, <2>1, CountNewer
  <2>3. Cardinality(Newer(s, S)) < PerPage
    BY <2>1, <2>2
  <2> QED BY <2>3 DEF Newest
<1>7. ASSUME NEW s \in S, NEW e \in Extra(S), e < s PROVE s \in Newest(S)
  <2>1. e \in S /\ Cardinality(Newer(e, S)) = PerPage
    BY DEF Extra
  <2>2. Cardinality(Newer(s, S)) < PerPage
    BY <1>7, <2>1, CountNewer
  <2> QED BY <2>2 DEF Newest
<1> QED BY <1>2, <1>3, <1>4, <1>5, <1>6, <1>7

LEMMA FetchedFine ==
  ASSUME GalleryTypeOK, NEW c \in Cursors
  PROVE  Fetched(c) \in GalleryPage /\ PageFine(Old, c, Fetched(c))
<1> USE GalleryAssumption
<1> DEFINE S == After(c)
           p == AnswerPage(S)
<1>1. S \in SUBSET Shots /\ \A s \in S : Under(s, c)
  BY DEF After, Under, GalleryTypeOK
<1>2. /\ p \in GalleryPage /\ p.shots \subseteq S
      /\ ~p.more => p.next = Top
      /\ p.more => p.next \in S /\ \A s \in p.shots : p.next < s
      /\ \A s \in S : /\ (\E t \in p.shots : t < s) => s \in p.shots
                      /\ p.more /\ p.next < s => s \in p.shots
  BY <1>1, AnswerFine
<1>3. \A s \in Old : Under(s, c) => s \in S \/ S = {}
  BY DEF After, Under, Old, GalleryTypeOK
<1>4. ~(c # Top /\ p.next = c)
  <2> SUFFICES ASSUME c # Top, p.next = c PROVE FALSE
    OBVIOUS
  <2>1. c \in S /\ c \in Nat
    BY <1>2 DEF Cursors, Shots
  <2> QED BY <2>1 DEF After
<1> HIDE DEF p, S
<1>5. Fetched(c) = p
  BY <1>4 DEF Fetched, p, S
<1>6. PageFine(Old, c, p)
  <2>1. /\ \A s \in p.shots : Under(s, c)
        /\ p.more => p.next \in Shots /\ Under(p.next, c) /\ \A s \in p.shots : p.next < s
    BY <1>1, <1>2
  <2>2. ASSUME NEW s \in Old, Under(s, c)
        PROVE  /\ (\E t \in p.shots : t < s) => s \in p.shots
               /\ p.more /\ p.next < s => s \in p.shots
    <3>1. s \in S \/ (p.shots = {} /\ ~p.more)
      BY <1>2, <1>3, <2>2
    <3>2. s \in S => /\ \A t \in p.shots : t < s => s \in p.shots
                     /\ p.more /\ p.next < s => s \in p.shots
      <4> HAVE s \in S
      <4>1. ASSUME NEW t \in p.shots, t < s PROVE s \in p.shots
        BY <1>2, <4>1
      <4> QED BY <1>2, <4>1
    <3> QED BY <3>1, <3>2
  <2> QED BY <2>1, <2>2 DEF PageFine
<1> QED BY <1>2, <1>5, <1>6

(* The next page is put after pages that are in order.                     *)
LEMMA PageAppended ==
  ASSUME NEW pages \in Seq(GalleryPage), InOrder(pages), WithoutHole(Old, pages), HasKey(pages),
         NEW p \in GalleryPage, PageFine(Old, KeyAfter(pages), p), early \subseteq Shots
  PROVE  InOrder(Append(pages, p)) /\ WithoutHole(Old, Append(pages, p))
<1> USE GalleryAssumption
<1> DEFINE n == Len(pages)
           c == KeyAfter(pages)
           more == Append(pages, p)
<1>1. /\ n \in Nat /\ DOMAIN pages = 1 .. n /\ Len(more) = n + 1 /\ DOMAIN more = 1 .. n + 1
      /\ more[n + 1] = p /\ \A k \in 1 .. n : more[k] = pages[k] /\ pages[k] \in GalleryPage
  OBVIOUS
<1> HIDE DEF more
<1>2. \/ n = 0 /\ c = Top
      \/ n > 0 /\ c = pages[n].next /\ pages[n].more
  BY <1>1 DEF HasKey, KeyAfter
<1>3. n > 0 => c \in Shots
  BY <1>1, <1>2 DEF InOrder
<1>4. \A j \in 1 .. n : /\ j < n => pages[n].next < pages[j].next
                        /\ pages[j].more /\ pages[j].next \in Shots
  BY <1>1, <1>2 DEF InOrder
<1>5. ASSUME NEW j \in 1 .. n, NEW s \in Shots, Under(s, c) PROVE s < pages[j].next
  <2>1. n > 0 /\ c \in Shots /\ c = pages[n].next /\ s < c
    BY <1>1, <1>2, <1>3, <1>5 DEF Under
  <2>2. j = n \/ c < pages[j].next
    <3>1. j = n \/ j < n
      <4>1. n \in Nat /\ j \in 1 .. n
        BY <1>1
      <4> QED BY <4>1
    <3> QED BY <1>4, <2>1, <3>1
  <2>3. pages[j].next \in Nat /\ s \in Nat /\ c \in Nat
    BY <1>4, <2>1 DEF Shots
  <2> QED BY <2>1, <2>2, <2>3
<1>6. /\ \A s \in p.shots : s \in Shots /\ Under(s, c)
      /\ p.more => p.next \in Shots /\ Under(p.next, c) /\ \A s \in p.shots : p.next < s
      /\ \A s \in Old : Under(s, c) =>
            /\ (\E t \in p.shots : t < s) => s \in p.shots
            /\ p.more /\ p.next < s => s \in p.shots
  BY DEF PageFine, GalleryPage
<1> HIDE DEF n, c
<1>7. InOrder(more)
  <2>1. \A k \in DOMAIN more : k < Len(more) => more[k].more
    BY <1>1, <1>4
  <2>2. ASSUME NEW k \in DOMAIN more, more[k].more
        PROVE  more[k].next \in Shots /\ \A s \in more[k].shots : more[k].next < s
    <3>1. CASE k = n + 1
      BY <1>1, <1>6, <2>2, <3>1
    <3>2. CASE k # n + 1
      BY <1>1, <2>2, <3>2 DEF InOrder
    <3> QED BY <3>1, <3>2
  <2>3. ASSUME NEW j \in DOMAIN more, NEW k \in DOMAIN more, j < k
        PROVE  /\ \A s \in more[k].shots : s < more[j].next
               /\ more[k].more => more[k].next < more[j].next
    <3>1. j \in 1 .. n /\ more[j] = pages[j]
      BY <1>1, <2>3
    <3>2. CASE k = n + 1
      BY <1>1, <1>5, <1>6, <3>1, <3>2
    <3>3. CASE k # n + 1
      BY <1>1, <2>3, <3>1, <3>3 DEF InOrder
    <3> QED BY <3>2, <3>3
  <2> QED BY <2>1, <2>2, <2>3 DEF InOrder
<1>8. WithoutHole(Old, more)
  <2> SUFFICES ASSUME NEW k \in DOMAIN more, NEW s \in Old,
                      (more[k].more /\ more[k].next < s) \/ (\E t \in more[k].shots : t < s)
               PROVE  \E j \in 1 .. k : s \in more[j].shots \/ (j < k /\ s = more[j].next)
    BY DEF WithoutHole
  <2>1. CASE k # n + 1
    <3>1. k \in 1 .. n /\ more[k] = pages[k]
      BY <1>1, <2>1
    <3>2. PICK j \in 1 .. k : s \in pages[j].shots \/ (j < k /\ s = pages[j].next)
      BY <1>1, <3>1 DEF WithoutHole
    <3>3. j \in 1 .. n
      BY <1>1, <3>1
    <3> QED BY <1>1, <3>2, <3>3
  <2>2. CASE k = n + 1
    <3>1. CASE Under(s, c)
      <4>1. s \in p.shots
        BY <1>1, <1>6, <2>2, <3>1
      <4>2. k \in 1 .. k
        BY <1>1, <2>2
      <4> QED BY <1>1, <2>2, <4>1, <4>2
    <3>2. CASE ~Under(s, c)
      <4>1. n > 0 /\ c = pages[n].next /\ pages[n].more /\ n \in 1 .. n /\ s \in Shots /\ c \in Shots
        BY <1>1, <1>2, <1>3, <3>2 DEF Under, Old
      <4>2. s = c \/ c < s
        BY <3>2, <4>1 DEF Under, Shots
      <4>3. CASE s = c
        <5>1. n \in 1 .. k /\ n < k /\ more[n] = pages[n]
          BY <1>1, <2>2, <4>1
        <5> QED BY <4>1, <4>3, <5>1
      <4>4. CASE c < s
        <5>1. PICK j \in 1 .. n : s \in pages[j].shots \/ (j < n /\ s = pages[j].next)
          BY <1>1, <4>1, <4>4 DEF WithoutHole
        <5>2. j \in 1 .. k /\ j < k /\ more[j] = pages[j]
          BY <1>1, <2>2, <5>1
        <5> QED BY <5>1, <5>2
      <4> QED BY <4>2, <4>3, <4>4
    <3> QED BY <3>1, <3>2
  <2> QED BY <2>1, <2>2
<1> QED BY <1>7, <1>8 DEF more

LEMMA NoPages == InOrder(<<>>) /\ WithoutHole(Old, <<>>) /\ HasKey(<<>>) /\ <<>> \in Seq(GalleryPage)
  BY DEF InOrder, WithoutHole, HasKey

LEMMA InitGalleryInv == GalleryInit => GalleryInv
<1> SUFFICES ASSUME GalleryInit PROVE GalleryInv
  OBVIOUS
<1> USE GalleryAssumption DEF GalleryInit
<1>1. run \in Run /\ run.pages = <<>>
  BY NoPages DEF Run
<1>2. 0 \in 0 .. MaxTableChanges /\ 1 \in 1 .. MaxPages /\ Len(<<>>) = 0 /\ 0 <= MaxPages /\ 0 <= 1
  OBVIOUS
<1>3. GalleryTypeOK
  BY <1>1, <1>2, NoPages DEF GalleryTypeOK
<1> QED BY <1>1, <1>2, <1>3, NoPages DEF GalleryInv

(* The old screenshots only become fewer, so what holds of pages stays.    *)
LEMMA PagesStay ==
  ASSUME NEW A, NEW B \in SUBSET A
  PROVE  /\ \A c, p : PageFine(A, c, p) => PageFine(B, c, p)
         /\ \A pages : WithoutHole(A, pages) => WithoutHole(B, pages)
<1>1. ASSUME NEW c, NEW p, PageFine(A, c, p) PROVE PageFine(B, c, p)
  BY <1>1 DEF PageFine
<1>2. ASSUME NEW pages, WithoutHole(A, pages) PROVE WithoutHole(B, pages)
  BY <1>2 DEF WithoutHole
<1> QED BY <1>1, <1>2

LEMMA FreshRun ==
  ASSUME GalleryTypeOK, NEW f \in BOOLEAN, Requested(f)
  PROVE  /\ run' \in Run /\ run' # NoPage /\ Len(run'.pages) <= size
         /\ InOrder(run'.pages) /\ WithoutHole(Old, run'.pages)
<1>1. run' = [force |-> f, pages |-> <<>>]
  BY DEF Requested
<1>2. run' \in Run /\ run'.pages = <<>>
  BY <1>1, NoPages DEF Run
<1>3. Len(<<>>) = 0 /\ size \in Nat
  BY GalleryAssumption DEF GalleryTypeOK
<1> QED BY <1>2, <1>3, NoPages, GalleryAssumption

(* The steps that answer no page.                                          *)
LEMMA NoAnswer ==
  ASSUME GalleryInv, GalleryTypeOK', Old' \subseteq Old, cache' = cache, size' \in {size, size + 1},
         data' = data \/ (run # NoPage /\ data' = run.pages),
         run' \in {run, NoPage} \/ \E f \in BOOLEAN : Requested(f)
  PROVE  GalleryInv'
<1>1. \A c \in Cursors : cache'[c] # NoPage => PageFine(Old', c, cache'[c])
  BY PagesStay DEF GalleryInv
<1>2. InOrder(data') /\ WithoutHole(Old', data')
  <2>1. InOrder(data') /\ WithoutHole(Old, data')
    BY DEF GalleryInv
  <2> QED BY <2>1, PagesStay
<1>3. run' # NoPage => /\ Len(run'.pages) <= size'
                       /\ InOrder(run'.pages) /\ WithoutHole(Old', run'.pages)
  <2>1. size \in Nat
    BY GalleryAssumption DEF GalleryInv, GalleryTypeOK
  <2>2. run # NoPage => Len(run.pages) \in Nat
    BY DEF GalleryInv, GalleryTypeOK, Run
  <2>3. CASE run' \in {run, NoPage}
    <3>1. run' # NoPage => /\ run' = run /\ Len(run.pages) <= size
                           /\ InOrder(run.pages) /\ WithoutHole(Old, run.pages)
      BY <2>3 DEF GalleryInv
    <3>2. run' # NoPage => WithoutHole(Old', run.pages)
      BY <3>1, PagesStay
    <3> QED BY <2>1, <2>2, <3>1, <3>2
  <2>4. ASSUME NEW f \in BOOLEAN, Requested(f)
        PROVE  /\ Len(run'.pages) <= size'
               /\ InOrder(run'.pages) /\ WithoutHole(Old', run'.pages)
    <3>1. /\ Len(run'.pages) <= size /\ run' \in Run
          /\ InOrder(run'.pages) /\ WithoutHole(Old, run'.pages)
      BY <2>4, FreshRun DEF GalleryInv
    <3>2. Len(run'.pages) \in Nat
      BY <3>1 DEF Run
    <3> QED BY <2>1, <3>1, <3>2, PagesStay
  <2> QED BY <2>3, <2>4
<1> QED BY <1>1, <1>2, <1>3 DEF GalleryInv

LEMMA TableGalleryInv ==
  ASSUME GalleryInv, Expire \/ \E s \in Shots : Arrives(s) PROVE GalleryInv'
<1> USE GalleryAssumption
<1>1. /\ tableChanges < MaxTableChanges /\ tableChanges' = tableChanges + 1
      /\ UNCHANGED <<early, cache, data, size, run, horizon>>
      /\ screenshots' \subseteq Shots /\ Old' \subseteq Old
  <2>1. CASE Expire
    BY <2>1 DEF Expire, TableChanges, Newer, Old, GalleryInv, GalleryTypeOK
  <2>2. ASSUME NEW s \in Shots, Arrives(s)
        PROVE  /\ tableChanges < MaxTableChanges /\ tableChanges' = tableChanges + 1
               /\ UNCHANGED <<early, cache, data, size, run, horizon>>
               /\ screenshots' \subseteq Shots /\ Old' \subseteq Old
    BY <2>2 DEF Arrives, TableChanges, Old, GalleryInv, GalleryTypeOK
  <2> QED BY <2>1, <2>2
<1>2. tableChanges' \in 0 .. MaxTableChanges
  BY <1>1 DEF GalleryInv, GalleryTypeOK
<1>3. GalleryTypeOK'
  BY <1>1, <1>2 DEF GalleryInv, GalleryTypeOK
<1> QED BY <1>1, <1>3, NoAnswer

LEMMA NextPageGalleryInv == ASSUME GalleryInv, NextPage PROVE GalleryInv'
<1> USE GalleryAssumption
<1> DEFINE c == KeyAfter(run.pages)
           p == IF Requests(Len(run.pages) + 1, c) THEN Fetched(c) ELSE cache[c]
<1>1. /\ run # NoPage /\ Len(run.pages) < size /\ HasKey(run.pages)
      /\ run' = [run EXCEPT !.pages = Append(@, p)]
      /\ cache' = [cache EXCEPT ![c] = p]
      /\ UNCHANGED <<screenshots, tableChanges, early, data, size, horizon>>
  BY DEF NextPage
<1>2. run \in Run /\ run.pages \in Seq(GalleryPage) /\ run.force \in BOOLEAN
      /\ size \in 1 .. MaxPages /\ Len(run.pages) \in Nat
  <2>1. run \in Run /\ size \in 1 .. MaxPages
    BY <1>1 DEF GalleryInv, GalleryTypeOK
  <2>2. run.pages \in Seq(GalleryPage) /\ run.force \in BOOLEAN
    BY <2>1 DEF Run
  <2> QED BY <2>1, <2>2
<1>3. c \in Cursors
  BY <1>1, <1>2 DEF KeyAfter, HasKey, Cursors, GalleryInv, InOrder
<1>4. p \in GalleryPage /\ PageFine(Old, c, p)
  <2>1. CASE Requests(Len(run.pages) + 1, c)
    BY <1>3, <2>1, FetchedFine DEF GalleryInv
  <2>2. CASE ~Requests(Len(run.pages) + 1, c)
    BY <1>3, <2>2 DEF Requests, GalleryInv, GalleryTypeOK
  <2> QED BY <2>1, <2>2
<1>5. cache' \in [Cursors -> GalleryPage \cup {NoPage}]
      /\ \A d \in Cursors : cache'[d] = IF d = c THEN p ELSE cache[d]
  <2>1. cache \in [Cursors -> GalleryPage \cup {NoPage}]
    BY DEF GalleryInv, GalleryTypeOK
  <2> HIDE DEF c, p
  <2> QED BY <1>1, <1>3, <1>4, <2>1
<1>6. /\ run'.pages = Append(run.pages, p) /\ run' \in Run
      /\ Len(run'.pages) = Len(run.pages) + 1
  <2> HIDE DEF c, p
  <2>1. run' = [run EXCEPT !.pages = Append(run.pages, p)]
    BY <1>1
  <2>2. Append(run.pages, p) \in Seq(GalleryPage) /\ Len(Append(run.pages, p)) = Len(run.pages) + 1
    BY <1>2, <1>4
  <2> QED BY <1>2, <2>1, <2>2 DEF Run
<1>7. InOrder(run'.pages) /\ WithoutHole(Old, run'.pages)
  <2>1. early \subseteq Shots /\ InOrder(run.pages) /\ WithoutHole(Old, run.pages)
    BY <1>1 DEF GalleryInv, GalleryTypeOK
  <2> QED BY <1>1, <1>2, <1>4, <1>6, <2>1, PageAppended
<1> HIDE DEF c, p
<1>8. Old' = Old
  BY <1>1 DEF Old
<1>9. GalleryTypeOK'
  BY <1>1, <1>5, <1>6 DEF GalleryInv, GalleryTypeOK
<1>10. \A d \in Cursors : cache'[d] # NoPage => PageFine(Old', d, cache'[d])
  BY <1>4, <1>5, <1>8 DEF GalleryInv
<1>11. WithoutHole(Old', data') /\ WithoutHole(Old', run'.pages)
  BY <1>1, <1>7, <1>8 DEF GalleryInv
<1>12. InOrder(data') /\ Len(run'.pages) <= size'
  BY <1>1, <1>2, <1>6 DEF GalleryInv
<1> QED BY <1>7, <1>9, <1>10, <1>11, <1>12 DEF GalleryInv

LEMMA NextGalleryInv == ASSUME GalleryInv, [GalleryNext]_galleryVars PROVE GalleryInv'
<1> USE GalleryAssumption
<1>1. CASE PagesDone
  <2>1. run \in Run /\ run.pages \in Seq(GalleryPage) /\ Len(run.pages) <= size
        /\ size \in 1 .. MaxPages /\ Len(run.pages) \in Nat
    BY <1>1 DEF PagesDone, Run, GalleryInv, GalleryTypeOK
  <2>2. Len(run.pages) <= MaxPages
    BY <2>1
  <2>3. GalleryTypeOK' /\ Old' = Old
    BY <1>1, <2>1, <2>2 DEF PagesDone, Old, GalleryInv, GalleryTypeOK
  <2> QED BY <1>1, <2>3, NoAnswer DEF PagesDone
<1>2. CASE PageFails
  <2>1. GalleryTypeOK' /\ Old' = Old
    BY <1>2 DEF PageFails, Old, GalleryInv, GalleryTypeOK
  <2> QED BY <1>2, <2>1, NoAnswer DEF PageFails
<1>3. CASE RetryPages \/ RefreshGallery \/ ScrollDown
  <2>1. PICK f \in BOOLEAN : Requested(f)
    BY <1>3 DEF RetryPages, RefreshGallery, ScrollDown
  <2>2. run' \in Run
    BY <2>1, FreshRun DEF GalleryInv
  <2>3. size' \in {size, size + 1} /\ size' \in 1 .. MaxPages
        /\ UNCHANGED <<screenshots, tableChanges, early, cache, data, horizon>>
    <3>1. /\ size' = size \/ (size < MaxPages /\ size' = size + 1)
          /\ UNCHANGED <<screenshots, tableChanges, early, cache, data, horizon>>
      BY <1>3 DEF RetryPages, RefreshGallery, ScrollDown
    <3>2. size \in 1 .. MaxPages
      BY DEF GalleryInv, GalleryTypeOK
    <3> QED BY <3>1, <3>2
  <2>4. GalleryTypeOK' /\ Old' = Old
    BY <2>2, <2>3 DEF Old, GalleryInv, GalleryTypeOK
  <2> QED BY <2>1, <2>3, <2>4, NoAnswer
<1>4. ASSUME NEW h \in Horizons, FilterBy(h) PROVE GalleryInv'
  <2>1. GalleryTypeOK' /\ Old' = Old
    BY <1>4 DEF FilterBy, Old, GalleryInv, GalleryTypeOK
  <2> QED BY <1>4, <2>1, NoAnswer DEF FilterBy
<1>5. CASE UNCHANGED galleryVars
  <2>1. GalleryTypeOK' /\ Old' = Old
    BY <1>5 DEF galleryVars, Old, GalleryInv, GalleryTypeOK
  <2> QED BY <1>5, <2>1, NoAnswer DEF galleryVars
<1> QED BY <1>1, <1>2, <1>3, <1>4, <1>5, TableGalleryInv, NextPageGalleryInv DEF GalleryNext

LEMMA GalleryInvHoles == GalleryInv => OnlyCursorsAreMissed
<1> SUFFICES ASSUME GalleryInv PROVE OnlyCursorsAreMissed
  OBVIOUS
<1>1. data \in Seq(GalleryPage) /\ InOrder(data) /\ WithoutHole(Old, data) /\ DOMAIN data = 1 .. Len(data)
      /\ Len(data) \in Nat
  BY DEF GalleryInv, GalleryTypeOK
<1>2. \A k \in DOMAIN data : data[k].shots \subseteq Shots
  <2> TAKE k \in DOMAIN data
  <2>1. data[k] \in GalleryPage
    BY <1>1
  <2> QED BY <2>1 DEF GalleryPage
<1>3. ASSUME NEW j \in DOMAIN data, NEW k \in DOMAIN data, j < k,
             NEW s \in data[j].shots, NEW t \in data[k].shots
      PROVE  t < s
  <2>1. data[j].more
    BY <1>1, <1>3 DEF InOrder
  <2>2. t < data[j].next /\ data[j].next < s /\ data[j].next \in Shots
    BY <1>1, <1>3, <2>1 DEF InOrder
  <2>3. s \in Nat /\ t \in Nat /\ data[j].next \in Nat
    BY <1>2, <2>2, GalleryAssumption DEF Shots
  <2> QED BY <2>2, <2>3
<1>4. ASSUME NEW s \in early \cap screenshots, s > horizon, NEW t \in Shown, t < s
      PROVE  s \in Shown \/ \E k \in DOMAIN data : data[k].next = s
  <2>1. PICK k \in DOMAIN data : t \in data[k].shots
    BY DEF Shown, Listed
  <2>2. PICK j \in 1 .. k : s \in data[j].shots \/ (j < k /\ s = data[j].next)
    BY <1>1, <1>4, <2>1 DEF WithoutHole, Old
  <2>3. j \in DOMAIN data
    BY <1>1
  <2> QED BY <1>4, <2>2, <2>3 DEF Shown, Listed
<1> QED BY <1>3, <1>4 DEF OnlyCursorsAreMissed, GalleryIsSorted

(* The gallery is in order and shows every screenshot that was there when  *)
(* it was opened, but for the cursors of its pages, for any number of      *)
(* screenshots, pages and changes of the table while it is open.           *)
THEOREM GalleryHasNoOtherHoles == GallerySpec => []OnlyCursorsAreMissed
BY GalleryInvHoles, InitGalleryInv, NextGalleryInv, PTL DEF GallerySpec

(* The pages, the cache and the requests stay within their types.          *)
THEOREM GalleryTypes == GallerySpec => []GalleryTypeOK
<1>1. GalleryInv => GalleryTypeOK
  BY DEF GalleryInv
<1> QED BY <1>1, InitGalleryInv, NextGalleryInv, PTL DEF GallerySpec

-----------------------------------------------------------------------------
(* The parts side by side: each of them behaves as its own specification   *)
(* says, so what the others do breaks none of their invariants.            *)
Reported == IngestInv /\ Alone /\ StoredOnce /\ OneByOne

PagesOfAllKinds ==
    /\ part \in Parts
    /\ AccountsTypeOK /\ AccountsIInv
    /\ Reported
    /\ GalleryInv /\ AuditInv /\ LogIInv
    /\ TimeIInv /\ EditorIInv /\ PagesIInv
    /\ AuthTypeOK /\ TabsIInv

LEMMA InitReported == IngestInit => Reported
<1> SUFFICES ASSUME IngestInit PROVE Reported
  OBVIOUS
<1>1. Alone /\ StoredOnce
  BY DEF IngestInit, Alone, StoredOnce, OneRowPerKind, ToSet
<1>2. OneByOne
  BY FS_EmptySet DEF IngestInit, OneByOne, Timeline, Covered, Counted, InProgress
<1> QED BY <1>1, <1>2, InitIngestInv DEF Reported

LEMMA NextReported == ASSUME Reported, [IngestNext]_ingestVars PROVE Reported'
BY NextIngestInv, AloneStep, EventsStep, OneByOneStep DEF Reported

LEMMA InitPagesOfAllKinds == DashboardInit => PagesOfAllKinds
<1> SUFFICES ASSUME DashboardInit PROVE PagesOfAllKinds
  OBVIOUS
<1>1. /\ part \in Parts
      /\ AccountsInit /\ IngestInit /\ GalleryInit /\ AuditInit /\ ActivityLogInit
      /\ TimeInit /\ EditorInit /\ PagesInit /\ AuthInit
  BY DEF DashboardInit
<1>2. AccountsTypeOK
  BY <1>1 DEF AccountsInit, AccountsTypeOK, Stages
<1> QED
  BY <1>1, <1>2, InitAccountsIInv, InitReported, InitGalleryInv, InitAuditInv, InitLog,
     InitTime, InitEditor, InitPages, InitAuthTypes, InitTabs
  DEF PagesOfAllKinds

LEMMA PartsOfPagesStep ==
  ASSUME [DashboardNext]_pagesAllVars
  PROVE  /\ part' = part
         /\ [AccountsNext]_accountsVars /\ [IngestNext]_ingestVars
         /\ [GalleryNext]_galleryVars /\ [AuditNext]_auditVars
         /\ [ActivityLogNext]_activityLogVars /\ [TimeNext]_timeVars
         /\ [EditorNext]_editorVars /\ [PagesNext]_pagesVars /\ [AuthNext]_authVars
<1>1. CASE UNCHANGED pagesAllVars
  BY <1>1 DEF pagesAllVars
<1>2. CASE DashboardNext
  BY <1>2 DEF DashboardNext, Moves
<1> QED BY <1>1, <1>2

LEMMA NextPagesOfAllKinds ==
  ASSUME PagesOfAllKinds, [DashboardNext]_pagesAllVars PROVE PagesOfAllKinds'
<1>1. AccountsIInv' /\ AccountsTypeOK'
  BY PartsOfPagesStep, NextAccountsIInv, AccountsTypesStep DEF PagesOfAllKinds
<1>2. Reported' /\ GalleryInv' /\ AuditInv'
  BY PartsOfPagesStep, NextReported, NextGalleryInv, NextAuditInv DEF PagesOfAllKinds
<1>3. LogIInv' /\ TimeIInv' /\ EditorIInv'
  BY PartsOfPagesStep, NextLog, NextTime, NextEditor DEF PagesOfAllKinds
<1>4. PagesIInv' /\ AuthTypeOK' /\ TabsIInv'
  BY PartsOfPagesStep, NextPages, NextAuthTypes, NextTabs DEF PagesOfAllKinds
<1> QED BY <1>1, <1>2, <1>3, <1>4, PartsOfPagesStep DEF PagesOfAllKinds

(* The variables of the part that moves are well typed.                    *)
THEOREM DashboardTypes == DashboardSpec => []DashboardTypeOK
<1>1. PagesOfAllKinds => DashboardTypeOK
  <2> SUFFICES ASSUME PagesOfAllKinds PROVE DashboardTypeOK
    OBVIOUS
  <2>1. /\ AccountsTypeOK /\ IngestTypeOK /\ GalleryTypeOK /\ AuditTypeOK /\ AuthTypeOK
        /\ ActivityLogTypeOK /\ EditorTypeOK /\ PagesTypeOK
    BY DEF PagesOfAllKinds, Reported, IngestInv, GalleryInv, AuditInv, LogIInv, EditorIInv, PagesIInv
  <2>2. TimeTypeOK
    BY TimeIInvTypes DEF PagesOfAllKinds
  <2> QED BY <2>1, <2>2 DEF PagesOfAllKinds, Parts, DashboardTypeOK
<1> QED BY <1>1, InitPagesOfAllKinds, NextPagesOfAllKinds, PTL DEF DashboardSpec

(* The parts keep what each of them promises also side by side, for every  *)
(* number of machines, tabs, pages, reports and edits.                     *)
THEOREM PagesPartsAreSafe ==
    DashboardSpec => []( /\ CredentialsWork
                         /\ SessionsCoverActivity /\ OneRowPerKind
                         /\ OnlyCursorsAreMissed /\ ViewIsCurrent /\ LogHasNoHoles
                         /\ TypedIsShown /\ EditorIsFaithful
                         /\ CarefulEditsStick /\ TabsAreSound )
<1>1. AccountsIInv => CredentialsWork
  BY IInvCredentials
<1>2. Reported => SessionsCoverActivity /\ OneRowPerKind
  BY ReportedCovers DEF Reported, StoredOnce
<1>3. GalleryInv => OnlyCursorsAreMissed
  BY GalleryInvHoles
<1>4. AuditInv => ViewIsCurrent
  BY DEF AuditInv, Fresh, ViewIsCurrent
<1>5. LogIInv => LogHasNoHoles
  BY LogIInvWhole
<1>6. TimeIInv => TypedIsShown
  BY DEF TimeIInv
<1>7. EditorIInv => EditorIsFaithful
  BY EditorIInvFaithful
<1>8. PagesIInv => CarefulEditsStick
  BY PagesIInvSticks
<1>9. TabsIInv => TabsAreSound
  BY TabsIInvSound
<1>10. PagesOfAllKinds => /\ CredentialsWork
                          /\ SessionsCoverActivity /\ OneRowPerKind
                          /\ OnlyCursorsAreMissed /\ ViewIsCurrent /\ LogHasNoHoles
                          /\ TypedIsShown /\ EditorIsFaithful
                          /\ CarefulEditsStick /\ TabsAreSound
  BY <1>1, <1>2, <1>3, <1>4, <1>5, <1>6, <1>7, <1>8, <1>9, Zenon DEF PagesOfAllKinds
<1> QED BY <1>10, InitPagesOfAllKinds, NextPagesOfAllKinds, PTL DEF DashboardSpec
=============================================================================
