-------------------------- MODULE MachineAccounts --------------------------
(***************************************************************************)
(* How the server hands out machine accounts: the registration route       *)
(* (routes/machine/machines.ts), MachineService.register and update, the   *)
(* API-key middleware (middleware/auth.ts) and the check of the            *)
(* machine:connect event (socketHandler.ts).                               *)
(*                                                                         *)
(* Every statement of register is an await of its own, so registrations    *)
(* interleave.  An agent asks under the id and the name its computer has;  *)
(* two computers may share either (a cloned or a renamed machine).         *)
(***************************************************************************)
EXTENDS Naturals

CONSTANTS
    Agents,   \* computers that run the service
    Ids,      \* machine ids
    Names,    \* machine names
    NoRow,    \* no machine row under an id
    NoCreds   \* an agent that has not been answered

ASSUME AccountsAssumption == NoRow \notin Names /\ NoCreds \notin [id : Ids, key : Ids]

VARIABLES
    own,       \* own[a]: the id and name agent a asks under
    account,   \* account[i]: the name in the row of machine i, or NoRow
    asking,    \* asking[a]: how far the registration of a is
    creds,     \* creds[a]: the id and API key agent a was given
    accepted   \* accepted[a]: the answer to the last machine:connect of a

accountsVars == <<own, account, asking, creds, accepted>>

Stages == {"idle", "byId", "byName", "create"}

(* The API key of a row is random and unique: it is named by the row's id. *)
KeyOf(i) == i

(* findFirst({ apiKey }) of authenticateMachine: the rows a key opens.     *)
RowsOfKey(k) == {i \in Ids : account[i] # NoRow /\ KeyOf(i) = k}

AccountsTypeOK ==
    /\ own \in [Agents -> [id : Ids, name : Names]]
    /\ account \in [Ids -> Names \cup {NoRow}]
    /\ asking \in [Agents -> Stages]
    /\ creds \in [Agents -> [id : Ids, key : Ids] \cup {NoCreds}]
    /\ accepted \in [Agents -> BOOLEAN]

AccountsInit ==
    /\ own \in [Agents -> [id : Ids, name : Names]]
    /\ account = [i \in Ids |-> NoRow]
    /\ asking = [a \in Agents |-> "idle"]
    /\ creds = [a \in Agents |-> NoCreds]
    /\ accepted = [a \in Agents |-> FALSE]

Proceed(a, stage) == asking' = [asking EXCEPT ![a] = stage]

Answer(a, i, k) ==
    /\ creds' = [creds EXCEPT ![a] = [id |-> i, key |-> k]]
    /\ Proceed(a, "idle")

(* An agent registers; it may do so again after it lost its credentials.   *)
Register(a) ==
    /\ asking[a] = "idle"
    /\ Proceed(a, "byId")
    /\ creds' = [creds EXCEPT ![a] = NoCreds]
    /\ accepted' = [accepted EXCEPT ![a] = FALSE]
    /\ UNCHANGED <<own, account>>

(* 1. A row under the id exists: its credentials are returned.             *)
RegisterById(a) ==
    /\ asking[a] = "byId"
    /\ IF account[own[a].id] # NoRow
         THEN Answer(a, own[a].id, KeyOf(own[a].id))
         ELSE Proceed(a, "byName") /\ UNCHANGED creds
    /\ UNCHANGED <<own, account, accepted>>

(* Mutant of RegisterByName: the requested id goes back with the found key. *)
RegisterByNameKeepsId(a) ==
    /\ asking[a] = "byName"
    /\ \/ \E i \in Ids : account[i] = own[a].name /\ Answer(a, own[a].id, KeyOf(i))
       \/ /\ \A i \in Ids : account[i] # own[a].name
          /\ Proceed(a, "create")
          /\ UNCHANGED creds
    /\ UNCHANGED <<own, account, accepted>>

(* 2. A row under the name exists: the credentials and the id of that row. *)
RegisterByName(a) ==
    /\ asking[a] = "byName"
    /\ \/ \E i \in Ids : account[i] = own[a].name /\ Answer(a, i, KeyOf(i))
       \/ /\ \A i \in Ids : account[i] # own[a].name
          /\ Proceed(a, "create")
          /\ UNCHANGED creds
    /\ UNCHANGED <<own, account, accepted>>

(* 3. A new row.  Another registration may have created the id meanwhile:  *)
(* the unique id makes the statement fail and the route answers 500.       *)
RegisterCreate(a) ==
    /\ asking[a] = "create"
    /\ IF account[own[a].id] = NoRow
         THEN /\ account' = [account EXCEPT ![own[a].id] = own[a].name]
              /\ Answer(a, own[a].id, KeyOf(own[a].id))
         ELSE /\ Proceed(a, "idle")
              /\ UNCHANGED <<account, creds>>
    /\ UNCHANGED <<own, accepted>>

(* machine:connect: the row must match the id and the key.                 *)
Authenticate(a) ==
    /\ creds[a] # NoCreds
    /\ accepted' = [accepted EXCEPT ![a] = creds[a].id \in RowsOfKey(creds[a].key)]
    /\ UNCHANGED <<own, account, asking, creds>>

(* PUT /machines/:id under an API key: the machine is renamed.             *)
UpdateDetails(a) ==
    /\ creds[a] # NoCreds
    /\ RowsOfKey(creds[a].key) # {}
    /\ account[creds[a].id] # NoRow
    /\ \E n \in Names : account' = [account EXCEPT ![creds[a].id] = n]
    /\ UNCHANGED <<own, asking, creds, accepted>>

AccountsNext ==
    \E a \in Agents :
        \/ Register(a) \/ RegisterById(a) \/ RegisterByName(a)
        \/ RegisterCreate(a) \/ Authenticate(a) \/ UpdateDetails(a)

AccountsSpec == AccountsInit /\ [][AccountsNext]_accountsVars

(* Every credential the server has given out opens the account it names,   *)
(* over HTTP (by key) and on the socket (by id and key), also when it was  *)
(* recovered by name from the row of another id.                           *)
CredentialsWork ==
    \A a \in Agents : creds[a] # NoCreds => RowsOfKey(creds[a].key) = {creds[a].id}

============================================================================
