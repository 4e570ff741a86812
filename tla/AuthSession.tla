----------------------------- MODULE AuthSession -----------------------------
(***************************************************************************)
(* Signing in to the dashboard: AuthContext.tsx, LoginPage.tsx, axios.ts,  *)
(* App.tsx and the routes of routes/web/auth.ts.                           *)
(*                                                                         *)
(* The tabs of a browser share one localStorage.  Each keeps a token of    *)
(* its own in its state, verifies it once whenever it changes, and sends   *)
(* the one of localStorage with every request.  No component calls logout. *)
(***************************************************************************)
EXTENDS Naturals, FiniteSets

CONSTANTS
    Tabs,       \* open tabs of one browser
    MaxLogins,  \* bound: successful logins
    MaxReloads, \* bound: reloads of a tab, and failing calls
    NoToken     \* no token

ASSUME AuthAssumption ==
    /\ MaxLogins \in Nat /\ MaxReloads \in Nat
    /\ NoToken \notin Nat

VARIABLES
    storedToken,      \* localStorage auth_token
    tabToken,         \* AuthContext.token of each tab
    isAuthenticated,  \* of each tab
    authLoading,      \* AuthContext.isLoading of each tab
    verifying,        \* GET /auth/status in progress
    loggingIn,        \* POST /auth/login in progress: the tabs
    issued,           \* number of tokens issued
    validTokens,      \* those that are not expired
    reloads,          \* reloads and failed calls so far
    orphaned          \* history: a tab removed a token that it did not verify

authVars == <<storedToken, tabToken, isAuthenticated, authLoading, verifying, loggingIn,
              issued, validTokens, reloads, orphaned>>

Tokens == 1 .. MaxLogins
Verification == [tab : Tabs, sent : Tokens \cup {NoToken}, read : BOOLEAN, valid : BOOLEAN]

AuthTypeOK ==
    /\ storedToken \in Tokens \cup {NoToken}
    /\ tabToken \in [Tabs -> Tokens \cup {NoToken}]
    /\ isAuthenticated \in [Tabs -> BOOLEAN] /\ authLoading \in [Tabs -> BOOLEAN]
    /\ verifying \subseteq Verification /\ loggingIn \subseteq Tabs
    /\ issued \in 0 .. MaxLogins /\ validTokens \subseteq 1 .. issued
    /\ reloads \in 0 .. MaxReloads /\ orphaned \in BOOLEAN

-----------------------------------------------------------------------------
(* The request interceptor: the token of the moment, whoever stored it.    *)
Verify(t, stored) == [tab |-> t, sent |-> stored, read |-> FALSE, valid |-> FALSE]

Spends == reloads < MaxReloads /\ reloads' = reloads + 1

(* The provider starts with the stored token: verified if there is one.    *)
AuthInit ==
    /\ storedToken = NoToken
    /\ tabToken = [t \in Tabs |-> NoToken]
    /\ isAuthenticated = [t \in Tabs |-> FALSE]
    /\ authLoading = [t \in Tabs |-> FALSE]
    /\ verifying = {} /\ loggingIn = {}
    /\ issued = 0 /\ validTokens = {}
    /\ reloads = 0 /\ orphaned = FALSE

(* A tab is reloaded; the answers to its earlier requests go nowhere.      *)
ReloadTab(t) ==
    /\ Spends
    /\ tabToken' = [tabToken EXCEPT ![t] = storedToken]
    /\ isAuthenticated' = [isAuthenticated EXCEPT ![t] = FALSE]
    /\ authLoading' = [authLoading EXCEPT ![t] = storedToken # NoToken]
    /\ loggingIn' = loggingIn \ {t}
    /\ verifying' = {v \in verifying : v.tab # t}
                      \cup (IF storedToken = NoToken THEN {} ELSE {Verify(t, storedToken)})
    /\ UNCHANGED <<storedToken, issued, validTokens, orphaned>>

(* GET /auth/status: jwt.verify.                                           *)
StatusVerified(v) ==
    /\ ~v.read
    /\ verifying' = (verifying \ {v}) \cup {[v EXCEPT !.read = TRUE, !.valid = v.sent \in validTokens]}
    /\ UNCHANGED <<storedToken, tabToken, isAuthenticated, authLoading, loggingIn, issued,
                   validTokens, reloads, orphaned>>

StatusConfirmed(v) ==
    /\ v.read /\ v.valid
    /\ verifying' = verifying \ {v}
    /\ isAuthenticated' = [isAuthenticated EXCEPT ![v.tab] = TRUE]
    /\ authLoading' = [authLoading EXCEPT ![v.tab] = FALSE]
    /\ UNCHANGED <<storedToken, tabToken, loggingIn, issued, validTokens, reloads, orphaned>>

(* Mutant of Forgets: the tab waits for a verification for ever.           *)
ForgetsAndLoads(v) ==
    /\ isAuthenticated' = [isAuthenticated EXCEPT ![v.tab] = FALSE]
    /\ tabToken' = [tabToken EXCEPT ![v.tab] = NoToken]
    /\ storedToken' = NoToken
    /\ UNCHANGED authLoading

(* The token the server did not accept, if it is that which the call says. *)
Refuted(v) == IF v.read /\ ~v.valid THEN {v.sent} ELSE {}

(* The catch of the verification: whatever is stored by now is removed.    *)
Forgets(v) ==
    /\ isAuthenticated' = [isAuthenticated EXCEPT ![v.tab] = FALSE]
    /\ tabToken' = [tabToken EXCEPT ![v.tab] = NoToken]
    /\ storedToken' = NoToken
    /\ authLoading' = [authLoading EXCEPT ![v.tab] = FALSE]

(* 401, 403, or any other failure of the call.                             *)
StatusRefused(v) ==
    /\ IF v.read /\ ~v.valid THEN UNCHANGED reloads ELSE Spends
    /\ orphaned' = (orphaned \/ storedToken \notin {NoToken} \cup Refuted(v))
    /\ verifying' = verifying \ {v}
    /\ Forgets(v)
    /\ UNCHANGED <<loggingIn, issued, validTokens>>

(* The login page is there when the provider neither loads nor has a valid *)
(* token; its button is disabled during the request.                       *)
LoginSubmitted(t) ==
    /\ ~authLoading[t] /\ ~isAuthenticated[t]
    /\ t \notin loggingIn
    /\ loggingIn' = loggingIn \cup {t}
    /\ UNCHANGED <<storedToken, tabToken, isAuthenticated, authLoading, verifying, issued,
                   validTokens, reloads, orphaned>>

(* POST /auth/login with the passphrase: a new token, stored and verified. *)
LoginAnswered(t) ==
    /\ t \in loggingIn
    /\ issued < MaxLogins
    /\ issued' = issued + 1
    /\ validTokens' = validTokens \cup {issued + 1}
    /\ storedToken' = issued + 1
    /\ tabToken' = [tabToken EXCEPT ![t] = issued + 1]
    /\ isAuthenticated' = [isAuthenticated EXCEPT ![t] = TRUE]
    /\ loggingIn' = loggingIn \ {t}
    /\ verifying' = verifying \cup {Verify(t, issued + 1)}
    /\ UNCHANGED <<authLoading, reloads, orphaned>>

(* A wrong passphrase, or a call that fails.                               *)
LoginRefused(t) ==
    /\ t \in loggingIn
    /\ loggingIn' = loggingIn \ {t}
    /\ UNCHANGED <<storedToken, tabToken, isAuthenticated, authLoading, verifying, issued,
                   validTokens, reloads, orphaned>>

(* The oldest token expires (JWT_EXPIRATION); an open page does not notice. *)
TokenExpires(k) ==
    /\ k \in validTokens /\ \A j \in validTokens : k <= j
    /\ validTokens' = validTokens \ {k}
    /\ UNCHANGED <<storedToken, tabToken, isAuthenticated, authLoading, verifying, loggingIn,
                   issued, reloads, orphaned>>

AuthNext ==
    \/ \E t \in Tabs : ReloadTab(t) \/ LoginSubmitted(t) \/ LoginAnswered(t) \/ LoginRefused(t)
    \/ \E v \in verifying : StatusVerified(v) \/ StatusConfirmed(v) \/ StatusRefused(v)
    \/ \E k \in Tokens : TokenExpires(k)

AuthSpec == AuthInit /\ [][AuthNext]_authVars

-----------------------------------------------------------------------------
(* No tab shows "Loading..." without a verification under way, and none    *)
(* shows the dashboard without a token of its own.  Unless a tab removed a *)
(* token that was not the one it had verified (another tab had signed in   *)
(* meanwhile, or the call failed for another reason), a tab with the       *)
(* dashboard also has a stored token to send, or waits for the news that   *)
(* its own has expired.                                                    *)
TabsAreSound ==
    \A t \in Tabs :
        /\ authLoading[t] => \E v \in verifying : v.tab = t
        /\ isAuthenticated[t] => tabToken[t] # NoToken
        /\ isAuthenticated[t] /\ ~orphaned =>
              storedToken # NoToken \/ tabToken[t] \notin validTokens

============================================================================
