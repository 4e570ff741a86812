----------------------- MODULE DashboardPages_proofs ------------------------
(* Proofs about the pages of the dashboard that edit or scroll: the tabs   *)
(* that share a token (AuthSession), for any number of tabs, logins and    *)
(* reloads; the time picker (TimePicker), for every time it may open with; *)
(* the settings pages, the schedule editor and the activity log.           *)
EXTENDS AuthSession, TimePicker, SettingsPages, ScheduleEditor, ActivityLog,
        SequenceTheorems, FiniteSetTheorems, WellFoundedInduction, TLAPS

-----------------------------------------------------------------------------
(* The tabs.                                                               *)
Verifications == [tab : Tabs, sent : Nat, read : BOOLEAN, valid : BOOLEAN]

TabShapes ==
    /\ tabToken \in [Tabs -> Nat \cup {NoToken}]
    /\ isAuthenticated \in [Tabs -> BOOLEAN]
    /\ authLoading \in [Tabs -> BOOLEAN]
    /\ verifying \subseteq Verifications
    /\ loggingIn \subseteq Tabs
    /\ issued \in Nat
    /\ orphaned \in BOOLEAN

(* The oldest token expires first, so the newest one is the last to go;    *)
(* and what is stored is the newest one, or nothing.                       *)
TokensInOrder ==
    /\ validTokens \subseteq 1 .. issued
    /\ \A j \in validTokens, k \in 1 .. issued : j <= k => k \in validTokens
    /\ storedToken # NoToken => storedToken = issued /\ issued > 0
    /\ orphaned \/ storedToken # NoToken \/ validTokens = {}

(* A tab verifies at most one token, its own, while it loads or shows the  *)
(* dashboard; a token that was found invalid stays so.                     *)
OneVerification ==
    /\ \A v \in verifying :
          /\ authLoading[v.tab] \/ isAuthenticated[v.tab]
          /\ tabToken[v.tab] # NoToken
          /\ v.sent \in 1 .. issued
          /\ v.read /\ ~v.valid => v.sent \notin validTokens
    /\ \A u, v \in verifying : u.tab = v.tab => u = v
    /\ \A t \in loggingIn : ~authLoading[t] /\ ~isAuthenticated[t]

TabsShown ==
    \A t \in Tabs :
        /\ authLoading[t] => \E v \in verifying : v.tab = t
        /\ isAuthenticated[t] => tabToken[t] # NoToken

TabsIInv == TabShapes /\ TokensInOrder /\ OneVerification /\ TabsShown

LEMMA LoginTabs ==
  ASSUME TabsIInv, NEW t \in Tabs, LoginSubmitted(t) \/ LoginAnswered(t) \/ LoginRefused(t)
  PROVE  TabsIInv'
<1> USE AuthAssumption
        DEF TabsIInv, TabShapes, TokensInOrder, OneVerification, TabsShown
<1>1. CASE LoginSubmitted(t)
  BY <1>1 DEF LoginSubmitted
<1>2. CASE LoginRefused(t)
  BY <1>2 DEF LoginRefused
<1>3. CASE LoginAnswered(t)
  <2> DEFINE new == Verify(t, issued + 1)
  <2>1. /\ new \in Verifications /\ new.tab = t /\ new.sent = issued + 1 /\ ~new.read
    BY DEF Verify, Verifications
  <2>2. /\ issued' = issued + 1 /\ storedToken' = issued + 1
        /\ validTokens' = validTokens \cup {issued + 1}
        /\ tabToken' = [tabToken EXCEPT ![t] = issued + 1]
        /\ isAuthenticated' = [isAuthenticated EXCEPT ![t] = TRUE]
        /\ loggingIn' = loggingIn \ {t} /\ t \in loggingIn
        /\ verifying' = verifying \cup {new}
        /\ authLoading' = authLoading /\ orphaned' = orphaned
    BY <1>3 DEF LoginAnswered
  <2>3. \A v \in verifying : v.tab # t
    BY <2>2
  <2>4. TabShapes'
    BY <2>1, <2>2
  <2>5. TokensInOrder'
    BY <2>2
  <2>6. OneVerification'
    <3>1. \A v \in verifying' :
            /\ authLoading'[v.tab] \/ isAuthenticated'[v.tab]
            /\ tabToken'[v.tab] # NoToken
            /\ v.sent \in 1 .. issued'
            /\ v.read /\ ~v.valid => v.sent \notin validTokens'
      <4>1. \A v \in verifying : v.tab \in Tabs /\ v.sent \in 1 .. issued
        BY DEF Verifications
      <4> QED BY <2>1, <2>2, <2>3, <4>1
    <3>2. \A u, v \in verifying' : u.tab = v.tab => u = v
      BY <2>1, <2>2, <2>3
    <3>3. \A s \in loggingIn' : ~authLoading'[s] /\ ~isAuthenticated'[s]
      BY <2>2
    <3> QED BY <3>1, <3>2, <3>3
  <2>7. TabsShown'
    BY <2>2
  <2> QED BY <2>4, <2>5, <2>6, <2>7
<1> QED BY <1>1, <1>2, <1>3

LEMMA ReloadTabs == ASSUME TabsIInv, NEW t \in Tabs, ReloadTab(t) PROVE TabsIInv'
<1> USE AuthAssumption DEF TabsIInv
<1>1. /\ tabToken' = [tabToken EXCEPT ![t] = storedToken]
      /\ isAuthenticated' = [isAuthenticated EXCEPT ![t] = FALSE]
      /\ authLoading' = [authLoading EXCEPT ![t] = storedToken # NoToken]
      /\ loggingIn' = loggingIn \ {t}
      /\ UNCHANGED <<storedToken, issued, validTokens, orphaned>>
  BY DEF ReloadTab
<1>2. TokensInOrder'
  BY <1>1 DEF TokensInOrder
<1>3. CASE storedToken = NoToken
  <2>1. verifying' = {v \in verifying : v.tab # t}
    BY <1>3 DEF ReloadTab
  <2>2. TabShapes'
    BY <1>1, <1>3, <2>1 DEF TabShapes
  <2>3. OneVerification'
    BY <1>1, <2>1 DEF OneVerification, TabShapes, Verifications
  <2>4. TabsShown'
    BY <1>1, <1>3, <2>1 DEF TabsShown, TabShapes
  <2> QED BY <1>2, <2>2, <2>3, <2>4
<1>4. CASE storedToken # NoToken
  <2> DEFINE new == Verify(t, storedToken)
  <2>1. /\ storedToken \in Nat /\ storedToken = issued
        /\ new \in Verifications /\ new.tab = t /\ new.sent = issued /\ ~new.read
    BY <1>4 DEF Verify, Verifications, TokensInOrder, TabShapes
  <2>2. verifying' = {v \in verifying : v.tab # t} \cup {new}
    BY <1>4 DEF ReloadTab
  <2>3. authLoading'[t] = TRUE /\ tabToken'[t] # NoToken
    BY <1>1, <1>4 DEF TabShapes
  <2>4. TabShapes'
    BY <1>1, <2>1, <2>2 DEF TabShapes
  <2>5. OneVerification'
    <3>1. issued \in 1 .. issued
      BY <1>4, <2>1 DEF TabShapes, TokensInOrder
    <3> QED BY <1>1, <2>1, <2>2, <2>3, <3>1 DEF OneVerification, TabShapes, Verifications
  <2>6. TabsShown'
    BY <1>1, <2>1, <2>2, <2>3 DEF TabsShown, TabShapes
  <2> QED BY <1>2, <2>4, <2>5, <2>6
<1> QED BY <1>3, <1>4

(* The status of a token is looked up, confirmed, refused; tokens expire.  *)
LEMMA StatusTabs ==
  ASSUME TabsIInv, NEW v \in verifying,
         StatusVerified(v) \/ StatusConfirmed(v) \/ StatusRefused(v)
  PROVE  TabsIInv'
<1> USE AuthAssumption DEF TabsIInv
<1>1. /\ v \in Verifications /\ v.tab \in Tabs
      /\ \A u \in verifying \ {v} : u.tab # v.tab
  BY DEF TabShapes, Verifications, OneVerification
<1>2. CASE StatusVerified(v)
  <2> DEFINE new == [v EXCEPT !.read = TRUE, !.valid = v.sent \in validTokens]
  <2>1. /\ new \in Verifications /\ new.tab = v.tab /\ new.sent = v.sent
        /\ new.valid <=> v.sent \in validTokens
    <3>1. \A b \in BOOLEAN :
            LET n == [v EXCEPT !.read = TRUE, !.valid = b] IN
            n \in Verifications /\ n.tab = v.tab /\ n.sent = v.sent /\ n.valid = b
      BY <1>1 DEF Verifications
    <3>2. CASE v.sent \in validTokens
      BY <3>1, <3>2
    <3>3. CASE v.sent \notin validTokens
      <4>1. (v.sent \in validTokens) = FALSE
        BY <3>3
      <4>2. new = [v EXCEPT !.read = TRUE, !.valid = FALSE]
        BY <4>1, Zenon
      <4> QED BY <3>1, <3>3, <4>2
    <3> QED BY <3>2, <3>3
  <2>2. /\ verifying' = (verifying \ {v}) \cup {new}
        /\ UNCHANGED <<storedToken, tabToken, isAuthenticated, authLoading, loggingIn,
                       issued, validTokens, orphaned>>
    BY <1>2 DEF StatusVerified
  <2>3. TabShapes' /\ TokensInOrder'
    BY <2>1, <2>2 DEF TabShapes, TokensInOrder
  <2>4. OneVerification'
    <3>1. \A u \in verifying' :
            /\ authLoading[u.tab] \/ isAuthenticated[u.tab]
            /\ tabToken[u.tab] # NoToken
            /\ u.sent \in 1 .. issued
            /\ u.read /\ ~u.valid => u.sent \notin validTokens
      BY <2>1, <2>2 DEF OneVerification
    <3>2. \A u \in verifying' : u = new \/ (u \in verifying /\ u.tab # new.tab)
      BY <1>1, <2>1, <2>2
    <3>3. \A u, w \in verifying' : u.tab = w.tab => u = w
      BY <3>2 DEF OneVerification
    <3> QED BY <2>2, <3>1, <3>3 DEF OneVerification
  <2>5. TabsShown'
    BY <2>1, <2>2 DEF TabsShown
  <2> QED BY <2>3, <2>4, <2>5
<1>3. CASE StatusConfirmed(v)
  <2>1. /\ verifying' = verifying \ {v}
        /\ isAuthenticated' = [isAuthenticated EXCEPT ![v.tab] = TRUE]
        /\ authLoading' = [authLoading EXCEPT ![v.tab] = FALSE]
        /\ UNCHANGED <<storedToken, tabToken, loggingIn, issued, validTokens, orphaned>>
    BY <1>3 DEF StatusConfirmed
  <2>2. v.tab \notin loggingIn
    BY DEF OneVerification
  <2>3. TabShapes' /\ TokensInOrder'
    BY <2>1 DEF TabShapes, TokensInOrder
  <2>4. OneVerification'
    BY <1>1, <2>1, <2>2 DEF OneVerification, TabShapes, Verifications
  <2>5. TabsShown'
    BY <1>1, <2>1 DEF TabsShown, TabShapes, OneVerification
  <2> QED BY <2>3, <2>4, <2>5
<1>4. CASE StatusRefused(v)
  <2>1. /\ verifying' = verifying \ {v}
        /\ isAuthenticated' = [isAuthenticated EXCEPT ![v.tab] = FALSE]
        /\ authLoading' = [authLoading EXCEPT ![v.tab] = FALSE]
        /\ tabToken' = [tabToken EXCEPT ![v.tab] = NoToken]
        /\ storedToken' = NoToken
        /\ UNCHANGED <<loggingIn, issued, validTokens>>
    BY <1>4 DEF StatusRefused, Forgets
  <2>2. orphaned' \in BOOLEAN /\ (orphaned' \/ validTokens = {})
    <3> DEFINE other == storedToken \notin {NoToken} \cup Refuted(v)
    <3>0. orphaned' = (orphaned \/ other) /\ orphaned \in BOOLEAN /\ other \in BOOLEAN
      BY <1>4, Zenon DEF StatusRefused, TabShapes
    <3>5. storedToken = NoToken => orphaned \/ validTokens = {}
      BY DEF TokensInOrder
    <3>1. CASE v.read /\ ~v.valid
      <4>1. other <=> storedToken # NoToken /\ storedToken # v.sent
        BY <3>1 DEF Refuted
      <4>2. v.sent \notin validTokens /\ v.sent \in 1 .. issued
        BY <3>1 DEF OneVerification
      <4>3. storedToken = v.sent => validTokens = {}
        <5> SUFFICES ASSUME storedToken = v.sent, NEW j \in validTokens PROVE FALSE
          OBVIOUS
        <5>1. v.sent = issued
          BY <4>2 DEF TokensInOrder, TabShapes
        <5>2. j \in 1 .. issued /\ j <= issued
          BY DEF TokensInOrder, TabShapes
        <5> QED BY <4>2, <5>1, <5>2 DEF TokensInOrder
      <4> HIDE DEF other
      <4> QED BY <3>0, <3>5, <4>1, <4>3
    <3>2. CASE ~(v.read /\ ~v.valid)
      <4>1. other <=> storedToken # NoToken
        BY <3>2 DEF Refuted
      <4> HIDE DEF other
      <4> QED BY <3>0, <3>5, <4>1
    <3> QED BY <3>1, <3>2
  <2>3. TabShapes'
    BY <2>1, <2>2 DEF TabShapes
  <2>4. TokensInOrder'
    BY <2>1, <2>2 DEF TokensInOrder
  <2>5. OneVerification'
    BY <1>1, <2>1 DEF OneVerification, TabShapes, Verifications
  <2>6. TabsShown'
    BY <1>1, <2>1 DEF TabsShown, TabShapes
  <2> QED BY <2>3, <2>4, <2>5, <2>6
<1> QED BY <1>2, <1>3, <1>4

LEMMA ExpiryTabs == ASSUME TabsIInv, NEW k \in Tokens, TokenExpires(k) PROVE TabsIInv'
<1>1. /\ validTokens' = validTokens \ {k} /\ \A j \in validTokens : k <= j
      /\ UNCHANGED <<storedToken, tabToken, isAuthenticated, authLoading, verifying,
                     loggingIn, issued, orphaned>>
  BY DEF TokenExpires
<1>2. k \in Nat
  BY AuthAssumption DEF Tokens
<1>3. TokensInOrder'
  <2>1. \A j \in validTokens', i \in 1 .. issued : j <= i => i \in validTokens'
    <3> SUFFICES ASSUME NEW j \in validTokens \ {k}, NEW i \in 1 .. issued, j <= i
                 PROVE  i \in validTokens /\ i # k
      BY <1>1
    <3>1. j \in Nat /\ k <= j
      BY <1>1 DEF TabsIInv, TokensInOrder, TabShapes
    <3> QED BY <1>2, <3>1 DEF TabsIInv, TokensInOrder, TabShapes
  <2> QED BY <1>1, <2>1 DEF TabsIInv, TokensInOrder
<1> QED BY <1>1, <1>3 DEF TabsIInv, TabShapes, OneVerification, TabsShown

LEMMA NextTabs == ASSUME TabsIInv, [AuthNext]_authVars PROVE TabsIInv'
<1>1. CASE UNCHANGED authVars
  BY <1>1 DEF authVars, TabsIInv, TabShapes, TokensInOrder, OneVerification, TabsShown
<1> QED BY <1>1, LoginTabs, ReloadTabs, StatusTabs, ExpiryTabs DEF AuthNext

LEMMA InitTabs == AuthInit => TabsIInv
<1> SUFFICES ASSUME AuthInit PROVE TabsIInv
  OBVIOUS
<1>1. TabShapes
  BY DEF AuthInit, TabShapes
<1>2. TokensInOrder
  BY DEF AuthInit, TokensInOrder
<1>3. OneVerification
  BY DEF AuthInit, OneVerification
<1>4. TabsShown
  BY DEF AuthInit, TabsShown
<1> QED BY <1>1, <1>2, <1>3, <1>4 DEF TabsIInv

LEMMA TabsIInvSound == TabsIInv => TabsAreSound
BY DEF TabsIInv, TabsShown, TokensInOrder, TabsAreSound

(* No tab loads for ever without a verification, none shows the dashboard  *)
(* without a token, and a stored token is missing only when it had expired *)
(* or a tab removed one that it did not verify.                            *)
THEOREM TabsStaySound == AuthSpec => []TabsAreSound
BY InitTabs, NextTabs, TabsIInvSound, PTL DEF AuthSpec

LEMMA InitAuthTypes == AuthInit => AuthTypeOK
<1> USE AuthAssumption
<1> SUFFICES ASSUME AuthInit PROVE AuthTypeOK
  OBVIOUS
<1>1. issued \in 0 .. MaxLogins /\ reloads \in 0 .. MaxReloads
  BY DEF AuthInit
<1>2. /\ storedToken = NoToken /\ tabToken \in [Tabs -> {NoToken}]
      /\ isAuthenticated \in [Tabs -> BOOLEAN] /\ authLoading \in [Tabs -> BOOLEAN]
      /\ verifying = {} /\ loggingIn = {} /\ validTokens = {} /\ orphaned \in BOOLEAN
  BY DEF AuthInit
<1> QED BY <1>1, <1>2 DEF AuthTypeOK

LEMMA NextAuthTypes == ASSUME AuthTypeOK, [AuthNext]_authVars PROVE AuthTypeOK'
<1> USE AuthAssumption
<1>1. ASSUME NEW t \in Tabs, ReloadTab(t) PROVE AuthTypeOK'
  <2>1. /\ reloads < MaxReloads /\ reloads' = reloads + 1
        /\ tabToken' = [tabToken EXCEPT ![t] = storedToken]
        /\ isAuthenticated' = [isAuthenticated EXCEPT ![t] = FALSE]
        /\ authLoading' = [authLoading EXCEPT ![t] = storedToken # NoToken]
        /\ loggingIn' = loggingIn \ {t}
        /\ verifying' \subseteq verifying \cup {Verify(t, storedToken)}
        /\ UNCHANGED <<storedToken, issued, validTokens, orphaned>>
    BY <1>1 DEF ReloadTab, Spends
  <2>2. Verify(t, storedToken) \in Verification
    BY DEF Verify, Verification, AuthTypeOK
  <2>3. reloads' \in 0 .. MaxReloads
    BY <2>1 DEF AuthTypeOK
  <2>4. authLoading' \in [Tabs -> BOOLEAN]
    BY <2>1 DEF AuthTypeOK
  <2> QED BY <2>1, <2>2, <2>3, <2>4 DEF AuthTypeOK, Verification, Tokens
<1>2. ASSUME NEW t \in Tabs, LoginSubmitted(t) \/ LoginRefused(t) PROVE AuthTypeOK'
  BY <1>2 DEF LoginSubmitted, LoginRefused, AuthTypeOK, Verification, Tokens
<1>3. ASSUME NEW t \in Tabs, LoginAnswered(t) PROVE AuthTypeOK'
  <2>1. issued + 1 \in Tokens /\ issued' = issued + 1 /\ issued' \in 0 .. MaxLogins
        /\ storedToken' = issued + 1
    BY <1>3 DEF LoginAnswered, AuthTypeOK, Tokens
  <2>2. Verify(t, issued + 1) \in Verification
    BY <2>1 DEF Verify, Verification
  <2>3. validTokens' \subseteq 1 .. issued'
    <3>1. validTokens' = validTokens \cup {issued + 1}
      BY <1>3 DEF LoginAnswered
    <3> QED BY <2>1, <3>1 DEF AuthTypeOK
  <2> QED BY <1>3, <2>1, <2>2, <2>3 DEF LoginAnswered, AuthTypeOK, Verification, Tokens
<1>4. ASSUME NEW v \in verifying, StatusVerified(v) PROVE AuthTypeOK'
  <2>1. v \in Verification
    BY DEF AuthTypeOK
  <2>2. \A b \in BOOLEAN : [v EXCEPT !.read = TRUE, !.valid = b] \in Verification
    BY <2>1 DEF Verification
  <2>3. PICK b \in BOOLEAN : b = (v.sent \in validTokens)
    <3>1. CASE v.sent \in validTokens
      <4>1. (v.sent \in validTokens) = TRUE
        BY <3>1
      <4> QED BY <4>1, Zenon
    <3>2. CASE v.sent \notin validTokens
      <4>1. (v.sent \in validTokens) = FALSE
        BY <3>2
      <4> QED BY <4>1, Zenon
    <3> QED BY <3>1, <3>2
  <2>4. verifying' = (verifying \ {v}) \cup {[v EXCEPT !.read = TRUE, !.valid = b]}
    <3>1. verifying' = (verifying \ {v})
                         \cup {[v EXCEPT !.read = TRUE, !.valid = v.sent \in validTokens]}
      BY <1>4 DEF StatusVerified
    <3> QED BY <2>3, <3>1, Zenon
  <2>5. verifying' \subseteq Verification
    BY <2>2, <2>4 DEF AuthTypeOK
  <2> QED BY <1>4, <2>5 DEF StatusVerified, AuthTypeOK, Verification, Tokens
<1>5. ASSUME NEW v \in verifying, StatusConfirmed(v) PROVE AuthTypeOK'
  BY <1>5 DEF StatusConfirmed, AuthTypeOK, Verification, Tokens
<1>6. ASSUME NEW v \in verifying, StatusRefused(v) PROVE AuthTypeOK'
  <2>1. orphaned' \in BOOLEAN /\ reloads' \in 0 .. MaxReloads
    <3>1. orphaned' \in BOOLEAN
      <4>1. orphaned' = (orphaned \/ storedToken \notin {NoToken} \cup Refuted(v))
        BY <1>6 DEF StatusRefused
      <4> QED BY <4>1, Zenon DEF AuthTypeOK
    <3>2. reloads' = reloads \/ Spends
      BY <1>6 DEF StatusRefused
    <3>3. reloads' \in 0 .. MaxReloads
      BY <3>2, AuthAssumption DEF Spends, AuthTypeOK
    <3> QED BY <3>1, <3>3
  <2> QED BY <1>6, <2>1 DEF StatusRefused, Forgets, AuthTypeOK, Verification, Tokens
<1>7. ASSUME NEW k \in Tokens, TokenExpires(k) PROVE AuthTypeOK'
  BY <1>7 DEF TokenExpires, AuthTypeOK, Verification, Tokens
<1>8. CASE UNCHANGED authVars
  BY <1>8 DEF authVars, AuthTypeOK, Verification, Tokens
<1> QED BY <1>1, <1>2, <1>3, <1>4, <1>5, <1>6, <1>7, <1>8 DEF AuthNext

(* No more tokens are issued than logins are counted, and every token that *)
(* is stored, held, sent or valid is one of them.                          *)
THEOREM AuthTypes == AuthSpec => []AuthTypeOK
BY InitAuthTypes, NextAuthTypes, PTL DEF AuthSpec

-----------------------------------------------------------------------------
(* The time picker.  A first digit is shown as it was typed, except that   *)
(* the 12-hour field shows 01 for a 0, and prevZero tells the two apart.   *)
TimeShapes ==
    /\ picker \in Pickers
    /\ date \in 0 .. Highest
    /\ flag \in BOOLEAN /\ prevZero \in BOOLEAN
    /\ half \in {"AM", "PM"}

FirstTyped(a) ==
    typed = <<a>> /\ flag /\ (picker = "12hours" => (prevZero <=> a = 0))

PairTyped ==
    \/ typed = <<>> /\ ~flag
    \/ \E a \in Digits : FirstTyped(a)
    \/ \E a, b \in Digits : typed = <<a, b>> /\ ~flag

TimeIInv == TimeShapes /\ PairTyped /\ TypedIsShown

(* A second digit makes a pair.                                            *)
LEMMA AppendPair ==
  ASSUME NEW S, NEW a \in S, NEW b \in S PROVE Append(<<a>>, b) = <<a, b>>
<1>1. Append(<<a>>, b) \in Seq(S) /\ <<a, b>> \in Seq(S)
  OBVIOUS
<1>2. Len(Append(<<a>>, b)) = 2 /\ Len(<<a, b>>) = 2
  OBVIOUS
<1>3. Append(<<a>>, b)[1] = a /\ Append(<<a>>, b)[2] = b
  OBVIOUS
<1>4. \A i \in 1 .. 2 : Append(<<a>>, b)[i] = <<a, b>>[i]
  BY <1>3
<1> QED BY <1>1, <1>2, <1>4, SeqEqual

(* The 12-hour clock and back, by its 24 cases.                            *)
LEMMA Clock ==
  ASSUME NEW h \in 1 .. 12, NEW p \in {"AM", "PM"}
  PROVE  /\ To24(h, p) \in 0 .. 23
         /\ Display12(To24(h, p)) = h
         /\ To24(h, p) >= 12 <=> p = "PM"
<1>1. CASE p = "PM" /\ h <= 11
  <2>1. To24(h, p) = h + 12 /\ h + 12 \in 13 .. 23
    BY <1>1 DEF To24
  <2>2. (h + 12) % 12 = h
    BY <1>1
  <2> QED BY <1>1, <2>1, <2>2 DEF Display12
<1>2. CASE p = "PM" /\ h = 12
  <2>1. To24(h, p) = 12
    BY <1>2 DEF To24
  <2> QED BY <1>2, <2>1 DEF Display12
<1>3. CASE p = "AM" /\ h <= 11
  <2>1. To24(h, p) = h
    BY <1>3 DEF To24
  <2>2. h % 12 = h
    BY <1>3
  <2> QED BY <1>3, <2>1, <2>2 DEF Display12
<1>4. CASE p = "AM" /\ h = 12
  <2>1. To24(h, p) = 0
    BY <1>4 DEF To24
  <2> QED BY <1>4, <2>1 DEF Display12
<1> QED BY <1>1, <1>2, <1>3, <1>4

LEMMA FieldRange == ASSUME TimeShapes PROVE Field \in Lowest .. Largest /\ Field \in Nat
<1>1. CASE picker = "12hours"
  <2>1. date \in 0 .. 23
    BY <1>1 DEF TimeShapes, Highest
  <2>2. Display12(date) \in 1 .. 12
    <3>1. CASE date \in {0, 12}
      BY <3>1 DEF Display12
    <3>2. CASE date \in 1 .. 11
      BY <3>2 DEF Display12
    <3>3. CASE date \in 13 .. 23
      BY <3>3 DEF Display12
    <3> QED BY <2>1, <3>1, <3>2, <3>3
  <2> QED BY <1>1, <2>2 DEF Field, Lowest, Largest
<1>2. CASE picker # "12hours"
  BY <1>2 DEF TimeShapes, Highest, Field, Lowest, Largest
<1> QED BY <1>1, <1>2

LEMMA ClampedRange ==
  ASSUME TimeShapes, NEW n \in Int
  PROVE  /\ Clamped(n) \in Lowest .. Largest
         /\ Lowest \in Nat /\ Largest \in Nat /\ Lowest <= Largest
<1>1. Lowest \in Nat /\ Largest \in Nat /\ Lowest <= Largest
  BY DEF Lowest, Largest, Highest
<1> QED BY <1>1 DEF Clamped

(* Setting a field makes it show the number, within its range, and leaves  *)
(* the period alone.                                                       *)
LEMMA SetShows ==
  ASSUME TimeShapes, NEW n \in Int, SetField(n, Period), picker' = picker
  PROVE  /\ date' \in 0 .. Highest
         /\ Field' = Clamped(n)
         /\ picker = "12hours" => Period' = Period
<1>1. CASE picker = "12hours"
  <2>1. Clamped(n) \in 1 .. 12
    BY <1>1, ClampedRange DEF Lowest, Largest
  <2>2. Period \in {"AM", "PM"} /\ date' = To24(Clamped(n), Period)
    BY <1>1 DEF SetField, Period
  <2>3. /\ date' \in 0 .. 23 /\ Display12(date') = Clamped(n)
        /\ (date' >= 12 <=> Period = "PM")
    BY <2>1, <2>2, Clock
  <2> QED BY <1>1, <2>2, <2>3 DEF Field, Period, Highest
<1>2. CASE picker # "12hours"
  <2>1. date' = Clamped(n) /\ Field' = date'
    BY <1>2 DEF SetField, Field
  <2> QED BY <1>2, <2>1, ClampedRange DEF Lowest, Largest
<1> QED BY <1>1, <1>2

(* A digit.                                                                *)
LEMMA DigitShown == ASSUME TimeIInv, NEW d \in Digits, Digit(d) PROVE TimeIInv'
<1> USE DEF TimeIInv
<1>1. /\ SetField(NewValue(d), Period) /\ flag' = ~flag
      /\ typed' = IF Len(typed) = 2 THEN <<d>> ELSE Append(typed, d)
      /\ picker' = picker /\ half' = half
      /\ prevZero' = IF picker = "12hours" THEN d = 0 ELSE prevZero
  BY DEF Digit
<1>2. d \in 0 .. 9 /\ Field \in Nat /\ Field % 10 \in 0 .. 9
  BY FieldRange DEF Digits
<1>3. NewValue(d) \in Int
  BY <1>2 DEF NewValue
<1>4. /\ date' \in 0 .. Highest
      /\ Field' = Clamped(NewValue(d))
      /\ picker = "12hours" => Period' = Period
  BY <1>1, <1>3, SetShows
<1>5. \A n : Clamped(n)' = Clamped(n)
  BY <1>1 DEF Clamped, Lowest, Largest, Highest
<1>6. TimeShapes'
  <2>1. prevZero' \in BOOLEAN /\ flag' \in BOOLEAN
    BY <1>1 DEF TimeShapes
  <2> QED BY <1>1, <1>4, <2>1 DEF TimeShapes, Highest
<1>7. PeriodIsKept'
  BY <1>1, <1>4 DEF TypedIsShown, PeriodIsKept
<1>8. CASE ~flag
  <2>1. typed' = <<d>>
    <3>1. CASE typed = <<>>
      BY <1>1, <3>1
    <3>2. ASSUME NEW a \in Digits, NEW b \in Digits, typed = <<a, b>> PROVE typed' = <<d>>
      BY <1>1, <3>2
    <3> QED BY <1>8, <3>1, <3>2 DEF PairTyped, FirstTyped
  <2>2. NewValue(d) = d
    BY <1>8 DEF NewValue
  <2>3. PairTyped'
    <3>1. flag' /\ (picker' = "12hours" => (prevZero' <=> d = 0))
      BY <1>1, <1>8 DEF TimeShapes
    <3> QED BY <2>1, <3>1 DEF PairTyped, FirstTyped
  <2>4. Field' = Clamped(d)'
    BY <1>4, <1>5, <2>2
  <2>5. DigitsAreShown'
    BY <2>1, <2>4 DEF DigitsAreShown
  <2> QED BY <1>6, <1>7, <2>3, <2>5 DEF TypedIsShown
<1>9. CASE flag
  <2>1. PICK a \in Digits : FirstTyped(a)
    BY <1>9 DEF PairTyped
  <2>2. typed' = <<a, d>>
    <3>1. typed' = Append(<<a>>, d)
      BY <1>1, <2>1 DEF FirstTyped
    <3> QED BY <3>1, AppendPair
  <2>3. Field = Clamped(a)
    BY <2>1 DEF TypedIsShown, DigitsAreShown, FirstTyped
  <2>4. a \in 0 .. 9
    BY DEF Digits
  <2>5. NewValue(d) = 10 * a + d
    <3>1. CASE picker = "12hours" /\ a = 0
      <4>1. Field = 1 /\ prevZero
        BY <2>1, <2>3, <3>1 DEF Clamped, Lowest, Largest, FirstTyped
      <4>2. Field % 10 = 1
        BY <4>1
      <4> QED BY <1>2, <1>9, <3>1, <4>1, <4>2 DEF NewValue
    <3>2. CASE ~(picker = "12hours" /\ a = 0)
      <4>1. Field = a
        BY <2>3, <2>4, <3>2 DEF Clamped, Lowest, Largest, Highest, TimeShapes
      <4>2. Field % 10 = a
        BY <2>4, <4>1
      <4>3. picker = "12hours" => ~prevZero
        BY <2>1, <3>2 DEF FirstTyped
      <4> QED BY <1>2, <1>9, <2>4, <4>2, <4>3 DEF NewValue
    <3> QED BY <3>1, <3>2
  <2>6. Field' = Clamped(10 * a + d)'
    BY <1>4, <1>5, <2>5
  <2>7. DigitsAreShown'
    BY <2>2, <2>6 DEF DigitsAreShown
  <2>8. PairTyped'
    BY <1>1, <1>9, <2>2 DEF PairTyped
  <2> QED BY <1>6, <1>7, <2>7, <2>8 DEF TypedIsShown
<1> QED BY <1>8, <1>9

(* The arrow keys, the period selector, and the end of a pair.             *)
LEMMA OthersShown ==
  ASSUME TimeIInv,
         \/ \E s \in {-1, 1} : Arrow(s)
         \/ PairTimeout
         \/ \E p \in {"AM", "PM"} : ChoosePeriod(p)
  PROVE  TimeIInv'
<1> USE DEF TimeIInv
<1>1. ASSUME NEW s \in {-1, 1}, Arrow(s) PROVE TimeIInv'
  <2>1. /\ SetField(Looped(Field + s), Period) /\ flag' = FALSE /\ typed' = <<>>
        /\ UNCHANGED <<picker, prevZero, half>>
    BY <1>1 DEF Arrow
  <2>2. Looped(Field + s) \in Int
    <3>1. Field + s \in Int
      BY FieldRange
    <3> QED BY <3>1, ClampedRange DEF Looped
  <2>3. date' \in 0 .. Highest /\ (picker = "12hours" => Period' = Period)
    BY <2>1, <2>2, SetShows
  <2>4. TimeShapes' /\ PairTyped'
    BY <2>1, <2>3 DEF TimeShapes, PairTyped, Highest
  <2> QED BY <2>1, <2>3, <2>4 DEF TypedIsShown, DigitsAreShown, PeriodIsKept
<1>2. CASE PairTimeout
  <2>1. TimeShapes' /\ PairTyped'
    BY <1>2 DEF PairTimeout, TimeShapes, PairTyped, Highest
  <2> QED BY <1>2, <2>1
          DEF PairTimeout, TypedIsShown, DigitsAreShown, PeriodIsKept, Period
<1>3. ASSUME NEW p \in {"AM", "PM"}, ChoosePeriod(p) PROVE TimeIInv'
  <2>1. /\ picker = "12hours" /\ half' \in {"AM", "PM"}
        /\ date' = To24(Display12(date), half')
        /\ UNCHANGED <<picker, flag, prevZero, typed>>
    BY <1>3 DEF ChoosePeriod
  <2>2. Display12(date) \in 1 .. 12
    BY <2>1, FieldRange DEF Field, Lowest, Largest
  <2>3. /\ date' \in 0 .. 23 /\ Display12(date') = Display12(date)
        /\ (date' >= 12 <=> half' = "PM")
    BY <2>1, <2>2, Clock
  <2>4. TimeShapes' /\ PairTyped'
    BY <2>1, <2>3 DEF TimeShapes, PairTyped, FirstTyped, Highest
  <2>5. Field' = Field /\ Period' = half'
    BY <2>1, <2>3 DEF Field, Period
  <2>6. \A n : Clamped(n)' = Clamped(n)
    BY <2>1 DEF Clamped, Lowest, Largest, Highest
  <2>7. DigitsAreShown'
    BY <2>1, <2>5, <2>6 DEF TypedIsShown, DigitsAreShown
  <2> QED BY <2>4, <2>5, <2>7 DEF TypedIsShown, PeriodIsKept
<1> QED BY <1>1, <1>2, <1>3

LEMMA InitTime == TimeInit => TimeIInv
<1> SUFFICES ASSUME TimeInit PROVE TimeIInv
  OBVIOUS
<1>1. TimeShapes
  <2>1. date \in 0 .. 23 /\ picker \in Pickers /\ flag = FALSE /\ prevZero = TRUE
        /\ half \in {"AM", "PM"}
    BY TimePickerAssumption DEF TimeInit, Period
  <2>2. date \in 0 .. Highest
    BY <2>1 DEF Highest
  <2> QED BY <2>1, <2>2 DEF TimeShapes
<1>2. PairTyped
  BY DEF TimeInit, PairTyped
<1>3. TypedIsShown
  BY DEF TimeInit, TypedIsShown, DigitsAreShown, PeriodIsKept
<1> QED BY <1>1, <1>2, <1>3 DEF TimeIInv

LEMMA NextTime == ASSUME TimeIInv, [TimeNext]_timeVars PROVE TimeIInv'
<1>1. CASE UNCHANGED timeVars
  BY <1>1 DEF timeVars, TimeIInv, TimeShapes, PairTyped, FirstTyped, TypedIsShown, DigitsAreShown,
     PeriodIsKept, Period, Field, Clamped, Lowest, Largest, Highest
<1> QED BY <1>1, DigitShown, OthersShown DEF TimeNext

(* What is typed is what is shown, digit by digit, for every time the      *)
(* field may have held, and only the selector changes the period.          *)
THEOREM TypingShows == TimeSpec => []TypedIsShown
<1>1. TimeIInv => TypedIsShown
  BY DEF TimeIInv
<1> QED BY <1>1, InitTime, NextTime, PTL DEF TimeSpec

LEMMA TimeIInvTypes == TimeIInv => TimeTypeOK
<1> SUFFICES ASSUME TimeIInv PROVE TimeTypeOK
  OBVIOUS
<1>1. typed \in Seq(Digits) /\ Len(typed) <= 2
  <2>1. CASE typed = <<>>
    BY <2>1
  <2>2. ASSUME NEW a \in Digits, typed = <<a>> PROVE <1>1!1 /\ <1>1!2
    BY <2>2
  <2>3. ASSUME NEW a \in Digits, NEW b \in Digits, typed = <<a, b>> PROVE <1>1!1 /\ <1>1!2
    BY <2>3
  <2> QED BY <2>1, <2>2, <2>3 DEF TimeIInv, PairTyped, FirstTyped
<1> QED BY <1>1 DEF TimeIInv, TimeShapes, TimeTypeOK

(* The field keeps an hour or a minute, and at most two digits of a pair.  *)
THEOREM TimeTypes == TimeSpec => []TimeTypeOK
BY InitTime, NextTime, TimeIInvTypes, PTL DEF TimeSpec
-----------------------------------------------------------------------------
(* The settings pages.  At any time, an open save belongs to the page that *)
(* is shown, that page is not one the navigation has closed, and the       *)
(* dashboard view holds no copy.                                           *)
Agrees(settings) ==
    nav # Unknown /\ \A f \in Features : nav[f].enabled = settings[f].enabled

ViewIsOpen ==
    /\ \A s \in saves : s.open => s.from = page /\ page # "dashboard"
    /\ page \in Features /\ nav # Unknown => nav[page].enabled
    /\ page = "dashboard" => copy = Unknown /\ loads = {}

(* While the user waits for the answers there is at most one save, alone,  *)
(* of what was chosen for the selected machine; what is not written yet is *)
(* all that the stored settings lack.                                      *)
OneSave ==
    /\ \A s, u \in saves : s = u
    /\ saves # {} => loads = {} /\ navLoads = {}
    /\ \A s \in saves :
          /\ s.machine = selected /\ s.open /\ s.sent = chosen[selected]
          /\ \A m \in Computers : s.written \/ m # selected => storedSettings[m] = chosen[m]
          /\ s.from = "audit" => copy = s.sent /\ Agrees(s.sent)

(* Every answer is for the selected machine and what is stored for it.     *)
FreshAnswers ==
    \A l \in loads \cup navLoads :
       l.machine = selected /\ l.answer \in {Unknown, storedSettings[selected]}

(* Without a save nothing is missing, and what is not about to be loaded   *)
(* is what is stored.                                                      *)
AtRest ==
    /\ saves = {} => storedSettings = chosen
    /\ loads = {} /\ saves = {} /\ copy # Unknown => copy = storedSettings[selected]
    /\ navLoads = {} /\ saves = {} => Agrees(storedSettings[selected])

PagesIInv == PagesTypeOK /\ ViewIsOpen /\ (careful => OneSave /\ FreshAnswers /\ AtRest)

LEMMA NewLoad ==
  ASSUME NEW m \in Computers PROVE Asked(m) \in Load /\ Asked(m).machine = m /\ Asked(m).answer = Unknown
BY DEF Asked, Load

LEMMA NewLoads ==
  ASSUME NEW v \in PageViews, NEW m \in Computers
  PROVE  /\ Loads(v, m) \subseteq Load
         /\ \A l \in Loads(v, m) : l.machine = m /\ l.answer = Unknown
         /\ Loads(v, m) = {} <=> v = "dashboard"
BY NewLoad DEF Loads

LEMMA LoadAnswered ==
  ASSUME PagesTypeOK, NEW l \in Load
  PROVE  /\ Answered(l) \in Load
         /\ Answered(l).machine = l.machine
         /\ Answered(l).answer = storedSettings[l.machine]
BY DEF Answered, Load, PagesTypeOK

(* The saves of a page that closes are the same ones, of no open page.     *)
LEMMA SavesClose ==
  ASSUME NEW S \in SUBSET Save
  PROVE  /\ {[s EXCEPT !.open = FALSE] : s \in S} \subseteq Save
         /\ \A s \in {[t EXCEPT !.open = FALSE] : t \in S} : ~s.open
         /\ S = {} <=> {[s EXCEPT !.open = FALSE] : s \in S} = {}
<1>1. \A s \in S : [s EXCEPT !.open = FALSE] \in Save /\ ~([s EXCEPT !.open = FALSE]).open
  BY DEF Save
<1> QED BY <1>1

(* What closing a page does to the invariant.                              *)
LEMMA PageCloses ==
  ASSUME PagesTypeOK, NEW v \in PageViews, Closes(v)
  PROVE  /\ page' = v /\ copy' = Unknown /\ loading' \in BOOLEAN /\ savingOf' = None
         /\ loads' \subseteq Load /\ saves' \subseteq Save
         /\ \A s \in saves' : ~s.open
         /\ saves = {} => saves' = {}
         /\ \A l \in loads' : l.machine = selected /\ l.answer = Unknown
         /\ v = "dashboard" => loads' = {}
<1>1. saves \subseteq Save /\ selected \in Computers
  BY DEF PagesTypeOK
<1>2. saves' = {[s EXCEPT !.open = FALSE] : s \in saves} /\ loads' = Loads(v, selected)
      /\ page' = v /\ copy' = Unknown /\ loading' = TRUE /\ savingOf' = None
  BY DEF Closes
<1> QED BY <1>1, <1>2, SavesClose, NewLoads

LEMMA ViewsPages ==
  ASSUME PagesIInv,
         \/ \E v \in PageViews : OpenPage(v)
         \/ \E m \in Computers : SelectMachine(m)
         \/ ListRenews
  PROVE  PagesIInv'
<1> USE PagesAssumption
<1>1. ASSUME NEW v \in PageViews, OpenPage(v) PROVE PagesIInv'
  <2>1. /\ Closes(v) /\ Redirected(v, nav) = v
        /\ acts' = acts + 1 /\ acts < MaxActs /\ careful' = (careful /\ Idle)
        /\ UNCHANGED <<storedSettings, selected, nav, navLoads, chosen>>
    BY <1>1 DEF OpenPage, UserActs
  <2>2. /\ page' = v /\ copy' = Unknown /\ loading' \in BOOLEAN /\ savingOf' = None
        /\ loads' \subseteq Load /\ saves' \subseteq Save
        /\ \A s \in saves' : ~s.open
        /\ saves = {} => saves' = {}
        /\ \A l \in loads' : l.machine = selected /\ l.answer = Unknown
        /\ v = "dashboard" => loads' = {}
    BY <2>1, PageCloses DEF PagesIInv
  <2>3. PagesTypeOK'
    <3>1. careful' \in BOOLEAN
      BY <2>1 DEF PagesIInv, PagesTypeOK
    <3>2. acts' \in 0 .. MaxActs
      BY <2>1 DEF PagesIInv, PagesTypeOK
    <3> QED BY <2>1, <2>2, <3>1, <3>2 DEF PagesIInv, PagesTypeOK, Load, Save
  <2>4. v \in Features /\ nav # Unknown => nav[v].enabled
    BY <2>1 DEF Redirected
  <2>5. ViewIsOpen'
    BY <2>1, <2>2, <2>4 DEF ViewIsOpen
  <2>6. careful' => saves' = {} /\ navLoads' = {} /\ OneSave /\ AtRest
    BY <2>1, <2>2 DEF PagesIInv, Idle
  <2>7. careful' => OneSave' /\ FreshAnswers' /\ AtRest'
    <3>1. careful' => OneSave'
      BY <2>6 DEF OneSave
    <3>2. careful' => FreshAnswers'
      BY <2>1, <2>2, <2>6 DEF FreshAnswers
    <3>3. careful' => AtRest'
      BY <2>1, <2>2, <2>6 DEF AtRest, Agrees, Idle
    <3> QED BY <3>1, <3>2, <3>3
  <2> QED BY <2>3, <2>5, <2>7 DEF PagesIInv
<1>2. ASSUME NEW m \in Computers, SelectMachine(m) PROVE PagesIInv'
  <2>1. /\ selected' = m /\ loading' = TRUE
        /\ loads' = loads \cup Loads(page, m)
        /\ navLoads' = navLoads \cup {Asked(m)}
        /\ acts' = acts + 1 /\ acts < MaxActs /\ careful' = (careful /\ Idle)
        /\ UNCHANGED <<storedSettings, page, copy, savingOf, saves, nav, chosen>>
    BY <1>2 DEF SelectMachine, UserActs
  <2>2. /\ Loads(page, m) \subseteq Load
        /\ \A l \in Loads(page, m) : l.machine = m /\ l.answer = Unknown
        /\ Loads(page, m) = {} <=> page = "dashboard"
    BY NewLoads DEF PagesIInv, PagesTypeOK
  <2>3. PagesTypeOK'
    <3>1. careful' \in BOOLEAN
      BY <2>1 DEF PagesIInv, PagesTypeOK
    <3>2. acts' \in 0 .. MaxActs
      BY <2>1 DEF PagesIInv, PagesTypeOK
    <3> QED BY <2>1, <2>2, <3>1, <3>2, NewLoad DEF PagesIInv, PagesTypeOK, Load, Save
  <2>4. ViewIsOpen'
    BY <2>1, <2>2 DEF PagesIInv, ViewIsOpen
  <2>5. careful' => OneSave' /\ FreshAnswers' /\ AtRest'
    <3> SUFFICES ASSUME careful' PROVE OneSave' /\ FreshAnswers' /\ AtRest'
      OBVIOUS
    <3>1. loads = {} /\ navLoads = {} /\ saves = {} /\ careful
      BY <2>1 DEF Idle
    <3>2. \A l \in loads' \cup navLoads' : l.machine = m /\ l.answer = Unknown
      BY <2>1, <2>2, <3>1, NewLoad
    <3>3. loads' = {} => copy' = Unknown
      BY <2>1, <2>2 DEF PagesIInv, ViewIsOpen
    <3> QED BY <2>1, <3>1, <3>2, <3>3 DEF PagesIInv, OneSave, FreshAnswers, AtRest
  <2> QED BY <2>3, <2>4, <2>5 DEF PagesIInv
<1>3. CASE ListRenews
  <2>1. /\ page \in Features /\ loads' = loads \cup {Asked(selected)} /\ loading' = TRUE
        /\ careful' = (careful /\ saves = {})
        /\ UNCHANGED <<storedSettings, selected, page, copy, savingOf, saves, nav, navLoads, acts, chosen>>
    BY <1>3 DEF ListRenews
  <2>2. Asked(selected) \in Load /\ Asked(selected).machine = selected /\ Asked(selected).answer = Unknown
    BY NewLoad DEF PagesIInv, PagesTypeOK
  <2>3. PagesTypeOK'
    <3>1. careful' \in BOOLEAN
      BY <2>1 DEF PagesIInv, PagesTypeOK
    <3> QED BY <2>1, <2>2, <3>1 DEF PagesIInv, PagesTypeOK, Load, Save
  <2>4. ViewIsOpen'
    BY <2>1 DEF PagesIInv, ViewIsOpen
  <2>5. careful' => OneSave' /\ FreshAnswers' /\ AtRest'
    BY <2>1, <2>2 DEF PagesIInv, OneSave, FreshAnswers, AtRest, Agrees
  <2> QED BY <2>3, <2>4, <2>5 DEF PagesIInv
<1> QED BY <1>1, <1>2, <1>3

(* Answers to the loads of the page and of the navigation.                 *)
LEMMA LoadsPages ==
  ASSUME PagesIInv, NEW l \in loads, LoadReads(l) \/ LoadEnds(l) \/ LoadFails(l)
  PROVE  PagesIInv'
<1>1. l \in Load /\ PagesTypeOK
  BY DEF PagesIInv, PagesTypeOK
<1>2. CASE LoadReads(l)
  <2>1. /\ loads' = (loads \ {l}) \cup {Answered(l)}
        /\ UNCHANGED <<storedSettings, selected, page, copy, loading, savingOf, saves, nav, navLoads,
                       acts, chosen, careful>>
    BY <1>2 DEF LoadReads
  <2>2. /\ Answered(l) \in Load /\ Answered(l).machine = l.machine
        /\ Answered(l).answer = storedSettings[l.machine]
    BY <1>1, LoadAnswered
  <2>3. PagesTypeOK'
    BY <1>1, <2>1, <2>2 DEF PagesTypeOK, Load, Save
  <2>4. ViewIsOpen'
    BY <2>1 DEF PagesIInv, ViewIsOpen
  <2>5. careful' => OneSave' /\ FreshAnswers' /\ AtRest'
    BY <2>1, <2>2 DEF PagesIInv, OneSave, FreshAnswers, AtRest, Agrees
  <2> QED BY <2>3, <2>4, <2>5 DEF PagesIInv
<1>3. CASE LoadEnds(l)
  <2>1. /\ l.answer # Unknown /\ loads' = loads \ {l} /\ copy' = l.answer /\ loading' = FALSE
        /\ UNCHANGED <<storedSettings, selected, page, savingOf, saves, nav, navLoads, acts, chosen, careful>>
    BY <1>3 DEF LoadEnds
  <2>2. PagesTypeOK'
    BY <1>1, <2>1 DEF PagesTypeOK, Load, Save
  <2>3. ViewIsOpen'
    BY <2>1 DEF PagesIInv, ViewIsOpen
  <2>4. careful' => OneSave' /\ FreshAnswers' /\ AtRest'
    BY <2>1 DEF PagesIInv, OneSave, FreshAnswers, AtRest, Agrees
  <2> QED BY <2>2, <2>3, <2>4 DEF PagesIInv
<1>4. CASE LoadFails(l)
  <2>1. /\ loads' = loads \ {l} /\ loading' = FALSE /\ careful' = FALSE
        /\ UNCHANGED <<storedSettings, selected, page, copy, savingOf, saves, nav, navLoads, acts, chosen>>
    BY <1>4 DEF LoadFails
  <2>2. PagesTypeOK'
    BY <1>1, <2>1 DEF PagesTypeOK, Load, Save
  <2>3. ViewIsOpen'
    BY <2>1 DEF PagesIInv, ViewIsOpen
  <2> QED BY <2>1, <2>2, <2>3 DEF PagesIInv
<1> QED BY <1>2, <1>3, <1>4

LEMMA NavPages ==
  ASSUME PagesIInv, NEW l \in navLoads, NavReads(l) \/ NavEnds(l) \/ NavFails(l)
  PROVE  PagesIInv'
<1>1. l \in Load /\ PagesTypeOK
  BY DEF PagesIInv, PagesTypeOK
<1>2. CASE NavReads(l)
  <2>1. /\ navLoads' = (navLoads \ {l}) \cup {Answered(l)}
        /\ UNCHANGED <<storedSettings, selected, page, copy, loading, savingOf, loads, saves, nav,
                       acts, chosen, careful>>
    BY <1>2 DEF NavReads
  <2>2. /\ Answered(l) \in Load /\ Answered(l).machine = l.machine
        /\ Answered(l).answer = storedSettings[l.machine]
    BY <1>1, LoadAnswered
  <2>3. PagesTypeOK'
    BY <1>1, <2>1, <2>2 DEF PagesTypeOK, Load, Save
  <2>4. ViewIsOpen'
    BY <2>1 DEF PagesIInv, ViewIsOpen
  <2>5. careful' => OneSave' /\ FreshAnswers' /\ AtRest'
    BY <2>1, <2>2 DEF PagesIInv, OneSave, FreshAnswers, AtRest, Agrees
  <2> QED BY <2>3, <2>4, <2>5 DEF PagesIInv
<1>3. CASE NavEnds(l)
  <2>1. /\ l.answer # Unknown /\ navLoads' = navLoads \ {l} /\ nav' = l.answer
        /\ UNCHANGED <<storedSettings, selected, acts, chosen, careful>>
    BY <1>3 DEF NavEnds
  <2>2. l.answer \in AllSettings /\ page \in PageViews
    BY <1>1, <2>1 DEF Load, PagesTypeOK
  <2>3. careful => /\ saves = {} /\ l.answer = storedSettings[selected]
                   /\ OneSave /\ FreshAnswers /\ AtRest
    BY <2>1 DEF PagesIInv, OneSave, FreshAnswers
  <2>4. CASE Redirected(page, l.answer) = page
    <3>1. UNCHANGED <<page, copy, loading, savingOf, loads, saves>>
      BY <1>3, <2>4 DEF NavEnds
    <3>2. PagesTypeOK'
      BY <1>1, <2>1, <2>2, <3>1 DEF PagesTypeOK, Load, Save
    <3>3. page \in Features => l.answer[page].enabled
      <4>1. page # "dashboard" \/ page \notin Features
        BY PagesAssumption
      <4> QED BY <2>1, <2>4, <4>1 DEF Redirected
    <3>4. ViewIsOpen'
      BY <2>1, <3>1, <3>3 DEF PagesIInv, ViewIsOpen
    <3>5. careful' => OneSave' /\ FreshAnswers' /\ AtRest'
      BY <2>1, <2>3, <3>1 DEF OneSave, FreshAnswers, AtRest, Agrees
    <3> QED BY <3>2, <3>4, <3>5 DEF PagesIInv
  <2>5. CASE Redirected(page, l.answer) # page
    <3>1. Closes("dashboard")
      BY <1>3, <2>5 DEF NavEnds, Redirected
    <3>2. /\ page' = "dashboard" /\ copy' = Unknown /\ loading' \in BOOLEAN /\ savingOf' = None
          /\ saves' \subseteq Save /\ loads' = {}
          /\ \A s \in saves' : ~s.open
          /\ saves = {} => saves' = {}
      <4>1. "dashboard" \in PageViews
        BY DEF PageViews
      <4> QED BY <1>1, <3>1, <4>1, PageCloses
    <3>3. PagesTypeOK'
      BY <1>1, <2>1, <2>2, <3>2 DEF PagesTypeOK, Load, Save, PageViews
    <3>4. ViewIsOpen'
      BY <3>2, PagesAssumption DEF ViewIsOpen
    <3>5. careful' => OneSave' /\ FreshAnswers' /\ AtRest'
      BY <2>1, <2>3, <3>2 DEF OneSave, FreshAnswers, AtRest, Agrees
    <3> QED BY <3>3, <3>4, <3>5 DEF PagesIInv
  <2> QED BY <2>4, <2>5
<1>4. CASE NavFails(l)
  <2>1. /\ navLoads' = navLoads \ {l} /\ careful' = FALSE
        /\ UNCHANGED <<storedSettings, selected, page, copy, loading, savingOf, loads, saves, nav, acts,
                       chosen>>
    BY <1>4 DEF NavFails
  <2>2. PagesTypeOK'
    BY <1>1, <2>1 DEF PagesTypeOK, Load, Save
  <2>3. ViewIsOpen'
    BY <2>1 DEF PagesIInv, ViewIsOpen
  <2> QED BY <2>1, <2>2, <2>3 DEF PagesIInv
<1> QED BY <1>2, <1>3, <1>4

(* The user changes a feature: with no request under way, the copy is what *)
(* is stored, and the one save is what was chosen.                         *)
LEMMA EditPages ==
  ASSUME PagesIInv, NEW f \in Features, NEW v \in Value, Edit(f, v)
  PROVE  PagesIInv'
<1> DEFINE new == [copy EXCEPT ![f] = v]
           save == [machine |-> selected, sent |-> new, feature |-> f,
                    written |-> FALSE, from |-> page, open |-> TRUE]
<1>1. /\ copy # Unknown /\ ChangesOf(f, v)
      /\ acts' = acts + 1 /\ acts < MaxActs /\ careful' = (careful /\ Idle)
      /\ saves' = saves \cup {save}
      /\ copy' = IF Optimistic THEN new ELSE copy
      /\ savingOf' = IF Optimistic THEN None ELSE f
      /\ chosen' = [chosen EXCEPT ![selected][f] = v]
      /\ UNCHANGED <<storedSettings, selected, page, loading, loads, nav, navLoads>>
  BY DEF Edit, UserActs
<1>2. /\ copy \in AllSettings /\ page \in PageViews /\ selected \in Computers
      /\ chosen \in [Computers -> AllSettings]
  BY <1>1 DEF PagesIInv, PagesTypeOK
<1>3. /\ new \in AllSettings /\ new[f] = v
      /\ \A g \in Features \ {f} : new[g] = copy[g]
  BY <1>2 DEF AllSettings
<1>4. save \in Save /\ save.machine = selected /\ save.sent = new /\ save.from = page
      /\ save.open /\ ~save.written
  BY <1>2, <1>3 DEF Save
<1>5. /\ chosen' \in [Computers -> AllSettings]
      /\ chosen'[selected] = [chosen[selected] EXCEPT ![f] = v]
      /\ \A m \in Computers : m # selected => chosen'[m] = chosen[m]
  <2>1. [chosen[selected] EXCEPT ![f] = v] \in AllSettings
    BY <1>2 DEF AllSettings
  <2>2. chosen' = [chosen EXCEPT ![selected] = [chosen[selected] EXCEPT ![f] = v]]
    BY <1>1
  <2> QED BY <1>2, <2>1, <2>2
<1>6. page = "audit" => f = "audit" /\ v.enabled = copy[f].enabled
  <2> SUFFICES ASSUME page = "audit" PROVE f = "audit" /\ v.enabled = copy[f].enabled
    OBVIOUS
  <2>1. f = "audit" /\ v.enabled /\ copy[f].enabled
    BY <1>1 DEF ChangesOf
  <2>2. v.enabled \in BOOLEAN /\ copy[f].enabled \in BOOLEAN
    BY <1>2 DEF AllSettings, Value
  <2> QED BY <2>1, <2>2
<1> HIDE DEF new, save
<1>7. PagesTypeOK'
  <2>1. careful' \in BOOLEAN
    BY <1>1 DEF PagesIInv, PagesTypeOK
  <2>2. acts' \in 0 .. MaxActs
    BY <1>1, PagesAssumption DEF PagesIInv, PagesTypeOK
  <2> QED BY <1>1, <1>2, <1>3, <1>4, <1>5, <2>1, <2>2 DEF PagesIInv, PagesTypeOK, Load, Save
<1>8. ViewIsOpen'
  BY <1>1, <1>4, PagesAssumption DEF PagesIInv, ViewIsOpen
<1>9. ASSUME careful' PROVE OneSave' /\ FreshAnswers' /\ AtRest'
  <2>1. careful /\ loads = {} /\ navLoads = {} /\ saves = {}
    BY <1>1, <1>9 DEF Idle
  <2>2. /\ storedSettings = chosen /\ copy = storedSettings[selected]
        /\ Agrees(storedSettings[selected])
    BY <1>1, <2>1 DEF PagesIInv, AtRest
  <2>3. saves' = {save} /\ save.sent = chosen'[selected]
    BY <1>1, <1>4, <1>5, <2>1, <2>2 DEF new
  <2>4. ASSUME page = "audit"
        PROVE  /\ copy' = new /\ nav' # Unknown
               /\ \A g \in Features : nav'[g].enabled = new[g].enabled
    <3>1. copy' = new
      BY <1>1, <2>4 DEF Optimistic
    <3>2. \A g \in Features : new[g].enabled = copy[g].enabled
      BY <1>3, <1>6, <2>4
    <3> QED BY <1>1, <2>2, <3>1, <3>2 DEF Agrees
  <2>5. OneSave'
    <3>1. \A m \in Computers : m # selected => storedSettings'[m] = chosen'[m]
      BY <1>1, <1>5, <2>2
    <3> QED BY <1>1, <1>4, <2>1, <2>3, <2>4, <3>1 DEF OneSave, Agrees
  <2> QED BY <1>1, <2>1, <2>3, <2>5 DEF FreshAnswers, AtRest
<1> QED BY <1>7, <1>8, <1>9 DEF PagesIInv

LEMMA SavesPages ==
  ASSUME PagesIInv, NEW s \in saves, SaveWrites(s) \/ SaveEnds(s) \/ SaveFails(s)
  PROVE  PagesIInv'
<1>1. s \in Save /\ PagesTypeOK
  BY DEF PagesIInv, PagesTypeOK
<1>2. CASE SaveWrites(s)
  <2> DEFINE new == [s EXCEPT !.written = TRUE]
  <2>1. /\ storedSettings' = [storedSettings EXCEPT ![s.machine] = s.sent]
        /\ saves' = (saves \ {s}) \cup {new}
        /\ UNCHANGED <<selected, page, copy, loading, savingOf, loads, nav, navLoads, acts, chosen, careful>>
    BY <1>2 DEF SaveWrites
  <2>2. /\ new \in Save /\ new.machine = s.machine /\ new.sent = s.sent /\ new.from = s.from
        /\ new.open = s.open /\ new.written
    BY <1>1 DEF Save
  <2> HIDE DEF new
  <2>3. s.machine \in Computers /\ s.sent \in AllSettings
        /\ storedSettings' \in [Computers -> AllSettings]
        /\ storedSettings'[s.machine] = s.sent
        /\ \A m \in Computers : m # s.machine => storedSettings'[m] = storedSettings[m]
    BY <1>1, <2>1 DEF Save, PagesTypeOK
  <2>4. PagesTypeOK'
    BY <1>1, <2>1, <2>2, <2>3 DEF PagesTypeOK, Load, Save
  <2>5. ViewIsOpen'
    BY <2>1, <2>2 DEF PagesIInv, ViewIsOpen
  <2>6. careful' => OneSave' /\ FreshAnswers' /\ AtRest'
    <3> SUFFICES ASSUME careful PROVE OneSave' /\ FreshAnswers' /\ AtRest'
      BY <2>1
    <3>1. saves = {s} /\ saves' = {new} /\ loads = {} /\ navLoads = {} /\ s.machine = selected
      BY <2>1 DEF PagesIInv, OneSave
    <3>2. OneSave'
      BY <2>1, <2>2, <2>3, <3>1 DEF PagesIInv, OneSave, Agrees
    <3> QED BY <2>1, <3>1, <3>2 DEF FreshAnswers, AtRest
  <2> QED BY <2>4, <2>5, <2>6 DEF PagesIInv
<1>3. CASE SaveEnds(s)
  <2>1. /\ s.written /\ saves' = saves \ {s} /\ copy' = TakesAnswer(s)
        /\ savingOf' = IF s.open THEN None ELSE savingOf
        /\ navLoads' = IF Announces(s) THEN navLoads \cup {Asked(selected)} ELSE navLoads
        /\ UNCHANGED <<storedSettings, selected, page, loading, loads, nav, acts, chosen, careful>>
    BY <1>3 DEF SaveEnds, Enables
  <2>2. /\ Asked(selected) \in Load /\ Asked(selected).machine = selected
        /\ Asked(selected).answer = Unknown
    BY <1>1, NewLoad DEF PagesTypeOK
  <2>3. PagesTypeOK'
    <3>1. copy' \in AllSettings \cup {Unknown}
      BY <1>1, <2>1 DEF TakesAnswer, PagesTypeOK, Save
    <3>2. savingOf' \in Features \cup {None}
      BY <1>1, <2>1 DEF PagesTypeOK
    <3>3. navLoads' \subseteq Load
      BY <1>1, <2>1, <2>2 DEF PagesTypeOK
    <3> QED BY <1>1, <2>1, <3>1, <3>2, <3>3 DEF PagesTypeOK, Load, Save
  <2>4. ViewIsOpen'
    <3>1. page = "dashboard" => copy' = Unknown
      BY <2>1 DEF TakesAnswer, PagesIInv, ViewIsOpen
    <3> QED BY <2>1, <3>1 DEF PagesIInv, ViewIsOpen
  <2>5. careful' => OneSave' /\ FreshAnswers' /\ AtRest'
    <3> SUFFICES ASSUME careful PROVE OneSave' /\ FreshAnswers' /\ AtRest'
      BY <2>1
    <3>1. /\ saves = {s} /\ saves' = {} /\ loads = {} /\ navLoads = {} /\ s.machine = selected
          /\ s.open /\ s.sent = chosen[selected]
          /\ \A m \in Computers : storedSettings[m] = chosen[m]
          /\ s.from = "audit" => copy = s.sent /\ Agrees(s.sent)
      BY <2>1 DEF PagesIInv, OneSave
    <3>2. storedSettings = chosen
      BY <1>1, <3>1 DEF PagesTypeOK
    <3>3. copy' = s.sent
      BY <2>1, <3>1 DEF TakesAnswer
    <3>4. CASE s.from = "audit"
      BY <2>1, <3>1, <3>2, <3>3, <3>4 DEF OneSave, FreshAnswers, AtRest, Agrees, Announces
    <3>5. CASE s.from # "audit"
      <4>1. navLoads' = {Asked(selected)}
        BY <2>1, <3>1, <3>5 DEF Announces
      <4> QED BY <2>1, <2>2, <3>1, <3>2, <3>3, <4>1 DEF OneSave, FreshAnswers, AtRest
    <3> QED BY <3>4, <3>5
  <2> QED BY <2>3, <2>4, <2>5 DEF PagesIInv
<1>4. CASE SaveFails(s)
  <2>1. /\ saves' = saves \ {s} /\ careful' = FALSE
        /\ loads' = IF s.from = "audit" /\ s.open THEN loads \cup {Asked(s.machine)} ELSE loads
        /\ savingOf' = IF s.open THEN None ELSE savingOf
        /\ UNCHANGED <<storedSettings, selected, page, copy, loading, nav, navLoads, acts, chosen>>
    BY <1>4 DEF SaveFails, Enables
  <2>2. Asked(s.machine) \in Load
    BY <1>1, NewLoad DEF Save
  <2>3. PagesTypeOK'
    <3>1. savingOf' \in Features \cup {None}
      BY <1>1, <2>1 DEF PagesTypeOK
    <3>2. loads' \subseteq Load
      BY <1>1, <2>1, <2>2 DEF PagesTypeOK
    <3> QED BY <1>1, <2>1, <3>1, <3>2 DEF PagesTypeOK, Load, Save
  <2>4. ViewIsOpen'
    BY <2>1 DEF PagesIInv, ViewIsOpen
  <2> QED BY <2>1, <2>3, <2>4 DEF PagesIInv
<1> QED BY <1>2, <1>3, <1>4

LEMMA NextPages == ASSUME PagesIInv, [PagesNext]_pagesVars PROVE PagesIInv'
<1>1. CASE UNCHANGED pagesVars
  BY <1>1 DEF pagesVars, PagesIInv, PagesTypeOK, ViewIsOpen, OneSave, FreshAnswers, AtRest, Agrees,
     Load, Save
<1> QED BY <1>1, ViewsPages, LoadsPages, NavPages, EditPages, SavesPages DEF PagesNext

LEMMA InitPages == ASSUME PagesInit PROVE PagesIInv
<1>1. Asked(selected) \in Load /\ Asked(selected).machine = selected /\ Asked(selected).answer = Unknown
  BY NewLoad DEF PagesInit
<1>2. storedSettings \in [Computers -> AllSettings]
  <2>1. \A b \in BOOLEAN : [f \in Features |-> [enabled |-> b, config |-> 0]] \in AllSettings
    BY DEF AllSettings, Value
  <2>2. {Off, [f \in Features |-> [enabled |-> TRUE, config |-> 0]]} \subseteq AllSettings
    BY <2>1 DEF Off
  <2> QED BY <2>2 DEF PagesInit
<1>3. PagesTypeOK
  BY <1>1, <1>2, PagesAssumption DEF PagesInit, PagesTypeOK, PageViews
<1>4. ViewIsOpen
  BY PagesAssumption DEF PagesInit, ViewIsOpen
<1>5. OneSave /\ FreshAnswers /\ AtRest
  BY <1>1 DEF PagesInit, OneSave, FreshAnswers, AtRest
<1> QED BY <1>3, <1>4, <1>5 DEF PagesIInv

LEMMA PagesIInvSticks == PagesIInv => CarefulEditsStick
<1> SUFFICES ASSUME PagesIInv, careful, Idle PROVE EditsStick /\ NavigationFollows
  BY DEF CarefulEditsStick
<1>1. /\ storedSettings = chosen /\ (copy # Unknown => copy = storedSettings[selected])
      /\ Agrees(storedSettings[selected])
  BY DEF PagesIInv, AtRest, Idle
<1>2. page \in Features => storedSettings[selected][page].enabled
  BY <1>1 DEF PagesIInv, ViewIsOpen, Agrees
<1> QED BY <1>1, <1>2 DEF EditsStick, NavigationFollows, Redirected, Agrees

(* A user who waits for every answer gets what was chosen, for any number  *)
(* of machines, features, edits and requests: every feature is stored as   *)
(* it was last set, the page shows it and the tabs follow.                 *)
THEOREM CarefulUsersGetWhatTheyChose == PagesSpec => []CarefulEditsStick
BY InitPages, NextPages, PagesIInvSticks, PTL DEF PagesSpec

(* The requests, copies and answers stay within their types.               *)
THEOREM PagesTypes == PagesSpec => []PagesTypeOK
<1>1. PagesIInv => PagesTypeOK
  BY DEF PagesIInv
<1> QED BY <1>1, InitPages, NextPages, PTL DEF PagesSpec

-----------------------------------------------------------------------------
(* The schedule editor.  What can be stored comes back to the editor: the  *)
(* fields that no one has edited are those of the settings they were       *)
(* copied from, and the mode is theirs if they have one.                   *)
EditorIInv ==
    /\ EditorTypeOK
    /\ given \in Storable /\ saving \in Storable \cup {Unset}
    /\ edits = 0 => /\ simple = First(given.schedule)
                    /\ custom = FieldsOf(given.schedule)
                    /\ given.mode # Unset => mode = given.mode

LEMMA LeastDay ==
  ASSUME NEW S \in SUBSET Nat, S # {}
  PROVE  \E n \in S : \A m \in S : n <= m
<1> DEFINE R == OpToRel(<, Nat)
<1>1. IsWellFoundedOn(R, Nat)
  BY NatLessThanWellFounded
<1>2. \A x, y \in Nat : x < y => <<x, y>> \in R
  BY Zenon DEF OpToRel
<1> HIDE DEF R
<1>3. PICK n \in S : \A m \in S : <<m, n>> \notin R
  BY <1>1, WFMin
<1>4. \A m \in S : ~(m < n)
  BY <1>2, <1>3
<1>5. \A m \in S : n <= m
  BY <1>4
<1> QED BY <1>5

(* schedule[0] is the window of a day that has one, or the standard one.   *)
LEMMA FirstWindow ==
  ASSUME NEW w \in Schedule
  PROVE  /\ First(w) \in Windows
         /\ Open(w) # {} => \E d \in Open(w) : First(w) = w[d]
<1>1. CASE Open(w) = {}
  BY <1>1, EditorAssumption DEF First
<1>2. CASE Open(w) # {}
  <2> DEFINE first == CHOOSE d \in Open(w) : \A e \in Open(w) : d <= e
  <2>1. Open(w) \in SUBSET Nat
    BY EditorAssumption DEF Open, Days
  <2>2. \E d \in Open(w) : \A e \in Open(w) : d <= e
    BY <1>2, <2>1, LeastDay
  <2>3. first \in Open(w)
    BY <2>2
  <2>4. First(w) = w[first]
    BY <1>2 DEF First
  <2> HIDE DEF first
  <2>5. w[first] \in Windows
    BY <2>3 DEF Open, Schedule
  <2> QED BY <2>3, <2>4, <2>5
<1> QED BY <1>1, <1>2

LEMMA FieldsShape == ASSUME NEW w \in Schedule PROVE FieldsOf(w) \in Fields
BY EditorAssumption DEF FieldsOf, Fields, Schedule

(* What the fields amount to can be stored.                                *)
LEMMA BuiltStorable == ASSUME EditorTypeOK PROVE Built \in Storable
<1> DEFINE w == [d \in Days |->
              IF mode = "simple" THEN simple
              ELSE IF custom[d].enabled THEN custom[d].window ELSE Closed]
<1>1. w \in Schedule
  BY DEF EditorTypeOK, Schedule, Fields
<1>2. Built = [enabled |-> TRUE, mode |-> mode, schedule |-> w]
  BY DEF Built
<1>3. mode = "simple" => \A d \in Days : w[d] = simple
  OBVIOUS
<1>4. 1 \in Days
  BY EditorAssumption DEF Days
<1>5. simple # Closed /\ mode \in Modes
  BY EditorAssumption DEF EditorTypeOK
<1> HIDE DEF w
<1>6. Built \in Settings
  BY <1>1, <1>2, <1>5 DEF Settings
<1> QED BY <1>2, <1>3, <1>4, <1>5, <1>6 DEF Storable, Modes

(* Copying settings into the fields.                                       *)
LEMMA SyncEditor ==
  ASSUME EditorIInv, NEW s \in Storable, NEW m \in {NextMode(s), ModeOf(s)}, Sync(s, m),
         saving' \in {saving, Unset}
  PROVE  EditorIInv'
<1>1. s \in Settings /\ s.schedule \in Schedule /\ s.mode \in Modes \cup {Unset}
  BY DEF Storable, Settings
<1>2. m \in Modes /\ (s.mode # Unset => m = s.mode)
  <2>1. NextMode(s) \in Modes /\ (s.mode # Unset => NextMode(s) = s.mode)
    BY <1>1 DEF NextMode, EditorIInv, EditorTypeOK
  <2>2. ModeOf(s) \in Modes /\ (s.mode # Unset => ModeOf(s) = s.mode)
    BY <1>1 DEF ModeOf, Modes
  <2> QED BY <2>1, <2>2
<1>3. /\ given' = s /\ mode' = m /\ edits' = 0
      /\ simple' = First(s.schedule) /\ custom' = FieldsOf(s.schedule)
  BY DEF Sync
<1>4. EditorTypeOK'
  <2>1. 0 \in 0 .. MaxEdits
    BY EditorAssumption
  <2>2. saving' \in Settings \cup {Unset}
    BY DEF EditorIInv, EditorTypeOK
  <2> QED BY <1>1, <1>2, <1>3, <2>1, <2>2, FirstWindow, FieldsShape
          DEF EditorTypeOK, Settings, Schedule, Fields
<1> QED BY <1>2, <1>3, <1>4 DEF EditorIInv, Storable, Settings, Schedule

(* An edit.                                                                *)
LEMMA EditsEditor ==
  ASSUME EditorIInv,
         \/ \E w \in Windows : EditSimple(w) \/ \E d \in Days : EditDay(d, w)
         \/ \E d \in Days : ToggleDay(d)
         \/ \E m \in Modes : ChangeMode(m)
  PROVE  EditorIInv'
<1>1. /\ Edited /\ UNCHANGED <<given, saving>>
      /\ simple' \in Windows /\ mode' \in Modes /\ custom' \in Fields
  <2>1. simple \in Windows /\ mode \in Modes /\ custom \in Fields
    BY DEF EditorIInv, EditorTypeOK
  <2>2. ASSUME NEW w \in Windows, EditSimple(w) PROVE <1>1
    BY <2>1, <2>2 DEF EditSimple
  <2>3. ASSUME NEW w \in Windows, NEW d \in Days, EditDay(d, w) PROVE <1>1
    <3>1. [custom EXCEPT ![d].window = w] \in Fields
      BY <2>1 DEF Fields
    <3> QED BY <2>1, <2>3, <3>1 DEF EditDay
  <2>4. ASSUME NEW d \in Days, ToggleDay(d) PROVE <1>1
    <3>1. \A b \in BOOLEAN : [custom EXCEPT ![d].enabled = b] \in Fields
      BY <2>1 DEF Fields
    <3>2. custom' = [custom EXCEPT ![d].enabled = ~custom[d].enabled]
      BY <2>4 DEF ToggleDay
    <3>3. (~custom[d].enabled) \in BOOLEAN
      BY <2>1 DEF Fields
    <3>4. PICK b \in BOOLEAN : b = ~custom[d].enabled
      BY <3>3
    <3>5. custom' = [custom EXCEPT ![d].enabled = b]
      BY <3>2, <3>4, Zenon
    <3> QED BY <2>1, <2>4, <3>1, <3>5 DEF ToggleDay
  <2>5. ASSUME NEW m \in Modes, ChangeMode(m) PROVE <1>1
    <3>1. [d \in Days |-> [window |-> simple, enabled |-> TRUE]] \in Fields
      BY <2>1 DEF Fields
    <3> QED BY <2>1, <2>5, <3>1 DEF ChangeMode
  <2> QED BY <2>2, <2>3, <2>4, <2>5
<1>2. edits' \in 0 .. MaxEdits /\ edits' # 0
  BY <1>1, EditorAssumption DEF Edited, EditorIInv, EditorTypeOK
<1>3. EditorTypeOK'
  BY <1>1, <1>2 DEF EditorIInv, EditorTypeOK, Settings, Schedule, Fields
<1> QED BY <1>1, <1>2, <1>3 DEF EditorIInv, Storable, Settings, Schedule

LEMMA NextEditor == ASSUME EditorIInv, [EditorNext]_editorVars PROVE EditorIInv'
<1>1. CASE SaveSchedule \/ ScheduleNotSaved \/ UNCHANGED editorVars
  <2>1. /\ saving' \in {saving, Built, Unset}
        /\ UNCHANGED <<given, mode, simple, custom, edits>>
    BY <1>1 DEF SaveSchedule, ScheduleNotSaved, editorVars
  <2>2. saving' \in Storable \cup {Unset}
    BY <2>1, BuiltStorable DEF EditorIInv
  <2>3. EditorTypeOK'
    BY <2>1, <2>2 DEF EditorIInv, EditorTypeOK, Storable, Settings, Schedule, Fields
  <2> QED BY <2>1, <2>2, <2>3 DEF EditorIInv, Storable, Settings, Schedule
<1>2. CASE ScheduleSaved
  BY <1>2, SyncEditor DEF ScheduleSaved, EditorIInv
<1>3. CASE SettingsReplaced
  BY <1>3, SyncEditor DEF SettingsReplaced
<1> QED BY <1>1, <1>2, <1>3, EditsEditor DEF EditorNext

LEMMA InitEditor == ASSUME EditorInit PROVE EditorIInv
<1>1. /\ given \in Settings /\ given.schedule \in Schedule
      /\ given.mode \in Modes \cup {Unset}
  BY DEF EditorInit, Storable, Settings
<1>2. mode \in Modes /\ (given.mode # Unset => mode = given.mode)
  BY <1>1 DEF EditorInit, ModeOf, Modes
<1>3. 0 \in 0 .. MaxEdits
  BY EditorAssumption
<1>4. EditorTypeOK
  BY <1>1, <1>2, <1>3, FirstWindow, FieldsShape
     DEF EditorInit, EditorTypeOK, Settings, Schedule, Fields
<1> QED BY <1>2, <1>4 DEF EditorInit, EditorIInv

(* The fields as they were copied amount to the schedule they came from:   *)
(* in the simple mode every day has the window of the first, in the custom *)
(* mode each its own.                                                      *)
LEMMA UneditedMeansGiven == EditorIInv => SavingAgainOnlyEnforces
<1> SUFFICES ASSUME EditorIInv, edits = 0, given.mode # Unset \/ Open(given.schedule) # {}
             PROVE  Built = [enabled |-> TRUE,
                             mode |-> IF given.mode = Unset THEN mode ELSE given.mode,
                             schedule |-> given.schedule]
  BY DEF SavingAgainOnlyEnforces
<1> DEFINE w == given.schedule
<1>1. /\ w \in Schedule /\ given \in Storable /\ mode \in Modes
      /\ simple = First(w) /\ custom = FieldsOf(w) /\ (given.mode # Unset => mode = given.mode)
  BY DEF EditorIInv, EditorTypeOK, Settings
<1>2. 1 \in Days
  BY EditorAssumption DEF Days
<1>3. ASSUME NEW d \in Days
      PROVE  w[d] = IF mode = "simple" THEN simple
                    ELSE IF custom[d].enabled THEN custom[d].window ELSE Closed
  <2>1. CASE mode = "simple"
    <3>1. given.mode # "custom"
      BY <1>1, <2>1, EditorAssumption DEF Modes
    <3>2. \A e \in Days : w[e] = w[d]
      BY <1>1, <3>1 DEF Storable
    <3>3. Open(w) # {}
      <4>1. CASE given.mode = Unset
        BY <4>1
      <4>2. CASE given.mode = "simple"
        BY <1>1, <1>2, <4>2 DEF Storable, Open
      <4> QED BY <1>1, <2>1, <4>1, <4>2
    <3>4. PICK e \in Open(w) : First(w) = w[e]
      BY <1>1, <3>3, FirstWindow
    <3>5. e \in Days
      BY DEF Open
    <3> QED BY <1>1, <2>1, <3>2, <3>4, <3>5
  <2>2. CASE mode # "simple"
    <3>1. custom[d] = [window |-> IF w[d] = Closed THEN Standard ELSE w[d],
                       enabled |-> w[d] # Closed]
      BY <1>1 DEF FieldsOf
    <3>2. CASE w[d] = Closed
      <4>1. (w[d] # Closed) = FALSE
        BY <3>2
      <4>2. custom[d] = [window |-> Standard, enabled |-> FALSE]
        BY <3>1, <3>2, <4>1, Zenon
      <4> QED BY <2>2, <3>2, <4>2
    <3>3. CASE w[d] # Closed
      <4>1. (w[d] # Closed) = TRUE
        BY <3>3
      <4>2. custom[d] = [window |-> w[d], enabled |-> TRUE]
        BY <3>1, <3>3, <4>1, Zenon
      <4> QED BY <2>2, <4>2
    <3> QED BY <3>2, <3>3
  <2> QED BY <2>1, <2>2
<1>4. Built.schedule = w
  <2>1. w = [d \in Days |-> w[d]]
    BY <1>1 DEF Schedule
  <2>2. Built.schedule = [d \in Days |->
              IF mode = "simple" THEN simple
              ELSE IF custom[d].enabled THEN custom[d].window ELSE Closed]
    BY DEF Built
  <2> HIDE DEF w
  <2> QED BY <1>3, <2>1, <2>2, Zenon
<1>5. Built = [enabled |-> TRUE, mode |-> mode, schedule |-> w]
  BY <1>4 DEF Built
<1>6. mode = IF given.mode = Unset THEN mode ELSE given.mode
  BY <1>1
<1> QED BY <1>5, <1>6, Zenon

(* The summary.  The recursive definition of its groups has a solution: a  *)
(* least number of days without one is impossible.                         *)
LEMMA GroupsDefined ==
  GroupsTo = [n \in 0 .. LastDay |-> IF n = 0 THEN <<>> ELSE AddDay(GroupsTo[n - 1], n)]
<1> DEFINE Solves(g, m) == g = [n \in 0 .. m |-> IF n = 0 THEN <<>> ELSE AddDay(g[n - 1], n)]
           Missing == {m \in 0 .. LastDay : \A g : ~Solves(g, m)}
<1>1. LastDay \in Nat
  BY EditorAssumption
<1>2. Missing = {}
  <2> SUFFICES ASSUME Missing # {} PROVE FALSE
    OBVIOUS
  <2>1. PICK m \in Missing : \A k \in Missing : m <= k
    <3>1. Missing \in SUBSET Nat
      BY <1>1
    <3> HIDE DEF Missing
    <3> QED BY <3>1, LeastDay
  <2>2. m \in 0 .. LastDay
    OBVIOUS
  <2>3. CASE m = 0
    <3> DEFINE g == [n \in 0 .. 0 |-> <<>>]
    <3>1. Solves(g, 0)
      OBVIOUS
    <3> QED BY <2>1, <2>3, <3>1
  <2>4. CASE m # 0
    <3>1. m - 1 \in 0 .. LastDay /\ m - 1 \in Nat /\ m \in Nat
      BY <1>1, <2>2, <2>4
    <3>2. m - 1 \notin Missing
      BY <2>1, <3>1
    <3>3. PICK g : Solves(g, m - 1)
      BY <3>1, <3>2
    <3> DEFINE h == [n \in 0 .. m |-> IF n = m THEN AddDay(g[m - 1], m) ELSE g[n]]
    <3>4. \A n \in 0 .. m - 1 : h[n] = g[n]
      BY <3>1
    <3>5. \A n \in 0 .. m : h[n] = IF n = 0 THEN <<>> ELSE AddDay(h[n - 1], n)
      <4> SUFFICES ASSUME NEW n \in 0 .. m
                   PROVE  h[n] = IF n = 0 THEN <<>> ELSE AddDay(h[n - 1], n)
        OBVIOUS
      <4>1. CASE n = m
        <5>1. h[n - 1] = g[m - 1]
          BY <2>4, <3>1, <3>4, <4>1
        <5> QED BY <2>4, <4>1, <5>1
      <4>2. CASE n # m
        <5>1. n \in 0 .. m - 1 /\ h[n] = g[n]
          BY <3>1, <3>4, <4>2
        <5>2. n # 0 => h[n - 1] = g[n - 1]
          BY <3>1, <3>4, <5>1
        <5>3. g[n] = IF n = 0 THEN <<>> ELSE AddDay(g[n - 1], n)
          BY <3>3, <5>1
        <5> QED BY <5>1, <5>2, <5>3
      <4> QED BY <4>1, <4>2
    <3>6. h = [n \in 0 .. m |-> h[n]]
      OBVIOUS
    <3> HIDE DEF h
    <3>7. Solves(h, m)
      BY <3>5, <3>6
    <3> QED BY <2>1, <3>7
  <2> QED BY <2>3, <2>4
<1>3. \E g : Solves(g, LastDay)
  BY <1>1, <1>2
<1> QED BY <1>3 DEF GroupsTo

(* The groups of the first n days hold those of them that have a window,   *)
(* each in a group of that window.                                         *)
Group == [days : Seq(Days), window : Windows]

Grouped(groups, n) ==
    /\ groups \in Seq(Group)
    /\ \A i \in DOMAIN groups :
          /\ groups[i].days # <<>>
          /\ \A k \in DOMAIN groups[i].days :
                given.schedule[groups[i].days[k]] = groups[i].window
    /\ \A d \in 1 .. n :
          given.schedule[d] # Closed =>
             \E i \in DOMAIN groups : \E k \in DOMAIN groups[i].days : groups[i].days[k] = d

LEMMA DayAdded ==
  ASSUME EditorTypeOK, NEW n \in Nat, NEW d \in Days, d = n + 1, NEW G, Grouped(G, n)
  PROVE  Grouped(AddDay(G, d), d)
<1> DEFINE w == given.schedule[d]
<1>1. /\ G \in Seq(Group) /\ Len(G) \in Nat /\ DOMAIN G = 1 .. Len(G)
      /\ w \in Windows \cup {Closed} /\ d \in Nat
  BY EditorAssumption DEF Grouped, EditorTypeOK, Settings, Schedule, Days
<1>2. \A i \in DOMAIN G : G[i] \in Group /\ G[i].days \in Seq(Days) /\ G[i].window \in Windows
  <2> TAKE i \in DOMAIN G
  <2>1. G[i] \in Group
    BY <1>1
  <2> QED BY <2>1 DEF Group
<1>3. \A e \in 1 .. d : e = d \/ e \in 1 .. n
  BY <1>1
<1>4. CASE w = Closed
  <2>1. AddDay(G, d) = G
    BY <1>4 DEF AddDay
  <2> QED BY <1>3, <1>4, <2>1 DEF Grouped
<1>5. CASE w # Closed /\ G # <<>> /\ Last(G).window = w
  <2> DEFINE l == Len(G)
             old == G[l].days
             new == Append(old, d)
             last == [days |-> new, window |-> w]
             H == Append(SubSeq(G, 1, l - 1), last)
  <2>1. l \in 1 .. l /\ l \in Nat /\ l >= 1 /\ G[l].window = w
    BY <1>1, <1>5 DEF Last
  <2>2. AddDay(G, d) = H
    BY <1>5 DEF AddDay, Last, Front
  <2>3. /\ old \in Seq(Days) /\ new \in Seq(Days) /\ Len(new) = Len(old) + 1 /\ Len(old) \in Nat
        /\ new[Len(old) + 1] = d /\ \A k \in 1 .. Len(old) : new[k] = old[k]
    BY <1>1, <1>2, <2>1
  <2>4. last \in Group /\ last.days = new /\ last.window = w
    BY <1>1, <1>5, <2>3 DEF Group
  <2> HIDE DEF last
  <2>5. SubSeq(G, 1, l - 1) \in Seq(Group) /\ Len(SubSeq(G, 1, l - 1)) = l - 1
        /\ \A i \in 1 .. l - 1 : SubSeq(G, 1, l - 1)[i] = G[i]
    BY <1>1, <2>1
  <2>6. /\ H \in Seq(Group) /\ Len(H) = l /\ H[l] = last
        /\ \A i \in 1 .. l - 1 : H[i] = G[i]
    BY <2>1, <2>4, <2>5
  <2> HIDE DEF H
  <2>7. \A i \in 1 .. l : i = l \/ i \in 1 .. l - 1
    BY <2>1
  <2>8. DOMAIN H = 1 .. l /\ DOMAIN new = 1 .. Len(old) + 1 /\ DOMAIN old = 1 .. Len(old)
    BY <2>3, <2>6
  <2>9. ASSUME NEW i \in 1 .. l
        PROVE  H[i].days # <<>> /\ \A k \in DOMAIN H[i].days :
                                     given.schedule[H[i].days[k]] = H[i].window
    <3>1. CASE i \in 1 .. l - 1
      BY <1>1, <2>6, <3>1 DEF Grouped
    <3>2. CASE i = l
      <4>1. \A k \in 1 .. Len(old) + 1 : given.schedule[new[k]] = w
        <5>1. \A k \in 1 .. Len(old) : given.schedule[old[k]] = w
          BY <1>1, <2>1, <2>8 DEF Grouped
        <5>2. \A k \in 1 .. Len(old) + 1 : k = Len(old) + 1 \/ k \in 1 .. Len(old)
          BY <2>3
        <5> QED BY <2>3, <5>1, <5>2
      <4>2. new # <<>>
        BY <2>3
      <4> QED BY <2>4, <2>6, <2>8, <3>2, <4>1, <4>2
    <3> QED BY <2>7, <3>1, <3>2
  <2>10. ASSUME NEW e \in 1 .. d, given.schedule[e] # Closed
         PROVE  \E i \in 1 .. l : \E k \in DOMAIN H[i].days : H[i].days[k] = e
    <3>1. CASE e = d
      <4>1. Len(old) + 1 \in DOMAIN new
        BY <2>3, <2>8
      <4> QED BY <2>1, <2>3, <2>4, <2>6, <3>1, <4>1
    <3>2. CASE e \in 1 .. n
      <4>1. PICK i \in 1 .. l : \E k \in DOMAIN G[i].days : G[i].days[k] = e
        BY <1>1, <2>10, <3>2 DEF Grouped
      <4>2. CASE i \in 1 .. l - 1
        BY <2>6, <4>1, <4>2
      <4>3. CASE i = l
        <5>1. PICK k \in 1 .. Len(old) : old[k] = e
          BY <2>8, <4>1, <4>3
        <5>2. k \in DOMAIN new /\ new[k] = e
          BY <2>3, <2>8, <5>1
        <5> QED BY <2>1, <2>4, <2>6, <5>2
      <4> QED BY <2>7, <4>2, <4>3
    <3> QED BY <1>3, <3>1, <3>2
  <2> QED BY <2>2, <2>6, <2>8, <2>9, <2>10 DEF Grouped
<1>6. CASE w # Closed /\ ~(G # <<>> /\ Last(G).window = w)
  <2> DEFINE l == Len(G)
             last == [days |-> <<d>>, window |-> w]
             H == Append(G, last)
  <2>1. AddDay(G, d) = H
    BY <1>6 DEF AddDay
  <2>2. last \in Group /\ last.days = <<d>> /\ last.window = w
    BY <1>1, <1>6 DEF Group
  <2> HIDE DEF last
  <2>3. /\ H \in Seq(Group) /\ Len(H) = l + 1 /\ H[l + 1] = last
        /\ \A i \in 1 .. l : H[i] = G[i]
    BY <1>1, <2>2
  <2> HIDE DEF H
  <2>4. \A i \in 1 .. l + 1 : i = l + 1 \/ i \in 1 .. l
    BY <1>1
  <2>5. DOMAIN H = 1 .. l + 1 /\ l + 1 \in 1 .. l + 1 /\ 1 .. l \subseteq 1 .. l + 1
    BY <1>1, <2>3
  <2>6. DOMAIN <<d>> = 1 .. 1 /\ <<d>>[1] = d /\ <<d>> # <<>>
    OBVIOUS
  <2>7. ASSUME NEW i \in 1 .. l + 1
        PROVE  H[i].days # <<>> /\ \A k \in DOMAIN H[i].days :
                                     given.schedule[H[i].days[k]] = H[i].window
    <3>1. CASE i \in 1 .. l
      BY <1>1, <2>3, <3>1 DEF Grouped
    <3>2. CASE i = l + 1
      <4>1. \A k \in 1 .. 1 : k = 1
        OBVIOUS
      <4> QED BY <2>2, <2>3, <2>6, <3>2, <4>1
    <3> QED BY <2>4, <3>1, <3>2
  <2>8. ASSUME NEW e \in 1 .. d, given.schedule[e] # Closed
        PROVE  \E i \in 1 .. l + 1 : \E k \in DOMAIN H[i].days : H[i].days[k] = e
    <3>1. CASE e = d
      <4>1. 1 \in 1 .. 1
        OBVIOUS
      <4> QED BY <2>2, <2>3, <2>5, <2>6, <3>1, <4>1
    <3>2. CASE e \in 1 .. n
      <4>1. PICK i \in 1 .. l : \E k \in DOMAIN G[i].days : G[i].days[k] = e
        BY <1>1, <2>8, <3>2 DEF Grouped
      <4> QED BY <2>3, <2>5, <4>1
    <3> QED BY <1>3, <3>1, <3>2
  <2> QED BY <2>1, <2>3, <2>5, <2>7, <2>8 DEF Grouped
<1> QED BY <1>4, <1>5, <1>6

(* By induction on the days: a least day without it is impossible.         *)
LEMMA AllGrouped == ASSUME EditorTypeOK PROVE Grouped(Groups, LastDay)
<1> DEFINE Wrong == {n \in 0 .. LastDay : ~Grouped(GroupsTo[n], n)}
<1>1. LastDay \in Nat
  BY EditorAssumption
<1>2. Wrong = {}
  <2> SUFFICES ASSUME Wrong # {} PROVE FALSE
    OBVIOUS
  <2>1. PICK n \in Wrong : \A k \in Wrong : n <= k
    <3>1. Wrong \in SUBSET Nat
      BY <1>1
    <3> HIDE DEF Wrong
    <3> QED BY <3>1, LeastDay
  <2>2. n \in 0 .. LastDay /\ ~Grouped(GroupsTo[n], n)
    OBVIOUS
  <2>3. GroupsTo[n] = IF n = 0 THEN <<>> ELSE AddDay(GroupsTo[n - 1], n)
    BY <2>2, GroupsDefined
  <2>4. CASE n = 0
    <3>1. Grouped(<<>>, 0)
      <4>1. <<>> \in Seq(Group) /\ DOMAIN <<>> = {} /\ 1 .. 0 = {}
        OBVIOUS
      <4> QED BY <4>1 DEF Grouped
    <3> QED BY <2>2, <2>3, <2>4, <3>1
  <2>5. CASE n # 0
    <3>1. n - 1 \in 0 .. LastDay /\ n - 1 \in Nat /\ n = (n - 1) + 1 /\ n \in Days /\ ~(n <= n - 1)
      BY <1>1, <2>2, <2>5 DEF Days
    <3>2. Grouped(GroupsTo[n - 1], n - 1)
      BY <2>1, <3>1
    <3>3. Grouped(AddDay(GroupsTo[n - 1], n), n)
      BY <3>1, <3>2, DayAdded
    <3> QED BY <2>2, <2>3, <2>5, <3>3
  <2> QED BY <2>4, <2>5
<1> QED BY <1>1, <1>2 DEF Groups

(* Days that follow each other are a range.                                *)
LEMMA RangeOfDays ==
  ASSUME NEW s \in Seq(Nat), \A k \in 1 .. Len(s) - 1 : s[k + 1] = s[k] + 1
  PROVE  \A k \in 1 .. Len(s) : s[k] = s[1] + (k - 1)
<1> DEFINE Wrong == {k \in 1 .. Len(s) : s[k] # s[1] + (k - 1)}
<1> SUFFICES ASSUME Wrong # {} PROVE FALSE
  OBVIOUS
<1>1. Len(s) \in Nat /\ \A k \in 1 .. Len(s) : s[k] \in Nat
  OBVIOUS
<1>2. PICK k \in Wrong : \A j \in Wrong : k <= j
  <2>1. Wrong \in SUBSET Nat
    BY <1>1
  <2> HIDE DEF Wrong
  <2> QED BY <2>1, LeastDay
<1>3. CASE k = 1
  BY <1>1, <1>3
<1>4. CASE k # 1
  <2>1. k - 1 \in 1 .. Len(s) - 1 /\ (k - 1) + 1 = k /\ k - 1 \in 1 .. Len(s) /\ ~(k <= k - 1)
    BY <1>1, <1>4
  <2>2. s[k] = s[k - 1] + 1
    BY <2>1
  <2>3. s[k - 1] = s[1] + ((k - 1) - 1)
    BY <1>2, <2>1
  <2>4. k \in Nat /\ s[k] # s[1] + (k - 1) /\ s[1] \in Nat /\ s[k - 1] \in Nat /\ s[k] \in Nat
    <3>1. k \in 1 .. Len(s) /\ 1 \in 1 .. Len(s)
      BY <1>1
    <3> QED BY <1>1, <2>1, <3>1
  <2> DEFINE a == s[1]
             b == s[k - 1]
             c == s[k]
  <2>5. c = b + 1 /\ b = a + ((k - 1) - 1)
    BY <2>2, <2>3
  <2>6. a \in Nat /\ b \in Nat /\ c \in Nat /\ k \in Nat
    BY <2>4
  <2>7. c # a + (k - 1)
    BY <2>4
  <2> HIDE DEF a, b, c
  <2> QED BY <2>5, <2>6, <2>7
<1> QED BY <1>3, <1>4

(* So the label of a group stands for the days of the group.               *)
LEMMA LabelsAreDays ==
  ASSUME NEW g \in Group, g.days # <<>>
  PROVE  Labelled(g) = {g.days[k] : k \in DOMAIN g.days}
<1>1. /\ g.days \in Seq(Days) /\ g.days \in Seq(Nat) /\ Len(g.days) \in Nat
      /\ DOMAIN g.days = 1 .. Len(g.days) /\ Len(g.days) >= 1
      /\ \A k \in 1 .. Len(g.days) : g.days[k] \in Nat
  <2>1. g.days \in Seq(Days)
    BY DEF Group
  <2>2. \A k \in 1 .. Len(g.days) : g.days[k] \in Nat
    BY <2>1, EditorAssumption DEF Days
  <2> QED BY <2>1, <2>2
<1>2. CASE ~IsConsecutive(g)
  BY <1>2 DEF Labelled
<1>3. CASE IsConsecutive(g)
  <2> DEFINE s == g.days
             m == Len(s)
  <2>1. \A k \in 1 .. m : s[k] = s[1] + (k - 1)
    BY <1>1, <1>3, RangeOfDays DEF IsConsecutive
  <2>2. Labelled(g) = s[1] .. s[m]
    BY <1>3 DEF Labelled, Last
  <2> HIDE DEF s
  <2>3. s[1] \in Nat /\ m \in Nat /\ m >= 1 /\ s[m] = s[1] + (m - 1)
    <3>1. m \in Nat /\ m >= 1 /\ \A k \in 1 .. m : s[k] \in Nat
      BY <1>1 DEF s
    <3> QED BY <2>1, <3>1
  <2>4. \A e \in s[1] .. s[m] : \E k \in 1 .. m : s[k] = e
    <3> TAKE e \in s[1] .. s[m]
    <3>1. e - s[1] + 1 \in 1 .. m /\ s[1] + ((e - s[1] + 1) - 1) = e
      BY <2>3
    <3> QED BY <2>1, <3>1
  <2>5. \A k \in 1 .. m : s[k] \in s[1] .. s[m]
    BY <2>1, <2>3
  <2>6. DOMAIN s = 1 .. m
    BY <1>1 DEF s
  <2> QED BY <2>2, <2>4, <2>5, <2>6 DEF s
<1> QED BY <1>2, <1>3

(* The summary prints each day with access under its window, no other day. *)
LEMMA SummaryOfSchedule == EditorTypeOK => SummaryMeansSchedule
<1> SUFFICES ASSUME EditorTypeOK, NEW d \in Days
             PROVE  {g.window : g \in {h \in {Groups[k] : k \in DOMAIN Groups} : d \in Labelled(h)}}
                       = {given.schedule[d]} \ {Closed}
  BY DEF SummaryMeansSchedule
<1> DEFINE printed == {Groups[k] : k \in DOMAIN Groups}
<1>1. Grouped(Groups, LastDay)
  BY AllGrouped
<1>2. \A g \in printed : /\ g \in Group /\ g.window # Closed
                         /\ Labelled(g) = {g.days[k] : k \in DOMAIN g.days}
                         /\ \A e \in Labelled(g) : given.schedule[e] = g.window
  <2> SUFFICES ASSUME NEW i \in DOMAIN Groups
               PROVE  /\ Groups[i] \in Group /\ Groups[i].window # Closed
                      /\ Labelled(Groups[i]) = {Groups[i].days[k] : k \in DOMAIN Groups[i].days}
                      /\ \A e \in Labelled(Groups[i]) : given.schedule[e] = Groups[i].window
    OBVIOUS
  <2>1. Groups[i] \in Group /\ Groups[i].days # <<>>
    BY <1>1 DEF Grouped
  <2>2. Groups[i].window # Closed
    BY <2>1, EditorAssumption DEF Group
  <2>3. Labelled(Groups[i]) = {Groups[i].days[k] : k \in DOMAIN Groups[i].days}
    BY <2>1, LabelsAreDays
  <2> QED BY <1>1, <2>1, <2>2, <2>3 DEF Grouped
<1>3. given.schedule[d] # Closed => \E g \in printed : d \in Labelled(g)
  <2> SUFFICES ASSUME given.schedule[d] # Closed PROVE \E g \in printed : d \in Labelled(g)
    OBVIOUS
  <2>1. PICK i \in DOMAIN Groups : \E k \in DOMAIN Groups[i].days : Groups[i].days[k] = d
    BY <1>1 DEF Grouped, Days
  <2>2. Groups[i] \in printed
    OBVIOUS
  <2> QED BY <1>2, <2>1, <2>2
<1> HIDE DEF printed
<1>4. \A g \in printed : d \in Labelled(g) => g.window = given.schedule[d] /\ g.window # Closed
  BY <1>2
<1>5. {g.window : g \in {h \in printed : d \in Labelled(h)}} = {given.schedule[d]} \ {Closed}
  BY <1>3, <1>4
<1> QED BY <1>5 DEF printed

LEMMA EditorIInvFaithful == EditorIInv => EditorIsFaithful
BY SummaryOfSchedule, UneditedMeansGiven DEF EditorIInv, EditorIsFaithful

(* What the page prints means the schedule it was given, and opening the   *)
(* editor and saving switches that schedule on and changes nothing else,   *)
(* for any number of days, windows and edits and whatever else was stored  *)
(* meanwhile.                                                              *)
THEOREM EditorMeansSchedule == EditorSpec => []EditorIsFaithful
BY InitEditor, NextEditor, EditorIInvFaithful, PTL DEF EditorSpec

(* The settings, the fields and what is being saved keep their types.      *)
THEOREM EditorTypes == EditorSpec => []EditorTypeOK
<1>1. EditorIInv => EditorTypeOK
  BY DEF EditorIInv
<1> QED BY <1>1, InitEditor, NextEditor, PTL DEF EditorSpec

-----------------------------------------------------------------------------
(* The activity log.  Offsets count from the newest session, so the        *)
(* sessions stored since only push the older ones down, on to pages that   *)
(* are still to be fetched: an older session is on a page that is cached   *)
(* or has at least as many newer ones as those pages have places.          *)
Since(s) == {r \in sessionRows : r > s}

LogIsCovered ==
    \A s \in olderRows :
        \/ \E k \in 1 .. Len(logPages) : s \in logPages[k]
        \/ Len(logPages) * PageLimit <= Cardinality(Since(s))

LogInOrder ==
    \A s \in olderRows, k \in 1 .. Len(logPages) :
        (\E r \in logPages[k] : r < s) => \E j \in 1 .. k : s \in logPages[j]

LogIInv == ActivityLogTypeOK /\ LogIsCovered /\ LogInOrder

(* The pages the activity page shows have no holes: a session that was     *)
(* there when it was opened and is newer than one that is listed is listed *)
(* as well.                                                                *)
PagesHaveNoHoles ==
    \A s \in olderRows, k \in 1 .. pagesShown :
        (\E r \in logPages[k] : r < s) => \E j \in 1 .. pagesShown : s \in logPages[j]

LEMMA PositionsFinite == Positions \subseteq Nat /\ IsFiniteSet(Positions)
BY ActivityLogAssumption, FS_Interval

LEMMA NewerFinite ==
  ASSUME ActivityLogTypeOK, NEW s
  PROVE  /\ Cardinality(Since(s)) \in Nat /\ IsFiniteSet(Since(s))
         /\ \A T \in SUBSET Since(s) : Cardinality(T) <= Cardinality(Since(s))
<1>1. IsFiniteSet(Since(s))
  BY PositionsFinite, FS_Subset DEF ActivityLogTypeOK, Since
<1> QED BY <1>1, FS_Subset, FS_CardinalityType

(* A new session takes no place away.                                      *)
LEMMA StoredKeepsLog ==
  ASSUME LogIInv, NEW s \in Positions, SessionStored(s)
  PROVE  LogIInv'
<1>1. /\ sessionRows' = sessionRows \cup {s}
      /\ UNCHANGED <<olderRows, logPages, pagesShown, logSize, logLoading, rangeShown>>
  BY DEF SessionStored
<1>2. ActivityLogTypeOK'
  BY <1>1 DEF LogIInv, ActivityLogTypeOK
<1>3. LogIsCovered'
  <2> SUFFICES ASSUME NEW r \in olderRows, Len(logPages) * PageLimit <= Cardinality(Since(r))
               PROVE  Len(logPages) * PageLimit <= Cardinality(Since(r)')
    BY <1>1 DEF LogIInv, LogIsCovered
  <2>1. Since(r) \subseteq Since(r)'
    BY <1>1 DEF Since
  <2>2. IsFiniteSet(Since(r)')
    BY <1>2, PositionsFinite, FS_Subset DEF ActivityLogTypeOK, Since
  <2>3. Cardinality(Since(r)') \in Nat /\ Cardinality(Since(r)) <= Cardinality(Since(r)')
    BY <2>1, <2>2, FS_Subset, FS_CardinalityType
  <2>4. Cardinality(Since(r)) \in Nat /\ Len(logPages) * PageLimit \in Nat
    BY NewerFinite, ActivityLogAssumption DEF LogIInv, ActivityLogTypeOK
  <2> QED BY <2>3, <2>4
<1>4. LogInOrder'
  BY <1>1 DEF LogIInv, LogInOrder
<1> QED BY <1>2, <1>3, <1>4 DEF LogIInv

(* The next page takes the next places, all of them.                       *)
LEMMA FetchKeepsLog ==
  ASSUME LogIInv, PageFetched
  PROVE  LogIInv'
<1> DEFINE n == Len(logPages)
           places == n * PageLimit
           next == {s \in sessionRows : Cardinality(Since(s)) \in places .. places + PageLimit - 1}
<1>1. /\ logPages' = Append(logPages, PageAt(n + 1)) /\ n < logSize
      /\ UNCHANGED <<sessionRows, olderRows, pagesShown, logSize, logLoading, rangeShown>>
  BY DEF PageFetched
<1>2. /\ logPages \in Seq(SUBSET Positions) /\ n \in Nat /\ PageLimit \in Nat
      /\ olderRows \subseteq sessionRows /\ sessionRows \subseteq Positions
      /\ Positions \subseteq Nat
  BY ActivityLogAssumption, PositionsFinite DEF LogIInv, ActivityLogTypeOK
<1>3. places \in Nat /\ (n + 1) * PageLimit = places + PageLimit /\ (n + 1) - 1 = n
  BY <1>2
<1>4. PageAt(n + 1) = next
  <2>1. \A s : s \in PageAt(n + 1) <=>
               /\ s \in sessionRows
               /\ Cardinality(Since(s)) \in ((n + 1) - 1) * PageLimit .. (n + 1) * PageLimit - 1
    BY Zenon DEF PageAt, Since
  <2>2. \A s : s \in next <=>
               /\ s \in sessionRows
               /\ Cardinality(Since(s)) \in places .. places + PageLimit - 1
    BY Zenon
  <2>3. (((n + 1) - 1) * PageLimit .. (n + 1) * PageLimit - 1)
           = (places .. places + PageLimit - 1)
    <3>1. ((n + 1) - 1) * PageLimit = places /\ (n + 1) * PageLimit = places + PageLimit
      BY <1>3
    <3>2. places \in Nat /\ n \in Nat /\ PageLimit \in Nat
      BY <1>2, <1>3
    <3> HIDE DEF places, n
    <3> QED BY <3>1, <3>2
  <2> HIDE DEF places, next
  <2>4. \A s : s \in PageAt(n + 1) <=> s \in next
    BY <2>1, <2>2, <2>3, Zenon
  <2> QED BY <2>4, Zenon
<1> HIDE DEF places, next
<1>5. /\ logPages' \in Seq(SUBSET Positions) /\ Len(logPages') = n + 1
      /\ logPages'[n + 1] = next
      /\ \A k \in 1 .. n : logPages'[k] = logPages[k]
  <2>1. next \in SUBSET Positions
    BY <1>2 DEF next
  <2>2. logPages' = Append(logPages, next)
    BY <1>1, <1>4
  <2> QED BY <1>2, <2>1, <2>2
<1>6. ActivityLogTypeOK'
  BY <1>1, <1>2, <1>5 DEF LogIInv, ActivityLogTypeOK
<1>7. \A s : Since(s)' = Since(s)
  BY <1>1 DEF Since
<1>8. \A s \in olderRows : \/ \E k \in 1 .. n : s \in logPages'[k]
                           \/ places <= Cardinality(Since(s))
  BY <1>5 DEF LogIInv, LogIsCovered, places
<1>9. LogIsCovered'
  <2> SUFFICES ASSUME NEW s \in olderRows, s \notin next, places <= Cardinality(Since(s))
               PROVE  places + PageLimit <= Cardinality(Since(s))
    <3>1. Len(logPages') * PageLimit = places + PageLimit
      BY <1>3, <1>5
    <3>2. n + 1 \in 1 .. n + 1 /\ 1 .. n \subseteq 1 .. n + 1
      BY <1>2
    <3> QED BY <1>1, <1>5, <1>7, <1>8, <3>1, <3>2 DEF LogIsCovered
  <2>1. Cardinality(Since(s)) \in Nat
    BY NewerFinite DEF LogIInv
  <2>2. Cardinality(Since(s)) \notin places .. places + PageLimit - 1
    BY <1>2 DEF next
  <2> QED BY <1>2, <1>3, <2>1, <2>2
<1>10. LogInOrder'
  <2> SUFFICES ASSUME NEW s \in olderRows, NEW k \in 1 .. n + 1, NEW r \in logPages'[k], r < s
               PROVE  \E j \in 1 .. k : s \in logPages'[j]
    BY <1>1, <1>5 DEF LogInOrder
  <2>1. CASE k \in 1 .. n
    <3>1. PICK j \in 1 .. k : s \in logPages[j]
      BY <1>5, <2>1 DEF LogIInv, LogInOrder
    <3>2. j \in 1 .. n
      BY <1>2, <2>1
    <3> QED BY <1>5, <3>1, <3>2
  <2>2. CASE k = n + 1
    <3>1. r \in sessionRows /\ Cardinality(Since(r)) \in places .. places + PageLimit - 1
      BY <1>5, <2>2 DEF next
    <3>2. Since(s) \subseteq Since(r)
      <4> SUFFICES ASSUME NEW t \in sessionRows, t > s PROVE t > r
        BY DEF Since
      <4>1. t \in Nat /\ s \in Nat /\ r \in Nat
        BY <1>2, <3>1
      <4> QED BY <4>1
    <3>3. /\ Cardinality(Since(s)) \in Nat
          /\ Cardinality(Since(s)) <= Cardinality(Since(r)) /\ Cardinality(Since(r)) \in Nat
      BY <3>2, NewerFinite DEF LogIInv
    <3>4. places <= Cardinality(Since(s)) => s \in next
      BY <1>2, <1>3, <3>1, <3>3 DEF next
    <3>5. k \in 1 .. k /\ 1 .. n \subseteq 1 .. k
      BY <1>2, <2>2
    <3> QED BY <1>5, <1>8, <2>2, <3>4, <3>5
  <2> QED BY <1>2, <2>1, <2>2
<1> QED BY <1>6, <1>9, <1>10 DEF LogIInv

LEMMA NextLog == ASSUME LogIInv, [ActivityLogNext]_activityLogVars PROVE LogIInv'
<1>1. CASE LogFetchEnds \/ LogFetchStarts \/ ScrollLog \/ (\E h \in Ranges : FilterRange(h))
           \/ UNCHANGED activityLogVars
  <2>1. UNCHANGED <<sessionRows, olderRows, logPages>>
    BY <1>1 DEF LogFetchEnds, LogFetchStarts, ScrollLog, FilterRange, activityLogVars
  <2>2. logLoading' \in BOOLEAN /\ rangeShown' \in Ranges
    BY <1>1 DEF LogFetchEnds, LogFetchStarts, ScrollLog, FilterRange, activityLogVars, LogIInv,
       ActivityLogTypeOK
  <2>3. Len(logPages) \in Nat /\ pagesShown \in 0 .. Len(logPages) /\ logSize \in 1 .. MaxLogPages
    BY DEF LogIInv, ActivityLogTypeOK
  <2>4. pagesShown' \in {pagesShown, Len(logPages)}
    BY <1>1 DEF LogFetchEnds, LogFetchStarts, ScrollLog, FilterRange, activityLogVars
  <2>5. logSize' = logSize \/ (logSize < MaxLogPages /\ logSize' = logSize + 1)
    BY <1>1 DEF LogFetchEnds, LogFetchStarts, ScrollLog, FilterRange, activityLogVars
  <2>6. pagesShown' \in 0 .. Len(logPages) /\ logSize' \in 1 .. MaxLogPages
    BY <2>3, <2>4, <2>5, ActivityLogAssumption
  <2>7. ActivityLogTypeOK'
    BY <2>1, <2>2, <2>6 DEF LogIInv, ActivityLogTypeOK
  <2> QED BY <2>1, <2>7 DEF LogIInv, LogIsCovered, LogInOrder, Since
<1> QED BY <1>1, StoredKeepsLog, FetchKeepsLog DEF ActivityLogNext

LEMMA InitLog == ASSUME ActivityLogInit PROVE LogIInv
<1>1. logPages = <<>> /\ Len(logPages) = 0 /\ logPages \in Seq(SUBSET Positions)
  BY DEF ActivityLogInit
<1>2. ActivityLogTypeOK
  BY <1>1, ActivityLogAssumption DEF ActivityLogInit, ActivityLogTypeOK
<1>3. \A s \in olderRows : Len(logPages) * PageLimit <= Cardinality(Since(s))
  <2>1. Len(logPages) * PageLimit = 0
    BY <1>1, ActivityLogAssumption
  <2> QED BY <1>2, <2>1, NewerFinite
<1> QED BY <1>1, <1>2, <1>3 DEF LogIInv, LogIsCovered, LogInOrder

LEMMA LogIInvHoles == LogIInv => PagesHaveNoHoles
<1> SUFFICES ASSUME LogIInv, NEW s \in olderRows, NEW k \in 1 .. pagesShown,
                    \E r \in logPages[k] : r < s
             PROVE  \E j \in 1 .. pagesShown : s \in logPages[j]
  BY DEF PagesHaveNoHoles
<1>1. pagesShown \in 0 .. Len(logPages) /\ Len(logPages) \in Nat
  BY DEF LogIInv, ActivityLogTypeOK
<1>2. k \in 1 .. Len(logPages)
  BY <1>1
<1>3. PICK j \in 1 .. k : s \in logPages[j]
  BY <1>2 DEF LogIInv, LogInOrder
<1> QED BY <1>1, <1>3

(* The recursion over the sessions has a solution, built up session by     *)
(* session.                                                                *)
LEMMA MergedDefined ==
  MergedTo = [n \in 0 .. Len(WindowOf) |-> IF n = 0 THEN <<>> ELSE Merge(MergedTo[n - 1], n)]
<1> DEFINE last == Len(WindowOf)
           Solves(g, m) == g = [n \in 0 .. m |-> IF n = 0 THEN <<>> ELSE Merge(g[n - 1], n)]
           Missing == {m \in 0 .. last : \A g : ~Solves(g, m)}
<1>1. last \in Nat
  BY ActivityLogAssumption
<1> HIDE DEF last
<1>2. Missing = {}
  <2> SUFFICES ASSUME Missing # {} PROVE FALSE
    OBVIOUS
  <2>1. PICK m \in Missing : \A k \in Missing : m <= k
    <3>1. Missing \in SUBSET Nat
      BY <1>1
    <3> HIDE DEF Missing
    <3> QED BY <3>1, LeastDay
  <2>2. m \in 0 .. last
    OBVIOUS
  <2>3. CASE m = 0
    <3> DEFINE g == [n \in 0 .. 0 |-> <<>>]
    <3>1. Solves(g, 0)
      OBVIOUS
    <3> QED BY <2>1, <2>3, <3>1
  <2>4. CASE m # 0
    <3>1. m - 1 \in 0 .. last /\ m - 1 \in Nat /\ m \in Nat
      BY <1>1, <2>2, <2>4
    <3>2. m - 1 \notin Missing
      BY <2>1, <3>1
    <3>3. PICK g : Solves(g, m - 1)
      BY <3>1, <3>2
    <3> DEFINE h == [n \in 0 .. m |-> IF n = m THEN Merge(g[m - 1], m) ELSE g[n]]
    <3>4. \A n \in 0 .. m - 1 : h[n] = g[n]
      BY <3>1
    <3>5. \A n \in 0 .. m : h[n] = IF n = 0 THEN <<>> ELSE Merge(h[n - 1], n)
      <4> SUFFICES ASSUME NEW n \in 0 .. m
                   PROVE  h[n] = IF n = 0 THEN <<>> ELSE Merge(h[n - 1], n)
        OBVIOUS
      <4>1. CASE n = m
        <5>1. h[n - 1] = g[m - 1]
          BY <2>4, <3>1, <3>4, <4>1
        <5> QED BY <2>4, <4>1, <5>1
      <4>2. CASE n # m
        <5>1. n \in 0 .. m - 1 /\ h[n] = g[n]
          BY <3>1, <3>4, <4>2
        <5>2. n # 0 => h[n - 1] = g[n - 1]
          BY <3>1, <3>4, <5>1
        <5>3. g[n] = IF n = 0 THEN <<>> ELSE Merge(g[n - 1], n)
          BY <3>3, <5>1
        <5> QED BY <5>1, <5>2, <5>3
      <4> QED BY <4>1, <4>2
    <3>6. h = [n \in 0 .. m |-> h[n]]
      OBVIOUS
    <3> HIDE DEF h
    <3>7. Solves(h, m)
      BY <3>5, <3>6
    <3> QED BY <2>1, <3>7
  <2> QED BY <2>3, <2>4
<1>3. \E g : Solves(g, last)
  BY <1>1, <1>2
<1> QED BY <1>3 DEF MergedTo, last

(* The rows of the first n sessions hold those that are listed, each in a  *)
(* row of its window; the rows are in the order of time and two that       *)
(* follow each other are of different windows.                             *)
LogRow == [window : {WindowOf[s] : s \in Positions}, of : SUBSET Positions]

RowsUpTo(rows, n) ==
    /\ rows \in Seq(LogRow)
    /\ \A i \in DOMAIN rows : \A s \in rows[i].of :
          s <= n /\ s \in FilteredActivities /\ WindowOf[s] = rows[i].window
    /\ \A s \in FilteredActivities : s <= n => \E i \in DOMAIN rows : s \in rows[i].of
    /\ \A i, j \in DOMAIN rows :
          i < j => \A r \in rows[i].of, s \in rows[j].of : r < s
    /\ \A i \in 1 .. Len(rows) - 1 : rows[i].window # rows[i + 1].window

LEMMA SessionMerged ==
  ASSUME NEW n \in Nat, NEW p \in Positions, p = n + 1, NEW R, RowsUpTo(R, n)
  PROVE  RowsUpTo(Merge(R, p), p)
<1> DEFINE F == FilteredActivities
           w == WindowOf[p]
<1>1. /\ R \in Seq(LogRow) /\ Len(R) \in Nat /\ DOMAIN R = 1 .. Len(R) /\ p \in Nat
      /\ F \subseteq Nat /\ Positions \subseteq Nat
  <2>1. R \in Seq(LogRow) /\ Len(R) \in Nat /\ DOMAIN R = 1 .. Len(R)
    BY DEF RowsUpTo
  <2>2. F \subseteq Positions
    BY DEF FilteredActivities
  <2> QED BY <2>1, <2>2, PositionsFinite
<1>2. \A i \in DOMAIN R : R[i] \in LogRow /\ R[i].of \subseteq Positions
  <2> TAKE i \in DOMAIN R
  <2>1. R[i] \in LogRow
    BY <1>1
  <2> QED BY <2>1 DEF LogRow
<1>3. /\ \A i \in 1 .. Len(R) : \A s \in R[i].of : s <= n /\ s \in F /\ WindowOf[s] = R[i].window
      /\ \A s \in F : s <= n => \E i \in 1 .. Len(R) : s \in R[i].of
      /\ \A i, j \in 1 .. Len(R) : i < j => \A r \in R[i].of, s \in R[j].of : r < s
      /\ \A i \in 1 .. Len(R) - 1 : R[i].window # R[i + 1].window
  BY <1>1 DEF RowsUpTo
<1>4. \A s \in F : s <= p => s = p \/ s <= n
  BY <1>1
<1>5. \A i \in 1 .. Len(R) : \A s \in R[i].of : s < p /\ s <= p
  <2> TAKE i \in 1 .. Len(R)
  <2> TAKE s \in R[i].of
  <2>1. s <= n /\ s \in F
    BY <1>3
  <2>2. s \in Nat
    BY <1>1, <2>1
  <2> HIDE DEF F
  <2> QED BY <2>1, <2>2
<1> HIDE DEF F
<1>6. CASE p \notin F
  <2>1. Merge(R, p) = R
    BY <1>6 DEF Merge, F
  <2>2. /\ \A i \in DOMAIN R : \A s \in R[i].of : s <= p /\ s \in F /\ WindowOf[s] = R[i].window
        /\ \A s \in F : s <= p => \E i \in DOMAIN R : s \in R[i].of
    BY <1>1, <1>3, <1>4, <1>5, <1>6
  <2> QED BY <1>1, <1>3, <2>1, <2>2 DEF RowsUpTo, F
<1>7. CASE p \in F /\ R # <<>> /\ Last(R).window = w
  <2> DEFINE l == Len(R)
             old == R[l].of
             row == [window |-> w, of |-> old \cup {p}]
             H == Append(SubSeq(R, 1, l - 1), row)
  <2>1. l \in 1 .. l /\ l \in Nat /\ l >= 1 /\ R[l].window = w
    BY <1>1, <1>7 DEF Last
  <2>2. Merge(R, p) = H
    BY <1>7 DEF Merge, Last, Front, F
  <2>3. row \in LogRow /\ row.of = old \cup {p} /\ row.window = w
    BY <1>1, <1>2, <2>1 DEF LogRow
  <2> HIDE DEF row
  <2>4. SubSeq(R, 1, l - 1) \in Seq(LogRow) /\ Len(SubSeq(R, 1, l - 1)) = l - 1
        /\ \A i \in 1 .. l - 1 : SubSeq(R, 1, l - 1)[i] = R[i]
    BY <1>1, <2>1
  <2>5. /\ H \in Seq(LogRow) /\ Len(H) = l /\ H[l] = row
        /\ \A i \in 1 .. l - 1 : H[i] = R[i]
    BY <2>1, <2>3, <2>4
  <2> HIDE DEF H
  <2>6. \A i \in 1 .. l : i = l \/ i \in 1 .. l - 1
    BY <2>1
  <2>7. DOMAIN H = 1 .. l
    BY <2>5
  <2>8. \A i \in 1 .. l : H[i].window = R[i].window /\ R[i].of \subseteq H[i].of
    BY <2>1, <2>3, <2>5, <2>6
  <2>9. \A i \in 1 .. l : \A s \in H[i].of : s \in R[i].of \/ (i = l /\ s = p)
    BY <2>3, <2>5, <2>6
  <2> HIDE DEF old, w
  <2>10. \A i \in 1 .. l : \A s \in H[i].of : s <= p /\ s \in F /\ WindowOf[s] = H[i].window
    <3> TAKE i \in 1 .. l
    <3> TAKE s \in H[i].of
    <3>1. CASE s \in R[i].of
      BY <1>3, <1>5, <2>8, <3>1
    <3>2. CASE i = l /\ s = p
      BY <1>1, <1>7, <2>1, <2>8, <3>2 DEF w
    <3> QED BY <2>9, <3>1, <3>2
  <2>11. \A s \in F : s <= p => \E i \in 1 .. l : s \in H[i].of
    <3> SUFFICES ASSUME NEW s \in F, s <= p PROVE \E i \in 1 .. l : s \in H[i].of
      OBVIOUS
    <3>1. CASE s = p
      BY <2>1, <2>3, <2>5, <3>1
    <3>2. CASE s <= n
      BY <1>3, <2>8, <3>2
    <3> QED BY <1>4, <3>1, <3>2
  <2>12. \A i, j \in 1 .. l : i < j => \A r \in H[i].of, s \in H[j].of : r < s
    <3> SUFFICES ASSUME NEW i \in 1 .. l, NEW j \in 1 .. l, i < j,
                        NEW r \in H[i].of, NEW s \in H[j].of
                 PROVE  r < s
      OBVIOUS
    <3>1. r \in R[i].of
      BY <2>1, <2>9
    <3>2. CASE s \in R[j].of
      BY <1>3, <3>1, <3>2
    <3>3. CASE s = p
      BY <1>5, <3>1, <3>3
    <3> QED BY <2>9, <3>2, <3>3
  <2>13. \A i \in 1 .. l - 1 : H[i].window # H[i + 1].window
    <3> TAKE i \in 1 .. l - 1
    <3>1. i \in 1 .. l /\ i + 1 \in 1 .. l
      BY <2>1
    <3> QED BY <1>3, <2>8, <3>1
  <2> QED BY <2>2, <2>5, <2>7, <2>10, <2>11, <2>12, <2>13 DEF RowsUpTo, F
<1>8. CASE p \in F /\ ~(R # <<>> /\ Last(R).window = w)
  <2> DEFINE l == Len(R)
             row == [window |-> w, of |-> {p}]
             H == Append(R, row)
  <2>1. Merge(R, p) = H
    BY <1>8 DEF Merge, F
  <2>2. row \in LogRow /\ row.of = {p} /\ row.window = w
    BY DEF LogRow
  <2> HIDE DEF row
  <2>3. /\ H \in Seq(LogRow) /\ Len(H) = l + 1 /\ H[l + 1] = row
        /\ \A i \in 1 .. l : H[i] = R[i]
    BY <1>1, <2>2
  <2> HIDE DEF H
  <2>4. \A i \in 1 .. l + 1 : i = l + 1 \/ i \in 1 .. l
    BY <1>1
  <2>5. DOMAIN H = 1 .. l + 1 /\ l + 1 \in 1 .. l + 1 /\ 1 .. l \subseteq 1 .. l + 1
    BY <1>1, <2>3
  <2>6. \A i \in 1 .. l + 1 : \A s \in H[i].of : s <= p /\ s \in F /\ WindowOf[s] = H[i].window
    <3> TAKE i \in 1 .. l + 1
    <3> TAKE s \in H[i].of
    <3>1. CASE i \in 1 .. l
      BY <1>3, <1>5, <2>3, <3>1
    <3>2. CASE i = l + 1
      BY <1>1, <1>8, <2>2, <2>3, <3>2
    <3> QED BY <2>4, <3>1, <3>2
  <2>7. \A s \in F : s <= p => \E i \in 1 .. l + 1 : s \in H[i].of
    <3> SUFFICES ASSUME NEW s \in F, s <= p PROVE \E i \in 1 .. l + 1 : s \in H[i].of
      OBVIOUS
    <3>1. CASE s = p
      BY <2>2, <2>3, <2>5, <3>1
    <3>2. CASE s <= n
      BY <1>3, <2>3, <2>5, <3>2
    <3> QED BY <1>4, <3>1, <3>2
  <2>8. \A i, j \in 1 .. l + 1 : i < j => \A r \in H[i].of, s \in H[j].of : r < s
    <3> SUFFICES ASSUME NEW i \in 1 .. l + 1, NEW j \in 1 .. l + 1, i < j,
                        NEW r \in H[i].of, NEW s \in H[j].of
                 PROVE  r < s
      OBVIOUS
    <3>1. i \in 1 .. l /\ r \in R[i].of
      BY <1>1, <2>3
    <3>2. CASE j \in 1 .. l
      BY <1>3, <2>3, <3>1, <3>2
    <3>3. CASE j = l + 1
      BY <1>5, <2>2, <2>3, <3>1, <3>3
    <3> QED BY <2>4, <3>2, <3>3
  <2>9. \A i \in 1 .. l : H[i].window # H[i + 1].window
    <3> TAKE i \in 1 .. l
    <3>1. CASE i \in 1 .. l - 1
      <4>1. i + 1 \in 1 .. l
        BY <1>1, <3>1
      <4> QED BY <1>3, <2>3, <3>1, <4>1
    <3>2. CASE i = l
      <4>1. R # <<>> /\ Last(R) = R[l]
        BY <1>1, <3>2 DEF Last
      <4> QED BY <1>8, <2>2, <2>3, <3>2, <4>1
    <3>3. i \in 1 .. l - 1 \/ i = l
      <4>1. l \in Nat
        BY <1>1
      <4> HIDE DEF l
      <4> QED BY <4>1
    <3> QED BY <3>1, <3>2, <3>3
  <2>10. \A i \in 1 .. Len(H) - 1 : H[i].window # H[i + 1].window
    <3>1. Len(H) - 1 = l
      BY <1>1, <2>3
    <3> QED BY <2>9, <3>1
  <2>11. H \in Seq(LogRow)
    BY <2>3
  <2> HIDE DEF l
  <2> QED BY <2>1, <2>5, <2>6, <2>7, <2>8, <2>10, <2>11 DEF RowsUpTo, F
<1> QED BY <1>6, <1>7, <1>8

(* By induction on the sessions: a least one without it is impossible.     *)
LEMMA AllMerged == RowsUpTo(Merged, Len(WindowOf))
<1> DEFINE last == Len(WindowOf)
           Wrong == {n \in 0 .. last : ~RowsUpTo(MergedTo[n], n)}
<1>1. last \in Nat /\ Positions = 1 .. last
  BY ActivityLogAssumption
<1>2. \A n \in 0 .. last : MergedTo[n] = IF n = 0 THEN <<>> ELSE Merge(MergedTo[n - 1], n)
  BY MergedDefined
<1>3. Wrong = {}
  <2> HIDE DEF last
  <2> SUFFICES ASSUME Wrong # {} PROVE FALSE
    OBVIOUS
  <2>1. PICK n \in Wrong : \A k \in Wrong : n <= k
    <3>1. Wrong \in SUBSET Nat
      BY <1>1
    <3> HIDE DEF Wrong
    <3> QED BY <3>1, LeastDay
  <2>2. n \in 0 .. last /\ ~RowsUpTo(MergedTo[n], n)
    OBVIOUS
  <2>3. CASE n = 0
    <3>1. RowsUpTo(<<>>, 0)
      <4>1. <<>> \in Seq(LogRow) /\ DOMAIN <<>> = {} /\ 1 .. Len(<<>>) - 1 = {}
        OBVIOUS
      <4>2. \A s \in FilteredActivities : ~(s <= 0)
        BY <1>1 DEF FilteredActivities
      <4> QED BY <4>1, <4>2 DEF RowsUpTo
    <3> QED BY <1>2, <2>2, <2>3, <3>1
  <2>4. CASE n # 0
    <3>1. /\ n - 1 \in 0 .. last /\ n - 1 \in Nat /\ n = (n - 1) + 1 /\ n \in Positions
          /\ ~(n <= n - 1)
      BY <1>1, <2>2, <2>4
    <3>2. RowsUpTo(MergedTo[n - 1], n - 1)
      BY <2>1, <3>1
    <3>3. RowsUpTo(Merge(MergedTo[n - 1], n), n)
      BY <3>1, <3>2, SessionMerged
    <3> QED BY <1>2, <2>2, <2>4, <3>3
  <2> QED BY <2>3, <2>4
<1> QED BY <1>1, <1>3 DEF Merged

LEMMA LogIInvWhole == LogIInv => LogHasNoHoles
<1> SUFFICES ASSUME LogIInv PROVE LogHasNoHoles
  OBVIOUS
<1> DEFINE M == Merged
<1>1. RowsUpTo(M, Len(WindowOf)) /\ Positions = 1 .. Len(WindowOf) /\ Len(WindowOf) \in Nat
  BY AllMerged, ActivityLogAssumption
<1>2. /\ M \in Seq(LogRow) /\ Len(M) \in Nat /\ DOMAIN M = 1 .. Len(M)
      /\ FilteredActivities \subseteq Positions /\ Positions \subseteq Nat
  BY <1>1 DEF RowsUpTo, FilteredActivities
<1> HIDE DEF M
<1>3. ASSUME NEW s \in olderRows, s > rangeShown, NEW r \in FilteredActivities, r < s
      PROVE  \E k \in DOMAIN M : /\ M[k].window = WindowOf[s]
                                 /\ s \in M[k].of
                                 /\ \A j \in DOMAIN M \ {k} : s \notin M[j].of
  <2>1. PICK k \in 1 .. pagesShown : r \in logPages[k]
    BY DEF FilteredActivities
  <2>2. \E j \in 1 .. pagesShown : s \in logPages[j]
    BY <1>3, <2>1, LogIInvHoles DEF PagesHaveNoHoles
  <2>3. s \in Positions
    BY DEF LogIInv, ActivityLogTypeOK
  <2>4. s \in FilteredActivities /\ s <= Len(WindowOf) /\ s \in Nat
    BY <1>1, <1>3, <2>2, <2>3 DEF FilteredActivities
  <2>5. PICK i \in DOMAIN M : s \in M[i].of
    BY <1>1, <2>4 DEF RowsUpTo
  <2>6. M[i].window = WindowOf[s]
    BY <1>1, <2>5 DEF RowsUpTo
  <2>7. ASSUME NEW j \in DOMAIN M, j # i, s \in M[j].of PROVE FALSE
    <3>1. i < j \/ j < i
      BY <1>2, <2>5, <2>7
    <3>2. s < s
      BY <1>1, <2>5, <2>7, <3>1 DEF RowsUpTo
    <3> QED BY <2>4, <3>2
  <2> QED BY <2>5, <2>6, <2>7
<1>4. ASSUME NEW k \in 1 .. Len(M) - 1
      PROVE  /\ M[k].window # M[k + 1].window
             /\ \A r \in M[k].of, s \in M[k + 1].of : r < s
  <2>1. k \in DOMAIN M /\ k + 1 \in DOMAIN M /\ k < k + 1
    BY <1>2
  <2> QED BY <1>1, <2>1 DEF RowsUpTo
<1> QED BY <1>3, <1>4 DEF LogHasNoHoles, M

(* However many sessions begin while the page is open and whenever its     *)
(* pages are fetched, none of those that were there is passed over: each   *)
(* that is newer than a listed one is part of exactly one row, of its own  *)
(* window, and the rows are in the order of time and merged where they can *)
(* be.                                                                     *)
THEOREM NoSessionIsPassedOver == ActivityLogSpec => []LogHasNoHoles
BY InitLog, NextLog, LogIInvWhole, PTL DEF ActivityLogSpec

(* The pages and the requests of the activity log keep their types.        *)
THEOREM ActivityLogTypes == ActivityLogSpec => []ActivityLogTypeOK
<1>1. LogIInv => ActivityLogTypeOK
  BY DEF LogIInv
<1> QED BY <1>1, InitLog, NextLog, PTL DEF ActivityLogSpec
=============================================================================
