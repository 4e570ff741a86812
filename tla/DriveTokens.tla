---------------------------- MODULE DriveTokens ----------------------------
(***************************************************************************)
(* The Google Drive connection: one oauth_tokens row, written by the OAuth *)
(* callback and the disconnect route (routes/web/oauth.ts), and refreshed  *)
(* or removed by whoever needs an access token: getDriveClient             *)
(* (googleDriveService.ts, for the images of routes/web/media.ts) and the  *)
(* credentials route of the machines (routes/machine/oauth.ts).  The       *)
(* dashboard's card is GoogleDriveConnection.tsx.                          *)
(*                                                                         *)
(* A consent of the user is a number, and names the refresh token and the  *)
(* access tokens that come from it.  Every await is a step boundary: the   *)
(* row may be another one, or hold another consent, when it is written.    *)
(***************************************************************************)
EXTENDS Naturals

CONSTANTS
    MaxGrants,   \* bound: consents given
    None         \* no row, no answer

ASSUME DriveTokensAssumption == MaxGrants \in Nat \ {0} /\ None \notin BOOLEAN

VARIABLES
    token,       \* the oauth_tokens row, or None
    granted,   \* number of consents given
    created,   \* number of rows created: ids are never reused
    revoked,   \* consents that Google no longer honours
    calls,     \* calls[k]: a caller that refreshes, or None
    consent,   \* the OAuth callback in progress, or None
    card,      \* GoogleDriveConnection: what the card shows
    kept       \* history: the consents stored since the last disconnect

tokenVars == <<token, granted, created, revoked, calls, consent, card, kept>>

Grants == 1 .. MaxGrants
Callers == {"machine", "media"}
(* expiresAt: far, within five minutes, passed.                            *)
Expiries == {"far", "close", "passed"}
TokenRow == [id : Grants, refresh : Grants, access : Grants, expiry : Expiries]
Call == [at : {"refresh", "update", "delete"}, id : Grants, refresh : Grants]
Callback == [at : {"code"}, grant : Grants]
       \cup [at : {"find"}, grant : Grants, offline : BOOLEAN]
       \cup [at : {"write"}, grant : Grants, offline : BOOLEAN,
             id : Grants \cup {0}, refresh : Grants \cup {0}]

TokensTypeOK ==
    /\ token \in TokenRow \cup {None}
    /\ granted \in 0 .. MaxGrants /\ created \in 0 .. MaxGrants
    /\ revoked \subseteq Grants /\ kept \subseteq Grants
    /\ calls \in [Callers -> Call \cup {None}]
    /\ consent \in Callback \cup {None}
    /\ card \in [busy : BOOLEAN, answer : BOOLEAN \cup {None}, connected : BOOLEAN]

TokensInit ==
    /\ token = None
    /\ granted = 0 /\ created = 0
    /\ revoked = {}
    /\ calls = [k \in Callers |-> None]
    /\ consent = None
    /\ card = [busy |-> TRUE, answer |-> None, connected |-> FALSE]
    /\ kept = {}

-----------------------------------------------------------------------------
(* The world outside.                                                      *)
TokenAges ==
    /\ token # None /\ token.expiry # "passed"
    /\ token' = [token EXCEPT !.expiry = IF @ = "far" THEN "close" ELSE "passed"]
    /\ UNCHANGED <<granted, created, revoked, calls, consent, card, kept>>

UserRevokes(g) ==
    /\ g \in 1 .. granted /\ g \notin revoked
    /\ revoked' = revoked \cup {g}
    /\ UNCHANGED <<token, granted, created, calls, consent, card, kept>>

-----------------------------------------------------------------------------
(* handleConnect leaves for the consent page (prompt: 'consent'); Google   *)
(* comes back with a code.  Another tab may do so from a card that is not  *)
(* up to date.                                                             *)
UserConsents ==
    /\ consent = None
    /\ granted < MaxGrants
    /\ granted' = granted + 1
    /\ consent' = [at |-> "code", grant |-> granted + 1]
    /\ UNCHANGED <<token, created, revoked, calls, card, kept>>

(* getToken: fails, or answers with or without a refresh token.            *)
CallbackExchanges ==
    /\ consent # None /\ consent.at = "code"
    /\ consent' \in {None} \cup
         {[at |-> "find", grant |-> consent.grant, offline |-> o] : o \in BOOLEAN}
    /\ UNCHANGED <<token, granted, created, revoked, calls, card, kept>>

CallbackFinds ==
    /\ consent # None /\ consent.at = "find"
    /\ consent' = [at |-> "write", grant |-> consent.grant, offline |-> consent.offline,
                   id |-> IF token = None THEN 0 ELSE token.id,
                   refresh |-> IF token = None THEN 0 ELSE token.refresh]
    /\ UNCHANGED <<token, granted, created, revoked, calls, card, kept>>

(* What the callback finds when it writes: the row it has found is updated *)
(* with the new refresh token or the one it has read; without a row one is *)
(* created, if there is a refresh token.  Otherwise it answers an error.   *)
CallbackUpdates == consent.id # 0 /\ token # None /\ token.id = consent.id

(* Mutant of CallbackCreates: without asking for a refresh token.          *)
CallbackCreatesAnyway == consent.id = 0 /\ token = None

CallbackCreates == consent.id = 0 /\ token = None /\ consent.offline

StoredToken(id) ==
    [id |-> id, access |-> consent.grant, expiry |-> "far",
     refresh |-> IF consent.offline THEN consent.grant ELSE consent.refresh]

CallbackWrites ==
    /\ consent # None /\ consent.at = "write"
    /\ \/ /\ CallbackUpdates
          /\ token' = StoredToken(token.id)
          /\ kept' = kept \cup {consent.grant}
          /\ UNCHANGED created
       \/ /\ CallbackCreates
          /\ created' = created + 1
          /\ token' = StoredToken(created + 1)
          /\ kept' = kept \cup {consent.grant}
       \/ ~CallbackUpdates /\ ~CallbackCreates /\ UNCHANGED <<token, created, kept>>
    /\ consent' = None
    /\ card' = [busy |-> TRUE, answer |-> None, connected |-> FALSE]   \* redirected to "/"
    /\ UNCHANGED <<granted, revoked, calls>>

(* POST /google/disconnect, then checkStatus.                              *)
Disconnect ==
    /\ ~card.busy /\ card.connected
    /\ token' = None /\ kept' = {}
    /\ card' = [card EXCEPT !.busy = TRUE]
    /\ UNCHANGED <<granted, created, revoked, calls, consent>>

(* GET /status is read, and its answer arrives: a row is "connected", also *)
(* when its token is expired (the card looks for isExpired, the server     *)
(* sends expired).                                                         *)
StatusRead ==
    /\ card.busy /\ card.answer = None
    /\ card' = [card EXCEPT !.answer = (token # None)]
    /\ UNCHANGED <<token, granted, created, revoked, calls, consent, kept>>

StatusShown ==
    /\ card.answer # None
    /\ card' = [busy |-> FALSE, answer |-> None, connected |-> card.answer]
    /\ UNCHANGED <<token, granted, created, revoked, calls, consent, kept>>

-----------------------------------------------------------------------------
Ends(k) == calls' = [calls EXCEPT ![k] = None]

(* The media route refreshes an expired token, the credentials route also  *)
(* one that expires within five minutes; otherwise they answer at once.    *)
Stale(k) == token.expiry = "passed" \/ (k = "machine" /\ token.expiry = "close")

CallStarts(k) ==
    /\ calls[k] = None
    /\ token # None /\ Stale(k)
    /\ calls' = [calls EXCEPT ![k] = [at |-> "refresh", id |-> token.id, refresh |-> token.refresh]]
    /\ UNCHANGED <<token, granted, created, revoked, consent, card, kept>>

(* Mutant of GoogleAnswers: invalid_grant is an error like any other.      *)
GoogleAnswersError(k) ==
    /\ calls[k] # None /\ calls[k].at = "refresh"
    /\ IF calls[k].refresh \in revoked THEN Ends(k)
       ELSE calls' = [calls EXCEPT ![k].at = "update"]
    /\ UNCHANGED <<token, granted, created, revoked, consent, card, kept>>

(* refreshAccessToken: new credentials, or invalid_grant.                  *)
GoogleAnswers(k) ==
    /\ calls[k] # None /\ calls[k].at = "refresh"
    /\ calls' = [calls EXCEPT ![k].at = IF calls[k].refresh \in revoked
                                        THEN "delete" ELSE "update"]
    /\ UNCHANGED <<token, granted, created, revoked, consent, card, kept>>

(* Any other failure: an error is answered, the row stays.                 *)
GoogleFails(k) ==
    /\ calls[k] # None /\ calls[k].at = "refresh"
    /\ Ends(k)
    /\ UNCHANGED <<token, granted, created, revoked, consent, card, kept>>

(* Mutant of SameRow: the row of the provider, whichever it is.            *)
AnyRow(k) == token # None

(* The row that was read: update and delete by id fail without it.         *)
SameRow(k) == token # None /\ token.id = calls[k].id

CallUpdates(k) ==
    /\ calls[k] # None /\ calls[k].at = "update"
    /\ token' = IF SameRow(k) THEN [token EXCEPT !.access = calls[k].refresh, !.expiry = "far"]
              ELSE token
    /\ Ends(k)
    /\ UNCHANGED <<granted, created, revoked, consent, card, kept>>

CallDeletes(k) ==
    /\ calls[k] # None /\ calls[k].at = "delete"
    /\ token' = IF SameRow(k) THEN None ELSE token
    /\ Ends(k)
    /\ UNCHANGED <<granted, created, revoked, consent, card, kept>>

-----------------------------------------------------------------------------
TokensNext ==
    \/ TokenAges
    \/ \E g \in Grants : UserRevokes(g)
    \/ UserConsents \/ CallbackExchanges \/ CallbackFinds \/ CallbackWrites
    \/ Disconnect \/ StatusRead \/ StatusShown
    \/ \E k \in Callers : CallStarts(k) \/ GoogleAnswers(k) \/ GoogleFails(k)
                          \/ CallUpdates(k) \/ CallDeletes(k)

(* Tokens expire; the machines ask for credentials again and again, their  *)
(* calls end, and Google does not fail for ever.                           *)
TokensFair(k) ==
    \/ k = 1 /\ TokenAges
    \/ k = 2 /\ CallStarts("machine")
    \/ k = 3 /\ (CallUpdates("machine") \/ CallDeletes("machine"))
    \/ k = 4 /\ GoogleAnswers("media")
    \/ k = 5 /\ (CallUpdates("media") \/ CallDeletes("media"))

TokensFairness == (\A k \in 1 .. 5 : WF_tokenVars(TokensFair(k))) /\ SF_tokenVars(GoogleAnswers("machine"))

TokensSpec == TokensInit /\ [][TokensNext]_tokenVars /\ TokensFairness

-----------------------------------------------------------------------------
(* After a disconnect no call or callback that was under way brings a      *)
(* token back that was stored before: whatever is stored comes from        *)
(* consents whose callback wrote later.                                    *)
DisconnectSticks == token # None => {token.refresh, token.access} \subseteq kept

(* A consent that was revoked at Google does not stay: the row is removed, *)
(* so that the card offers to connect again, or holds another consent.     *)
RevokedConsentGoes ==
    (token # None /\ token.refresh \in revoked) ~> (token = None \/ token.refresh \notin revoked)

============================================================================
