------------------------------ MODULE Sessions ------------------------------
(***************************************************************************)
(* The sessions of one user: refresh tokens and the single-use codes that  *)
(* lead to them (app/modules/auth, change-password of app/modules/users).  *)
(*                                                                         *)
(* A request runs in one READ COMMITTED transaction.  It looks its token   *)
(* or code up, and some awaits later writes what it decided on that        *)
(* lookup; no row is locked in between.  "UPDATE refresh_tokens ... WHERE  *)
(* user_id" revokes the rows that are committed when the statement starts, *)
(* and takes effect at its own commit.                                     *)
(*                                                                         *)
(* A request stands also for the one refresh token it may issue.           *)
(***************************************************************************)
EXTENDS Integers, FiniteSets

CONSTANTS
  Login,      \* POST /auth/login requests
  Exchange,   \* POST /auth/google/exchange
  Refresh,    \* POST /auth/refresh
  Logout,     \* POST /auth/logout
  Change,     \* POST /users/me/change-password
  Reset,      \* POST /auth/password-reset-confirm
  Handoff,    \* OAuth handoff codes
  ResetToken, \* password reset tokens
  Nothing,    \* what a request presents before it has presented anything
  MaxRequests,\* bound on the requests that are made
  MaxExpired, \* bound on the tokens and codes that expire
  MaxCrashes  \* bound on the requests that die half way

Request == Login \cup Exchange \cup Refresh \cup Logout \cup Change \cup Reset
Token == Login \cup Exchange \cup Refresh
Code == Handoff \cup ResetToken

ASSUME SessionConstants ==
  /\ Login \cap (Exchange \cup Refresh \cup Logout \cup Change \cup Reset) = {}
  /\ Exchange \cap (Refresh \cup Logout \cup Change \cup Reset) = {}
  /\ Refresh \cap (Logout \cup Change \cup Reset) = {}
  /\ Logout \cap (Change \cup Reset) = {} /\ Change \cap Reset = {}
  /\ Handoff \cap ResetToken = {} /\ Code \cap Request = {}
  /\ Nothing \notin Request \cup Code
  /\ MaxRequests \in Nat /\ MaxExpired \in Nat /\ MaxCrashes \in Nat

VARIABLES
  row,        \* token and code rows, committed: "spent" is revoked, used
  expired,    \* the tokens and codes whose expires_at has passed
  pc,         \* where each request is
  presents,   \* the token or code a request carries
  seen,       \* the refresh tokens an UPDATE in progress revokes
  root,       \* the login or exchange a token's session began with
  outdated,   \* history: requests that looked up before the latest purge
  raced,      \* history: requests in flight while all sessions were revoked
  contested,  \* history: tokens and codes two requests carried at once
  crashes     \* requests that died so far

vars == <<row, expired, pc, presents, seen, root, outdated, raced, contested, crashes>>

Finished == {"done", "refused", "failed"}
InFlight == {"issue", "purge", "commit"}

(* A request that can still be made. *)
Fresh(r) == pc[r] = "new" /\ Cardinality({q \in Request : pc[q] # "new"}) < MaxRequests

Live == {t \in Token : row[t] = "live"}
LiveCodes == {c \in Code : row[c] = "live"}

----------------------------------------------------------------------------
(* Rules the steps are built from.  Where two resemble each other, the     *)
(* first is a defect the properties below must notice, and no step uses it.*)

(* Whether a refresh may go on to rotate the token it looked up. *)
RotatableUnlessExpired(t) == t \notin expired
Rotatable(t) == row[t] = "live" /\ t \notin expired

(* Whether a code is still good, and what it becomes. *)
UsableUnlessExpired(c) == row[c] # "none" /\ c \notin expired
Usable(c) == row[c] = "live" /\ c \notin expired

(* The tokens revoke_all_for_user and revoke_refresh_token find. *)
RevokedOnly(r) == {presents[r]} \cap Token
RevokedBy(r) ==
  {t \in Token : row[t] # "none" /\ (r \in Logout => t = presents[r])}

(* What commits beside the new token: the spent token or code. *)
IssuedAndRotated(r) ==
  [x \in DOMAIN row |-> CASE x = r -> "live"
                          [] x = presents[r] -> "rotated"
                          [] OTHER -> row[x]]
IssuedAndSpent(r) ==
  [x \in DOMAIN row |-> CASE x = r -> "live"
                          [] x = presents[r] -> "spent"
                          [] OTHER -> row[x]]

(* Another session has updated the row and not committed yet. *)
Locked(t) == \E q \in Request : pc[q] = "commit" /\ t \in seen[q]

(* A purge is between its UPDATE and its commit. *)
Purging == \E q \in Request \ Logout : pc[q] = "commit"

----------------------------------------------------------------------------
(* The lookups, made without a lock. *)

(* The requests under way that spend what they carry, as r does. *)
Rivals(r) == {q \in Request \ (Logout \cup {r}) : r \notin Logout /\ pc[q] \in InFlight}

LookUp(r, x, next) ==
  /\ pc' = [pc EXCEPT ![r] = next]
  /\ presents' = [presents EXCEPT ![r] = x]
  /\ raced' = IF Purging THEN raced \cup {r} ELSE raced
  /\ contested' =
       IF x \in Live \cup LiveCodes /\ \E q \in Rivals(r) : presents[q] = x
       THEN contested \cup {x} ELSE contested
  /\ UNCHANGED <<row, expired, seen, root, outdated, crashes>>

Refuse(r) ==
  /\ pc' = [pc EXCEPT ![r] = "refused"]
  /\ UNCHANGED <<row, expired, presents, seen, root, outdated, raced, contested, crashes>>

(* The password or the current password is right, or it is not. *)
VerifyPassword(r) ==
  /\ Fresh(r)
  /\ \/ r \in Login /\ LookUp(r, Nothing, "issue")
     \/ r \in Change /\ LookUp(r, Nothing, "purge")
     \/ r \in Login \cup Change /\ Refuse(r)

(* rotate_refresh_token: an unknown token is refused, a revoked one revokes *)
(* all, and expires_at is looked at last.                                   *)
LookUpToken(r) ==
  /\ Fresh(r) /\ r \in Refresh
  /\ \E t \in Token \ {r} :
       \/ Rotatable(t) /\ LookUp(r, t, "issue")
       \/ ~ Rotatable(t) /\ row[t] = "spent" /\ LookUp(r, t, "purge")
       \/ ~ Rotatable(t) /\ row[t] # "spent" /\ Refuse(r)

(* revoke_refresh_token looks nothing up before its UPDATE, which matches   *)
(* no row when the token is unknown.                                        *)
PresentToLogout(r) ==
  /\ Fresh(r) /\ r \in Logout
  /\ \E t \in Token : row[t] # "none" /\ LookUp(r, t, "purge")

(* consume_oauth_handoff_code and confirm_password_reset. *)
LookUpCode(r) ==
  /\ Fresh(r)
  /\ \E c \in (IF r \in Exchange THEN Handoff ELSE IF r \in Reset THEN ResetToken ELSE {}) :
       IF Usable(c) THEN LookUp(r, c, IF r \in Exchange THEN "issue" ELSE "purge")
       ELSE Refuse(r)

----------------------------------------------------------------------------
(* The writes. *)

(* issue_refresh_token, and the commit: a new token, and what it was issued *)
(* for is spent in the same transaction.  The UPDATE of an old token waits  *)
(* for another session's UPDATE of the row.                                 *)
Issue(r) ==
  /\ pc[r] = "issue" /\ ~ Locked(presents[r])
  /\ row' = IssuedAndSpent(r)
  /\ root' = [root EXCEPT ![r] = IF r \in Refresh THEN root[presents[r]] ELSE r]
  /\ pc' = [pc EXCEPT ![r] = "done"]
  /\ UNCHANGED <<expired, presents, seen, outdated, raced, contested, crashes>>

(* The UPDATE of revoke_all_for_user or revoke_refresh_token, which may wait *)
(* for rows but not find more of them meanwhile.  A password change has      *)
(* written the users row just before, and waited for that.                   *)
Revoke(r) ==
  /\ pc[r] = "purge"
  /\ r \in Change \cup Reset =>
       ~ \E q \in Change \cup Reset : pc[q] = "commit"
  /\ seen' = [seen EXCEPT ![r] = RevokedBy(r)]
  /\ pc' = [pc EXCEPT ![r] = "commit"]
  /\ raced' = IF r \in Logout THEN raced
              ELSE raced \cup {q \in Request : pc[q] \in InFlight}
  /\ UNCHANGED <<row, expired, presents, root, outdated, contested, crashes>>

CommitRevoke(r) ==
  /\ pc[r] = "commit"
  /\ row' = [x \in DOMAIN row |->
       IF x \in seen[r] \/ (r \in Reset /\ x = presents[r]) THEN "spent" ELSE row[x]]
  /\ seen' = [seen EXCEPT ![r] = {}]
  /\ outdated' = IF r \in Logout THEN outdated
                 ELSE {q \in Request : pc[q] # "new"}
  /\ pc' = [pc EXCEPT ![r] = IF r \in Refresh THEN "refused" ELSE "done"]
  /\ UNCHANGED <<expired, presents, root, raced, contested, crashes>>

(* The process dies or an exception rolls the session back. *)
Crash(r) ==
  /\ crashes < MaxCrashes
  /\ pc[r] \in InFlight
  /\ pc' = [pc EXCEPT ![r] = "failed"]
  /\ seen' = [seen EXCEPT ![r] = {}]
  /\ crashes' = crashes + 1
  /\ UNCHANGED <<row, expired, presents, root, outdated, raced, contested>>

----------------------------------------------------------------------------
(* google_callback commits a handoff code, password_reset_request a token. *)
IssueCode(c) ==
  /\ row[c] = "none"
  /\ row' = [row EXCEPT ![c] = "live"]
  /\ UNCHANGED <<expired, pc, presents, seen, root, outdated, raced, contested, crashes>>

Expire(x) ==
  /\ row[x] # "none" /\ x \notin expired /\ Cardinality(expired) < MaxExpired
  /\ expired' = expired \cup {x}
  /\ UNCHANGED <<row, pc, presents, seen, root, outdated, raced, contested, crashes>>

Init ==
  /\ row = [x \in Token \cup Code |-> "none"]
  /\ expired = {}
  /\ pc = [r \in Request |-> "new"]
  /\ presents = [r \in Request |-> Nothing]
  /\ seen = [r \in Request |-> {}]
  /\ root = [t \in Token |-> Nothing]
  /\ outdated = {}
  /\ raced = {}
  /\ contested = {}
  /\ crashes = 0

(* Nobody is in the middle of a request. *)
Rest == (\A r \in Request : pc[r] \notin InFlight) /\ UNCHANGED vars

Next ==
  \/ \E r \in Request :
       \/ VerifyPassword(r) \/ LookUpToken(r) \/ PresentToLogout(r) \/ LookUpCode(r)
       \/ Issue(r) \/ Revoke(r) \/ CommitRevoke(r) \/ Crash(r)
  \/ \E c \in Code : IssueCode(c)
  \/ \E x \in Token \cup Code : Expire(x)
  \/ Rest

Spec == Init /\ [][Next]_vars

----------------------------------------------------------------------------
(* Properties. *)

TypeOK ==
  /\ row \in [Token \cup Code -> {"none", "live", "spent"}]
  /\ expired \subseteq Token \cup Code
  /\ pc \in [Request -> {"new"} \cup InFlight \cup Finished]
  /\ presents \in [Request -> Token \cup Code \cup {Nothing}]
  /\ seen \in [Request -> SUBSET Token]
  /\ root \in [Token -> Login \cup Exchange \cup {Nothing}]
  /\ outdated \subseteq Request
  /\ raced \subseteq Request
  /\ contested \subseteq Token \cup Code
  /\ crashes \in 0..MaxCrashes

(* Rotation keeps one usable token per session ("each token is single-use"),*)
(* through retries, refreshes with old tokens, purges and crashes, unless a *)
(* token of that session was carried by two requests at once.               *)
OneLivePerSession ==
  \A s, t \in Live :
    s # t /\ root[s] = root[t]
    => \E x \in contested \cap Token : root[x] = root[s]

(* The requests that a code let through. *)
LetThrough(c) == {r \in Exchange \cup Reset : presents[r] = c /\ pc[r] = "done"}

(* A handoff code opens one session and a reset token sets one password     *)
(* ("single-use, same as every other token"), unless two requests carried   *)
(* it at once.                                                              *)
OneUsePerCode ==
  \A c \in Code \ contested : Cardinality(LetThrough(c)) <= 1

(* No session outlives a later password change, password reset or reuse of  *)
(* a spent token, unless the request that issued it was in flight meanwhile.*)
NoneOutlivesPurge == Live \cap outdated \subseteq raced

(* "Kill every existing session", without exception: a token refreshed from *)
(* a session that was there before a purge is not live after it.            *)
KillsEverySession == \A t \in Live \cap outdated : root[t] = t
=============================================================================
