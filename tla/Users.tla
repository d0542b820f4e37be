------------------------------- MODULE Users -------------------------------
(***************************************************************************)
(* Who a user is: registration, e-mail verification, the change of address *)
(* in the profile, and signing in with Google (app/modules/users and       *)
(* app/modules/auth).                                                      *)
(*                                                                         *)
(* A request runs in one READ COMMITTED transaction.  It works on the User *)
(* object it loaded, and the UPDATE at the end writes the attributes that  *)
(* differ from what was loaded, no others.  Two rows with one address or   *)
(* one google_id are refused by the unique indexes, after waiting for a    *)
(* transaction that is about to take or give up the value.                 *)
(*                                                                         *)
(* A request stands also for the one user row and the one verification     *)
(* token it may create.                                                    *)
(***************************************************************************)
EXTENDS Integers, FiniteSets

CONSTANTS
  Register,   \* POST /auth/register requests
  Callback,   \* GET /auth/google/callback
  Change,     \* PATCH /users/me with another e-mail address
  Resend,     \* POST /auth/resend-verification
  Verify,     \* POST /auth/verify-email
  Address,    \* e-mail addresses
  Google,     \* Google's account ids
  AddressOf,  \* [Google -> Address]: the address Google vouches for
  None,       \* no address, no id, nothing loaded or presented yet
  MaxRequests,\* bound on the requests that are made
  MaxCrashes  \* bound on the requests that die half way

Request == Register \cup Callback \cup Change \cup Resend \cup Verify
User == Register \cup Callback
Token == Register \cup Change \cup Resend

ASSUME UserConstants ==
  /\ Register \cap (Callback \cup Change \cup Resend \cup Verify) = {}
  /\ Callback \cap (Change \cup Resend \cup Verify) = {}
  /\ Change \cap (Resend \cup Verify) = {} /\ Resend \cap Verify = {}
  /\ AddressOf \in [Google -> Address]
  /\ None \notin Request \cup Address \cup Google
  /\ MaxRequests \in Nat /\ MaxCrashes \in Nat

VARIABLES
  email,      \* users.email, committed; None while there is no row
  google,     \* users.google_id, committed
  verified,   \* users.is_verified, committed
  token,      \* verification tokens, committed
  mailed,     \* the address the link with a token was sent to
  pc,         \* where each request is
  subject,    \* the user a request is about
  presents,   \* the address, Google id or token a request carries
  loaded,     \* the User row as the request loaded it
  proven,     \* history: the addresses each user has proved to be theirs
  signedIn,   \* history: the users each Google id has signed in
  mishap,     \* history: what has hit each user, see FaultKinds
  crashes     \* requests that died so far

vars == <<email, google, verified, token, mailed, pc, subject, presents, loaded,
          proven, signedIn, mishap, crashes>>

rows == <<email, google, verified, token>>
histories == <<proven, signedIn>>

(***************************************************************************)
(* "overlap":   a profile change and a link or a Google sign-in of the same*)
(*              user are in progress at once.                              *)
(* "old_link":  a link is followed that was sent to an address the user    *)
(*              has given up since.                                        *)
(***************************************************************************)
FaultKinds == {"overlap", "old_link"}

Finished == {"done", "refused", "failed"}
InFlight == {"look_up", "insert", "read", "confirm", "link", "issue", "flush", "commit"}

Row == [email : Address \cup {None}, google : Google \cup {None}, verified : BOOLEAN]
NoRow == [email |-> None, google |-> None, verified |-> FALSE]

RowOf(u) == [email |-> email[u], google |-> google[u], verified |-> verified[u]]

(* A request that can still be made. *)
Fresh(r) == pc[r] = "new" /\ Cardinality({q \in Request : pc[q] # "new"}) < MaxRequests

----------------------------------------------------------------------------
(* Rules the steps are built from.  Where two resemble each other, the     *)
(* first is a defect the properties below must notice, and no step uses it.*)

(* get_by_email, get_by_google_id: the committed rows with this value. *)
HasAddress(a) == {u \in User : email[u] = a}
HasGoogle(g) == {u \in User : google[u] = g}

(* is_verified after the profile change of a user that was loaded as row. *)
KeptOnChange(row, now) == now
ResetOnChange(row, now) == IF row.verified THEN FALSE ELSE now

(* google_id after a sign-in that found the user by address. *)
GoogleKept(row, g, now) == now
GoogleLinked(row, g, now) == IF row.google # g THEN g ELSE now

(* Where a request that commits before it mails may send its link. *)
MailedEarly == {"issue", "mail"}
MailedAfterCommit == {"mail"}

(* A profile change has flushed its UPDATE and not committed: the user's   *)
(* row is locked, and so are the index entries of both addresses.          *)
Flushed(q) == q \in Change /\ pc[q] = "commit"
Locked(u) == \E q \in Change : Flushed(q) /\ subject[q] = u
Contended(a) ==
  \E q \in Change : Flushed(q) /\ a \in {presents[q], email[subject[q]]}

(* Requests about one user that are in progress. *)
About(u) == {q \in Request : subject[q] = u /\ pc[q] \in InFlight}

Suffer(u, faults) == mishap' = [mishap EXCEPT ![u] = @ \cup faults]

(* A profile change, and a request that proves who has an address.         *)
Proving == Verify \cup Callback
Rivals(r, u) == {q \in About(u) : /\ {q, r} \subseteq Change \cup Proving
                                 /\ q \in Change <=> r \in Proving}
Overlap(r, u) == IF Rivals(r, u) = {} THEN {} ELSE {"overlap"}

Goto(r, step) == pc' = [pc EXCEPT ![r] = step]

Refuse(r) ==
  /\ Goto(r, "refused")
  /\ UNCHANGED <<rows, mailed, subject, presents, loaded, histories, mishap, crashes>>

Fail(r) ==
  /\ Goto(r, "failed")
  /\ UNCHANGED <<rows, mailed, subject, presents, loaded, histories, mishap, crashes>>

(* The User object of a request: what the row is when it is loaded. *)
Load(r, u) ==
  /\ subject' = [subject EXCEPT ![r] = u]
  /\ loaded' = [loaded EXCEPT ![r] = RowOf(u)]

----------------------------------------------------------------------------
(* POST /auth/register *)

(* get_by_email: an address that is taken is refused. *)
RegisterAddress(r, a) ==
  /\ Fresh(r) /\ r \in Register
  /\ IF HasAddress(a) # {} THEN Refuse(r)
     ELSE /\ Goto(r, "insert")
          /\ presents' = [presents EXCEPT ![r] = a]
          /\ UNCHANGED <<rows, mailed, subject, loaded, histories, mishap, crashes>>

(* INSERT of a user row: is_verified defaults to FALSE, and Google's word  *)
(* makes it TRUE.                                                          *)
InsertUserWithoutDefault(r, a, g) ==
  /\ email' = [email EXCEPT ![r] = a]
  /\ google' = [google EXCEPT ![r] = g]
  /\ verified' = [verified EXCEPT ![r] = IF g # None THEN TRUE ELSE None]
InsertUser(r, a, g) ==
  /\ email' = [email EXCEPT ![r] = a]
  /\ google' = [google EXCEPT ![r] = g]
  /\ verified' = [verified EXCEPT ![r] = g # None]

(* user_repo.create, issue_verification_token and the commit. *)
CommitRegistration(r) ==
  /\ r \in Register /\ pc[r] = "insert" /\ ~ Contended(presents[r])
  /\ IF HasAddress(presents[r]) # {} THEN Fail(r)
     ELSE /\ InsertUser(r, presents[r], None)
          /\ token' = [token EXCEPT ![r] = "unused"]
          /\ subject' = [subject EXCEPT ![r] = r]
          /\ Goto(r, "mail")
          /\ UNCHANGED <<mailed, presents, loaded, histories, mishap, crashes>>

(* send_verification_email.delay after the commit; a failure to queue it   *)
(* is passed over, and the process may have died.  A registration refreshes*)
(* the user first, a resend mails to the address it loaded.                *)
SendLink(r) ==
  /\ r \in Register \cup Resend /\ pc[r] \in MailedAfterCommit
  /\ \E sent \in BOOLEAN :
       mailed' = IF sent THEN [mailed EXCEPT ![r] =
                                IF r \in Register THEN email[r] ELSE loaded[r].email]
                 ELSE mailed
  /\ Goto(r, "done")
  /\ UNCHANGED <<rows, subject, presents, loaded, histories, mishap, crashes>>

----------------------------------------------------------------------------
(* POST /auth/resend-verification and PATCH /users/me *)

(* get_current_user loads the caller. *)
LoadCaller(r, u) ==
  /\ Fresh(r) /\ r \in Change \cup Resend /\ email[u] # None
  /\ Load(r, u)
  /\ IF r \in Change
     THEN \E a \in Address \ {email[u]} :
            presents' = [presents EXCEPT ![r] = a] /\ Goto(r, "look_up")
     ELSE UNCHANGED presents /\ Goto(r, IF verified[u] THEN "refused" ELSE "issue")
  /\ Suffer(u, Overlap(r, u))
  /\ UNCHANGED <<rows, mailed, histories, crashes>>

(* issue_verification_token and the commit. *)
CommitToken(r) ==
  /\ r \in Resend /\ pc[r] = "issue"
  /\ token' = [token EXCEPT ![r] = "unused"]
  /\ Goto(r, "mail")
  /\ UNCHANGED <<email, google, verified, mailed, subject, presents, loaded,
                 histories, mishap, crashes>>

(* EmailAlreadyTaken when another user has the address. *)
LookUpNewAddress(r) ==
  /\ r \in Change /\ pc[r] = "look_up"
  /\ IF HasAddress(presents[r]) \ {subject[r]} # {} THEN Refuse(r)
     ELSE /\ Goto(r, "flush")
          /\ UNCHANGED <<rows, mailed, subject, presents, loaded, histories, mishap, crashes>>

(* The flush of the UPDATE, which may wait for the row or for the index;   *)
(* then the link is mailed to the new address, before the commit.          *)
FlushChange(r) ==
  /\ r \in Change /\ pc[r] = "flush"
  /\ ~ Locked(subject[r]) /\ ~ Contended(presents[r])
  /\ IF HasAddress(presents[r]) \ {subject[r]} # {} THEN Fail(r)
     ELSE /\ \E sent \in BOOLEAN :
               mailed' = IF sent THEN [mailed EXCEPT ![r] = presents[r]] ELSE mailed
          /\ Goto(r, "commit")
          /\ UNCHANGED <<rows, subject, presents, loaded, histories, mishap, crashes>>

(* The router's commit: the address, the token, and is_verified when it    *)
(* differs from what was loaded.                                           *)
CommitChange(r) ==
  LET u == subject[r] IN
  /\ r \in Change /\ pc[r] = "commit"
  /\ email' = [email EXCEPT ![u] = presents[r]]
  /\ verified' = [verified EXCEPT ![u] = ResetOnChange(loaded[r], @)]
  /\ token' = [token EXCEPT ![r] = "unused"]
  /\ Goto(r, "done")
  /\ UNCHANGED <<google, mailed, subject, presents, loaded, histories, mishap, crashes>>

----------------------------------------------------------------------------
(* POST /auth/verify-email *)

OwnerOf(t) == subject[t]

(* confirm_verification_token: unknown, used and expired links are refused.*)
RefuseLink(r) == Fresh(r) /\ r \in Verify /\ Refuse(r)

(* The lookup of a link that somebody was mailed. *)
FollowLink(r, t) ==
  LET u == OwnerOf(t) IN
  /\ Fresh(r) /\ r \in Verify
  /\ token[t] = "unused" /\ mailed[t] # None
  /\ presents' = [presents EXCEPT ![r] = t]
  /\ subject' = [subject EXCEPT ![r] = u]
  /\ Goto(r, "read")
  /\ Suffer(u, Overlap(r, u) \cup (IF mailed[t] # email[u] THEN {"old_link"} ELSE {}))
  /\ UNCHANGED <<rows, mailed, loaded, histories, crashes>>

(* get_by_id(stored.user_id). *)
LoadOwner(r) ==
  /\ r \in Verify /\ pc[r] = "read"
  /\ Load(r, subject[r])
  /\ Goto(r, "confirm")
  /\ UNCHANGED <<rows, mailed, presents, histories, mishap, crashes>>

(* user.is_verified = True, and the commit: nothing is written to a user   *)
(* that was loaded as verified.                                            *)
CommitVerification(r) ==
  LET u == subject[r]  t == presents[r] IN
  /\ r \in Verify /\ pc[r] = "confirm" /\ ~ Locked(u)
  /\ token' = [token EXCEPT ![t] = "used"]
  /\ verified' = [verified EXCEPT ![u] = IF loaded[r].verified THEN @ ELSE TRUE]
  /\ proven' = [proven EXCEPT ![u] = @ \cup {mailed[t]}]
  /\ Goto(r, "done")
  /\ UNCHANGED <<email, google, mailed, subject, presents, loaded, signedIn, mishap, crashes>>

----------------------------------------------------------------------------
(* GET /auth/google/callback *)

SignIn(g, u) == signedIn' = [signedIn EXCEPT ![g] = @ \cup {u}]

(* The user denies access, the state does not match, or Google does not    *)
(* vouch for the address.                                                  *)
RefuseCallback(r) == Fresh(r) /\ r \in Callback /\ Refuse(r)

(* find_or_create_google_user, case 1: a user has this google_id. *)
LookUpGoogle(r, g) ==
  /\ Fresh(r) /\ r \in Callback
  /\ presents' = [presents EXCEPT ![r] = g]
  /\ IF HasGoogle(g) = {} THEN Goto(r, "look_up") /\ UNCHANGED signedIn
     ELSE Goto(r, "done") /\ \E u \in HasGoogle(g) : SignIn(g, u)
  /\ UNCHANGED <<rows, mailed, subject, loaded, proven, mishap, crashes>>

(* Case 2 when a user has the address, case 3 otherwise. *)
LookUpGoogleAddress(r) ==
  LET found == HasAddress(AddressOf[presents[r]]) IN
  /\ r \in Callback /\ pc[r] = "look_up"
  /\ \/ /\ found = {} /\ Goto(r, "insert") /\ UNCHANGED <<subject, loaded, mishap>>
     \/ \E u \in found : Load(r, u) /\ Goto(r, "link") /\ Suffer(u, Overlap(r, u))
  /\ UNCHANGED <<rows, mailed, presents, histories, crashes>>

(* Case 2: the flush and the router's commit.  A google_id that was there  *)
(* is overwritten.                                                         *)
CommitLink(r) ==
  LET u == subject[r]  g == presents[r] IN
  /\ r \in Callback /\ pc[r] = "link" /\ ~ Locked(u)
  /\ IF HasGoogle(g) \ {u} # {} THEN Fail(r)
     ELSE /\ google' = [google EXCEPT ![u] = GoogleLinked(loaded[r], g, @)]
          /\ verified' = [verified EXCEPT ![u] = IF loaded[r].verified THEN @ ELSE TRUE]
          /\ proven' = [proven EXCEPT ![u] = @ \cup {AddressOf[g]}]
          /\ SignIn(g, u)
          /\ Goto(r, "done")
          /\ UNCHANGED <<email, token, mailed, subject, presents, loaded, mishap, crashes>>

(* Case 3: the INSERT and the router's commit; a unique violation is rolled*)
(* back and redirects with google_auth_failed.                             *)
CommitGoogleUser(r) ==
  LET g == presents[r] IN
  /\ r \in Callback /\ pc[r] = "insert" /\ ~ Contended(AddressOf[g])
  /\ IF HasGoogle(g) \cup HasAddress(AddressOf[g]) # {} THEN Fail(r)
     ELSE /\ InsertUser(r, AddressOf[g], g)
          /\ subject' = [subject EXCEPT ![r] = r]
          /\ proven' = [proven EXCEPT ![r] = {AddressOf[g]}]
          /\ SignIn(g, r)
          /\ Goto(r, "done")
          /\ UNCHANGED <<token, mailed, presents, loaded, mishap, crashes>>

(* The process dies or an exception rolls the session back; what has been  *)
(* mailed stays mailed.                                                    *)
Crash(r) ==
  /\ crashes < MaxCrashes /\ pc[r] \in InFlight
  /\ Goto(r, "failed")
  /\ crashes' = crashes + 1
  /\ UNCHANGED <<rows, mailed, subject, presents, loaded, histories, mishap>>

----------------------------------------------------------------------------
Init ==
  /\ email = [u \in User |-> None]
  /\ google = [u \in User |-> None]
  /\ verified = [u \in User |-> FALSE]
  /\ token = [t \in Token |-> "none"]
  /\ mailed = [t \in Token |-> None]
  /\ pc = [r \in Request |-> "new"]
  /\ subject = [r \in Request |-> None]
  /\ presents = [r \in Request |-> None]
  /\ loaded = [r \in Request |-> NoRow]
  /\ proven = [u \in User |-> {}]
  /\ signedIn = [g \in Google |-> {}]
  /\ mishap = [u \in User |-> {}]
  /\ crashes = 0

(* Nobody is in the middle of a request. *)
Rest == (\A r \in Request : pc[r] \in {"new"} \cup Finished) /\ UNCHANGED vars

RegisterStep(r) == (\E a \in Address : RegisterAddress(r, a)) \/ CommitRegistration(r)

ProfileStep(r) ==
  \/ \E u \in User : LoadCaller(r, u)
  \/ CommitToken(r) \/ LookUpNewAddress(r) \/ FlushChange(r) \/ CommitChange(r)

VerifyStep(r) ==
  \/ \E t \in Token : FollowLink(r, t)
  \/ RefuseLink(r) \/ LoadOwner(r) \/ CommitVerification(r)

CallbackStep(r) ==
  \/ \E g \in Google : LookUpGoogle(r, g)
  \/ RefuseCallback(r) \/ LookUpGoogleAddress(r) \/ CommitLink(r) \/ CommitGoogleUser(r)

Next ==
  \/ \E r \in Request : \/ RegisterStep(r) \/ SendLink(r) \/ ProfileStep(r)
                        \/ VerifyStep(r) \/ CallbackStep(r) \/ Crash(r)
  \/ Rest

Spec == Init /\ [][Next]_vars

----------------------------------------------------------------------------
(* Properties. *)

TypeOK ==
  /\ email \in [User -> Address \cup {None}]
  /\ google \in [User -> Google \cup {None}]
  /\ verified \in [User -> BOOLEAN]
  /\ token \in [Token -> {"none", "unused", "used"}]
  /\ mailed \in [Token -> Address \cup {None}]
  /\ pc \in [Request -> {"new", "mail"} \cup InFlight \cup Finished]
  /\ subject \in [Request -> User \cup {None}]
  /\ presents \in [Request -> Address \cup Google \cup Token \cup {None}]
  /\ loaded \in [Request -> Row]
  /\ proven \in [User -> SUBSET Address]
  /\ signedIn \in [Google -> SUBSET User]
  /\ mishap \in [User -> SUBSET FaultKinds]
  /\ crashes \in 0..MaxCrashes

(* The flag that lets a user send money is about the address the user has: *)
(* it was proved by a link mailed there or by Google.  Exempt: a link that *)
(* was followed after the address it was sent to had been given up (the    *)
(* token does not say which address it is for), and users whose change of  *)
(* address was in progress together with a link or a Google sign-in.       *)
(* Changes that overlap one another, a link that overlaps a sign-in, and   *)
(* mails that are sent meanwhile are not exempt.                           *)
VerifiedIsProven ==
  \A u \in User : verified[u] /\ mishap[u] = {} => email[u] \in proven[u]

(* A Google account always signs in the same user, through registrations,  *)
(* changes of address and callbacks in any order, unless another Google    *)
(* account has been linked to that user in its place.                      *)
SignsInSameUser ==
  \A g \in Google :
    \/ \A u, v \in signedIn[g] : u = v
    \/ \E h \in Google \ {g} : signedIn[g] \cap signedIn[h] # {}

(* Every link that was mailed has its token in the database.  The profile  *)
(* change alone mails first and commits afterwards: its link can come too  *)
(* early, and one whose commit never happens is good for nothing.          *)
LinksAreCommitted ==
  \A t \in Token :
    mailed[t] # None /\ token[t] = "none" => t \in Change /\ pc[t] \in {"commit", "failed"}
=============================================================================
