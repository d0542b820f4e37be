----------------------------- MODULE UsersProofs -----------------------------
(***************************************************************************)
(* Proofs about Users, for any number of requests, addresses and Google    *)
(* accounts.                                                               *)
(***************************************************************************)
EXTENDS Users, TLAPS

USE UserConstants DEF Request, User, Token, InFlight, Finished

(* The branches of the steps in which a request goes on, and the end of a  *)
(* request that is refused, fails or dies.                                 *)
Ended(r) ==
  /\ pc[r] \in {"new"} \cup InFlight
  /\ Goto(r, "failed") \/ (pc[r] \in {"new", "look_up"} /\ Goto(r, "refused"))
  /\ crashes' \in 0..MaxCrashes
  /\ UNCHANGED <<rows, mailed, subject, presents, loaded, histories, mishap>>

Asked(r, a) == RegisterAddress(r, a) /\ HasAddress(a) = {}
Registered(r) == CommitRegistration(r) /\ HasAddress(presents[r]) = {}
Available(r) == HasAddress(presents[r]) \ {subject[r]} = {}
Looked(r) == LookUpNewAddress(r) /\ Available(r)
Flushing(r) == FlushChange(r) /\ Available(r)
Linked(r) == CommitLink(r) /\ HasGoogle(presents[r]) \ {subject[r]} = {}
Created(r) == CommitGoogleUser(r)
              /\ HasGoogle(presents[r]) \cup HasAddress(AddressOf[presents[r]]) = {}

(* Where each kind of request can be, and what it has by then.             *)
RegisterPlaced ==
  \A r \in Register :
    /\ pc[r] \in {"new", "insert", "mail"} \cup Finished
    /\ pc[r] = "insert" => presents[r] \in Address
    /\ pc[r] \in {"mail", "done"} => /\ email[r] # None /\ subject[r] = r
                                     /\ token[r] # "none"

CallbackPlaced ==
  \A r \in Callback :
    /\ pc[r] \in {"new", "look_up", "insert", "link"} \cup Finished
    /\ pc[r] \in {"look_up", "insert", "link"} => presents[r] \in Google
    /\ pc[r] = "link" => /\ subject[r] \in User /\ email[subject[r]] # None
                         /\ loaded[r].email = AddressOf[presents[r]]

ChangePlaced ==
  \A r \in Change :
    /\ pc[r] \in {"new", "look_up", "flush", "commit"} \cup Finished
    /\ pc[r] \in {"look_up", "flush", "commit"} =>
         presents[r] \in Address /\ subject[r] \in User /\ email[subject[r]] # None
    /\ pc[r] = "done" => token[r] # "none"

ResendPlaced ==
  \A r \in Resend :
    /\ pc[r] \in {"new", "issue", "mail"} \cup Finished
    /\ pc[r] \in {"issue", "mail"} =>
         subject[r] \in User /\ email[subject[r]] # None /\ loaded[r].email # None
    /\ pc[r] \in {"mail", "done"} => token[r] # "none"

VerifyPlaced ==
  \A r \in Verify :
    /\ pc[r] \in {"new", "read", "confirm"} \cup Finished
    /\ pc[r] \in {"read", "confirm"} =>
         /\ presents[r] \in Token /\ mailed[presents[r]] # None
         /\ subject[r] \in User /\ email[subject[r]] # None

(* A user row is there once the request that creates it has committed, and *)
(* a token is about a user who is there.                                   *)
RowsPlaced ==
  /\ \A u \in User : email[u] # None => pc[u] \in {"mail", "done"}
  /\ \A t \in Token : mailed[t] # None \/ token[t] # "none" =>
       subject[t] \in User /\ email[subject[t]] # None

(* A link is mailed once: by a profile change when it is flushed, otherwise*)
(* when its token is committed.                                            *)
MailedOnce ==
  \A t \in Token : mailed[t] # None =>
    \/ t \in Register \cup Resend /\ pc[t] = "done"
    \/ t \in Change /\ pc[t] \in {"commit", "failed", "done"}

Placed == /\ RegisterPlaced /\ CallbackPlaced /\ ChangePlaced /\ ResendPlaced
          /\ VerifyPlaced /\ RowsPlaced /\ MailedOnce

Shape == TypeOK /\ Placed

----------------------------------------------------------------------------
LEMMA Steps ==
  ASSUME TypeOK, [Next]_vars
  PROVE  \/ \E r \in Request :
              \/ Ended(r)
              \/ \E a \in Address : Asked(r, a)
              \/ Registered(r) \/ SendLink(r)
              \/ \E u \in User : LoadCaller(r, u)
              \/ CommitToken(r) \/ Looked(r) \/ Flushing(r) \/ CommitChange(r)
              \/ \E t \in Token : FollowLink(r, t)
              \/ LoadOwner(r) \/ CommitVerification(r)
              \/ \E g \in Google : LookUpGoogle(r, g)
              \/ LookUpGoogleAddress(r) \/ Linked(r) \/ Created(r)
         \/ UNCHANGED vars
<1>1. ASSUME NEW r \in Request,
             \/ Refuse(r) /\ pc[r] \in {"new", "look_up"}
             \/ Fail(r) /\ pc[r] \in InFlight
      PROVE  Ended(r)
  BY <1>1 DEF Refuse, Fail, Ended, Goto, TypeOK
<1>2. ASSUME NEW r \in Request, Crash(r) PROVE Ended(r)
  BY <1>2 DEF Crash, Ended, Goto, TypeOK
<1>3. ASSUME NEW r \in Request, NEW a \in Address, RegisterAddress(r, a)
      PROVE  Ended(r) \/ Asked(r, a)
  BY <1>1, <1>3 DEF RegisterAddress, Asked, Fresh
<1>4. ASSUME NEW r \in Request, CommitRegistration(r) PROVE Ended(r) \/ Registered(r)
  BY <1>1, <1>4 DEF CommitRegistration, Registered
<1>5. ASSUME NEW r \in Request, LookUpNewAddress(r) PROVE Ended(r) \/ Looked(r)
  BY <1>1, <1>5 DEF LookUpNewAddress, Looked, Available
<1>6. ASSUME NEW r \in Request, FlushChange(r) PROVE Ended(r) \/ Flushing(r)
  BY <1>1, <1>6 DEF FlushChange, Flushing, Available
<1>7. ASSUME NEW r \in Request, RefuseLink(r) \/ RefuseCallback(r) PROVE Ended(r)
  BY <1>1, <1>7 DEF RefuseLink, RefuseCallback, Fresh
<1>8. ASSUME NEW r \in Request, CommitLink(r) PROVE Ended(r) \/ Linked(r)
  BY <1>1, <1>8 DEF CommitLink, Linked
<1>9. ASSUME NEW r \in Request, CommitGoogleUser(r) PROVE Ended(r) \/ Created(r)
  BY <1>1, <1>9 DEF CommitGoogleUser, Created
<1>10. CASE Next
  <2>1. CASE Rest
    BY <2>1 DEF Rest
  <2>2. ASSUME NEW r \in Request, \/ RegisterStep(r) \/ SendLink(r) \/ ProfileStep(r)
                                  \/ VerifyStep(r) \/ CallbackStep(r) \/ Crash(r)
        PROVE  \/ Ended(r)
               \/ \E a \in Address : Asked(r, a)
               \/ Registered(r) \/ SendLink(r)
               \/ \E u \in User : LoadCaller(r, u)
               \/ CommitToken(r) \/ Looked(r) \/ Flushing(r) \/ CommitChange(r)
               \/ \E t \in Token : FollowLink(r, t)
               \/ LoadOwner(r) \/ CommitVerification(r)
               \/ \E g \in Google : LookUpGoogle(r, g)
               \/ LookUpGoogleAddress(r) \/ Linked(r) \/ Created(r)
    <3>1. CASE RegisterStep(r)
      BY <1>3, <1>4, <3>1 DEF RegisterStep
    <3>2. CASE ProfileStep(r)
      BY <1>5, <1>6, <3>2 DEF ProfileStep
    <3>3. CASE VerifyStep(r)
      BY <1>7, <3>3 DEF VerifyStep
    <3>4. CASE CallbackStep(r)
      BY <1>7, <1>8, <1>9, <3>4 DEF CallbackStep
    <3> QED  BY <1>2, <2>2, <3>1, <3>2, <3>3, <3>4
  <2> QED  BY <1>10, <2>1, <2>2 DEF Next
<1> QED  BY <1>10

----------------------------------------------------------------------------
(* Type correctness.                                                       *)
LEMMA TypeNext == Shape /\ [Next]_vars => TypeOK'
<1> SUFFICES ASSUME Shape, [Next]_vars PROVE TypeOK'
  OBVIOUS
<1> USE DEF Shape, TypeOK, Goto, rows, histories, Row, FaultKinds
<1>1. ASSUME NEW r \in Request, Ended(r) PROVE TypeOK'
  BY <1>1, SMTT(30) DEF Ended
<1>2. ASSUME NEW r \in Request, NEW a \in Address, Asked(r, a) PROVE TypeOK'
  <2>1. /\ pc' = [pc EXCEPT ![r] = "insert"] /\ presents' = [presents EXCEPT ![r] = a]
        /\ UNCHANGED <<rows, mailed, subject, loaded, histories, mishap, crashes>>
    BY <1>2 DEF Asked, RegisterAddress
  <2> QED  BY <2>1
<1>3. ASSUME NEW r \in Request, Registered(r) PROVE TypeOK'
  <2>1. /\ pc' = [pc EXCEPT ![r] = "mail"] /\ subject' = [subject EXCEPT ![r] = r]
        /\ r \in Register /\ presents[r] \in Address /\ InsertUser(r, presents[r], None)
        /\ token' = [token EXCEPT ![r] = "unused"]
        /\ UNCHANGED <<mailed, presents, loaded, histories, mishap, crashes>>
    BY <1>3 DEF Registered, CommitRegistration, Placed, RegisterPlaced
  <2>2. /\ email' \in [User -> Address \cup {None}] /\ google' \in [User -> Google \cup {None}]
        /\ verified' \in [User -> BOOLEAN]
    BY <2>1 DEF InsertUser
  <2>3. token' \in [Token -> {"none", "unused", "used"}]
    BY <2>1
  <2> QED  BY <2>1, <2>2, <2>3
<1>4. ASSUME NEW r \in Request, SendLink(r) PROVE TypeOK'
  BY <1>4 DEF SendLink
<1>5. ASSUME NEW r \in Request, NEW u \in User, LoadCaller(r, u) PROVE TypeOK'
  <2>1. /\ \E to \in {"look_up", "refused", "issue"} : pc' = [pc EXCEPT ![r] = to]
        /\ presents' = presents \/ \E a \in Address : presents' = [presents EXCEPT ![r] = a]
        /\ Load(r, u) /\ Suffer(u, Overlap(r, u))
        /\ UNCHANGED <<rows, mailed, histories, crashes>>
    BY <1>5 DEF LoadCaller
  <2>2. loaded' \in [Request -> Row] /\ subject' \in [Request -> User \cup {None}]
    BY <2>1 DEF Load, RowOf
  <2>3. mishap' \in [User -> SUBSET FaultKinds]
    BY <2>1 DEF Suffer, Overlap
  <2>4. presents' \in [Request -> Address \cup Google \cup Token \cup {None}]
    BY <2>1, SMTT(30)
  <2>5. pc' \in [Request -> {"new", "mail"} \cup InFlight \cup Finished]
    BY <2>1
  <2> QED  BY <2>1, <2>2, <2>3, <2>4, <2>5
<1>6. ASSUME NEW r \in Request, CommitToken(r) PROVE TypeOK'
  BY <1>6 DEF CommitToken
<1>7. ASSUME NEW r \in Request, Looked(r) PROVE TypeOK'
  BY <1>7 DEF Looked, LookUpNewAddress, Available
<1>8. ASSUME NEW r \in Request, Flushing(r) PROVE TypeOK'
  <2>1. /\ pc' = [pc EXCEPT ![r] = "commit"] /\ r \in Change /\ presents[r] \in Address
        /\ mailed' = mailed \/ mailed' = [mailed EXCEPT ![r] = presents[r]]
        /\ UNCHANGED <<rows, subject, presents, loaded, histories, mishap, crashes>>
    BY <1>8 DEF Flushing, FlushChange, Available, Placed, ChangePlaced
  <2> QED  BY <2>1
<1>9. ASSUME NEW r \in Request, CommitChange(r) PROVE TypeOK'
  BY <1>9 DEF CommitChange, ResetOnChange, Placed, ChangePlaced
<1>10. ASSUME NEW r \in Request, NEW t \in Token, FollowLink(r, t) PROVE TypeOK'
  BY <1>10 DEF FollowLink, OwnerOf, Suffer, Overlap, Placed, RowsPlaced
<1>11. ASSUME NEW r \in Request, LoadOwner(r) PROVE TypeOK'
  BY <1>11 DEF LoadOwner, Load, RowOf, Placed, VerifyPlaced
<1>12. ASSUME NEW r \in Request, CommitVerification(r) PROVE TypeOK'
  <2>1. /\ pc' = [pc EXCEPT ![r] = "done"] /\ subject[r] \in User /\ presents[r] \in Token
        /\ mailed[presents[r]] \in Address
        /\ token' = [token EXCEPT ![presents[r]] = "used"]
        /\ verified' = [verified EXCEPT ![subject[r]] =
                          IF loaded[r].verified THEN verified[subject[r]] ELSE TRUE]
        /\ proven' = [proven EXCEPT ![subject[r]] =
                        proven[subject[r]] \cup {mailed[presents[r]]}]
        /\ UNCHANGED <<email, google, mailed, subject, presents, loaded, signedIn, mishap,
                       crashes>>
    BY <1>12 DEF CommitVerification, Placed, VerifyPlaced
  <2>2. verified' \in [User -> BOOLEAN]
    BY <2>1
  <2>3. proven' \in [User -> SUBSET Address]
    BY <2>1
  <2> QED  BY <2>1, <2>2, <2>3
<1>13. ASSUME NEW r \in Request, NEW g \in Google, LookUpGoogle(r, g) PROVE TypeOK'
  <2>1. /\ \E to \in {"look_up", "done"} : pc' = [pc EXCEPT ![r] = to]
        /\ presents' = [presents EXCEPT ![r] = g]
        /\ UNCHANGED signedIn \/ \E u \in User : SignIn(g, u)
        /\ UNCHANGED <<rows, mailed, subject, loaded, proven, mishap, crashes>>
    BY <1>13 DEF LookUpGoogle, HasGoogle
  <2>2. signedIn' \in [Google -> SUBSET User]
    BY <2>1 DEF SignIn
  <2>3. pc' \in [Request -> {"new", "mail"} \cup InFlight \cup Finished]
    BY <2>1
  <2>4. presents' \in [Request -> Address \cup Google \cup Token \cup {None}]
    BY <2>1
  <2> QED  BY <2>1, <2>2, <2>3, <2>4
<1>14. ASSUME NEW r \in Request, LookUpGoogleAddress(r) PROVE TypeOK'
  <2>1. /\ \E to \in {"insert", "link"} : pc' = [pc EXCEPT ![r] = to]
        /\ \/ UNCHANGED <<subject, loaded, mishap>>
           \/ \E u \in User : Load(r, u) /\ Suffer(u, Overlap(r, u))
        /\ UNCHANGED <<rows, mailed, presents, histories, crashes>>
    BY <1>14 DEF LookUpGoogleAddress, HasAddress
  <2>2. ASSUME NEW u \in User, Load(r, u)
        PROVE  loaded' \in [Request -> Row] /\ subject' \in [Request -> User \cup {None}]
    BY <2>2 DEF Load, RowOf
  <2>3. mishap' \in [User -> SUBSET FaultKinds]
    BY <2>1 DEF Suffer, Overlap
  <2>4. loaded' \in [Request -> Row] /\ subject' \in [Request -> User \cup {None}]
    BY <2>1, <2>2
  <2> QED  BY <2>1, <2>3, <2>4
<1>15. ASSUME NEW r \in Request, Linked(r) PROVE TypeOK'
  <2> DEFINE u == subject[r]
             g == presents[r]
  <2>1. u \in User /\ g \in Google
    BY <1>15 DEF Linked, CommitLink, Placed, CallbackPlaced
  <2>2. /\ pc' = [pc EXCEPT ![r] = "done"]
        /\ google' = [google EXCEPT ![u] = GoogleLinked(loaded[r], g, google[u])]
        /\ verified' = [verified EXCEPT ![u] = IF loaded[r].verified THEN verified[u] ELSE TRUE]
        /\ proven' = [proven EXCEPT ![u] = proven[u] \cup {AddressOf[g]}]
        /\ SignIn(g, u)
        /\ UNCHANGED <<email, token, mailed, subject, presents, loaded, mishap, crashes>>
    BY <1>15 DEF Linked, CommitLink
  <2>3. google' \in [User -> Google \cup {None}]
    BY <2>1, <2>2 DEF GoogleLinked
  <2>4. verified' \in [User -> BOOLEAN]
    BY <2>1, <2>2
  <2>5. proven' \in [User -> SUBSET Address]
    BY <2>1, <2>2
  <2>6. signedIn' \in [Google -> SUBSET User]
    BY <2>1, <2>2 DEF SignIn
  <2> QED  BY <2>2, <2>3, <2>4, <2>5, <2>6
<1>16. ASSUME NEW r \in Request, Created(r) PROVE TypeOK'
  <2> DEFINE g == presents[r]
  <2>1. r \in Callback /\ g \in Google /\ AddressOf[g] \in Address
    BY <1>16 DEF Created, CommitGoogleUser, Placed, CallbackPlaced
  <2>2. /\ pc' = [pc EXCEPT ![r] = "done"] /\ subject' = [subject EXCEPT ![r] = r]
        /\ InsertUser(r, AddressOf[g], g)
        /\ proven' = [proven EXCEPT ![r] = {AddressOf[g]}]
        /\ SignIn(g, r)
        /\ UNCHANGED <<token, mailed, presents, loaded, mishap, crashes>>
    BY <1>16 DEF Created, CommitGoogleUser
  <2>3. /\ email' \in [User -> Address \cup {None}] /\ google' \in [User -> Google \cup {None}]
        /\ verified' \in [User -> BOOLEAN]
    BY <2>1, <2>2 DEF InsertUser
  <2>4. proven' \in [User -> SUBSET Address] /\ signedIn' \in [Google -> SUBSET User]
    BY <2>1, <2>2 DEF SignIn
  <2> QED  BY <2>1, <2>2, <2>3, <2>4
<1>17. CASE UNCHANGED vars
  BY <1>17 DEF vars
<1> QED  BY Steps, <1>1, <1>2, <1>3, <1>4, <1>5, <1>6, <1>7, <1>8, <1>9, <1>10, <1>11,
            <1>12, <1>13, <1>14, <1>15, <1>16, <1>17

----------------------------------------------------------------------------
(* The places.  A step is one request's, and leaves the others as they are;*)
(* rows, tokens and mails do not go away.                                  *)
Moves(r) ==
  \/ Ended(r)
  \/ \E a \in Address : Asked(r, a)
  \/ Registered(r) \/ SendLink(r)
  \/ \E u \in User : LoadCaller(r, u)
  \/ CommitToken(r) \/ Looked(r) \/ Flushing(r) \/ CommitChange(r)
  \/ \E t \in Token : FollowLink(r, t)
  \/ LoadOwner(r) \/ CommitVerification(r)
  \/ \E g \in Google : LookUpGoogle(r, g)
  \/ LookUpGoogleAddress(r) \/ Linked(r) \/ Created(r)

Same(q) ==
  /\ pc'[q] = pc[q] /\ subject'[q] = subject[q]
  /\ presents'[q] = presents[q] /\ loaded'[q] = loaded[q]
  /\ q \in User => (email'[q] # None => email[q] # None)
  /\ q \in Token => /\ mailed'[q] = mailed[q]
                    /\ token'[q] # "none" => token[q] # "none" \/ mailed[q] # None

Lasting ==
  /\ \A u \in User : email[u] # None => email'[u] # None
  /\ \A t \in Token : /\ mailed[t] # None => mailed'[t] # None
                      /\ token[t] # "none" => token'[t] # "none"

LEMMA OneMoves ==
  ASSUME Shape, [Next]_vars
  PROVE  \/ \E r \in Request : Moves(r)
         \/ UNCHANGED vars
  BY Steps DEF Shape, Moves

LEMMA Movement ==
  ASSUME Shape, NEW r \in Request, Moves(r)
  PROVE  Lasting /\ \A q \in Request \ {r} : Same(q)
<1> USE DEF Shape, TypeOK, Goto, rows, histories, Same, Lasting
<1>1. CASE Ended(r)
  BY <1>1 DEF Ended
<1>2. ASSUME NEW a \in Address, Asked(r, a) PROVE Lasting /\ \A q \in Request \ {r} : Same(q)
  BY <1>2 DEF Asked, RegisterAddress
<1>3. CASE Registered(r)
  <2>1. /\ pc' = [pc EXCEPT ![r] = "mail"] /\ subject' = [subject EXCEPT ![r] = r]
        /\ r \in Register /\ presents[r] \in Address
        /\ email' = [email EXCEPT ![r] = presents[r]]
        /\ token' = [token EXCEPT ![r] = "unused"]
        /\ UNCHANGED <<mailed, presents, loaded>>
    BY <1>3 DEF Registered, CommitRegistration, InsertUser, Placed, RegisterPlaced
  <2> QED  BY <2>1
<1>4. CASE SendLink(r)
  <2>1. r \in Register => email[r] # None
    BY <1>4 DEF SendLink, MailedAfterCommit, Placed, RegisterPlaced
  <2>2. r \in Resend => loaded[r].email # None
    BY <1>4 DEF SendLink, MailedAfterCommit, Placed, ResendPlaced
  <2>3. /\ r \in Register \cup Resend /\ pc' = [pc EXCEPT ![r] = "done"]
        /\ \/ mailed' = mailed
           \/ r \in Register /\ mailed' = [mailed EXCEPT ![r] = email[r]]
           \/ r \in Resend /\ mailed' = [mailed EXCEPT ![r] = loaded[r].email]
        /\ UNCHANGED <<rows, subject, presents, loaded>>
    BY <1>4 DEF SendLink
  <2> QED  BY <2>1, <2>2, <2>3
<1>5. ASSUME NEW u \in User, LoadCaller(r, u)
      PROVE  Lasting /\ \A q \in Request \ {r} : Same(q)
  <2>1. /\ \E to \in {"look_up", "refused", "issue"} : pc' = [pc EXCEPT ![r] = to]
        /\ presents' = presents \/ \E a \in Address : presents' = [presents EXCEPT ![r] = a]
        /\ Load(r, u) /\ UNCHANGED <<rows, mailed>>
    BY <1>5 DEF LoadCaller
  <2> QED  BY <2>1 DEF Load
<1>6. CASE CommitToken(r)
  BY <1>6 DEF CommitToken
<1>7. CASE Looked(r)
  BY <1>7 DEF Looked, LookUpNewAddress, Available
<1>8. CASE Flushing(r)
  <2>1. /\ pc' = [pc EXCEPT ![r] = "commit"] /\ r \in Change /\ presents[r] \in Address
        /\ mailed' = mailed \/ mailed' = [mailed EXCEPT ![r] = presents[r]]
        /\ UNCHANGED <<rows, subject, presents, loaded>>
    BY <1>8 DEF Flushing, FlushChange, Available, Placed, ChangePlaced
  <2> QED  BY <2>1
<1>9. CASE CommitChange(r)
  <2>1. /\ r \in Change /\ presents[r] \in Address /\ subject[r] \in User
        /\ email[subject[r]] # None
    BY <1>9 DEF CommitChange, Placed, ChangePlaced
  <2>2. /\ pc' = [pc EXCEPT ![r] = "done"]
        /\ email' = [email EXCEPT ![subject[r]] = presents[r]]
        /\ token' = [token EXCEPT ![r] = "unused"]
        /\ UNCHANGED <<mailed, subject, presents, loaded>>
    BY <1>9 DEF CommitChange
  <2> QED  BY <2>1, <2>2
<1>10. ASSUME NEW t \in Token, FollowLink(r, t)
       PROVE  Lasting /\ \A q \in Request \ {r} : Same(q)
  BY <1>10 DEF FollowLink
<1>11. CASE LoadOwner(r)
  BY <1>11 DEF LoadOwner, Load
<1>12. CASE CommitVerification(r)
  <2>1. presents[r] \in Token /\ mailed[presents[r]] # None
    BY <1>12 DEF CommitVerification, Placed, VerifyPlaced
  <2>2. /\ pc' = [pc EXCEPT ![r] = "done"] /\ token' = [token EXCEPT ![presents[r]] = "used"]
        /\ UNCHANGED <<email, mailed, subject, presents, loaded>>
    BY <1>12 DEF CommitVerification
  <2> QED  BY <2>1, <2>2
<1>13. ASSUME NEW g \in Google, LookUpGoogle(r, g)
       PROVE  Lasting /\ \A q \in Request \ {r} : Same(q)
  <2>1. /\ \E to \in {"look_up", "done"} : pc' = [pc EXCEPT ![r] = to]
        /\ presents' = [presents EXCEPT ![r] = g]
        /\ UNCHANGED <<rows, mailed, subject, loaded>>
    BY <1>13 DEF LookUpGoogle
  <2> QED  BY <2>1
<1>14. CASE LookUpGoogleAddress(r)
  <2>1. /\ \E to \in {"insert", "link"} : pc' = [pc EXCEPT ![r] = to]
        /\ UNCHANGED <<subject, loaded>> \/ \E u \in User : Load(r, u)
        /\ UNCHANGED <<rows, mailed, presents>>
    BY <1>14 DEF LookUpGoogleAddress, HasAddress
  <2> QED  BY <2>1 DEF Load
<1>15. CASE Linked(r)
  <2>1. /\ pc' = [pc EXCEPT ![r] = "done"]
        /\ UNCHANGED <<email, token, mailed, subject, presents, loaded>>
    BY <1>15 DEF Linked, CommitLink
  <2> QED  BY <2>1
<1>16. CASE Created(r)
  <2>1. r \in Callback /\ presents[r] \in Google /\ AddressOf[presents[r]] \in Address
    BY <1>16 DEF Created, CommitGoogleUser, Placed, CallbackPlaced
  <2>2. /\ pc' = [pc EXCEPT ![r] = "done"] /\ subject' = [subject EXCEPT ![r] = r]
        /\ email' = [email EXCEPT ![r] = AddressOf[presents[r]]]
        /\ UNCHANGED <<token, mailed, presents, loaded>>
    BY <1>16 DEF Created, CommitGoogleUser, InsertUser
  <2> QED  BY <2>1, <2>2
<1> QED  BY <1>1, <1>2, <1>3, <1>4, <1>5, <1>6, <1>7, <1>8, <1>9, <1>10, <1>11, <1>12,
            <1>13, <1>14, <1>15, <1>16 DEF Moves

LEMMA RegisterKept ==
  ASSUME Shape, NEW r \in Request, Moves(r) PROVE RegisterPlaced'
<1> SUFFICES ASSUME NEW q \in Register
             PROVE  /\ pc'[q] \in {"new", "insert", "mail"} \cup Finished
                    /\ pc'[q] = "insert" => presents'[q] \in Address
                    /\ pc'[q] \in {"mail", "done"} => /\ email'[q] # None /\ subject'[q] = q
                                                      /\ token'[q] # "none"
  BY DEF RegisterPlaced
<1> USE DEF Shape, TypeOK, Goto, rows, Placed, RegisterPlaced
<1>1. CASE q # r
  BY <1>1, Movement DEF Same, Lasting
<1>2. CASE q = r /\ Ended(r)
  BY <1>2 DEF Ended
<1>3. ASSUME q = r, NEW a \in Address, Asked(r, a)
      PROVE  pc'[q] = "insert" /\ presents'[q] \in Address
  BY <1>3 DEF Asked, RegisterAddress
<1>4. CASE q = r /\ Registered(r)
  <2>1. presents[r] \in Address
    BY <1>4 DEF Registered, CommitRegistration
  <2>2. /\ pc'[q] = "mail" /\ subject'[q] = q /\ token'[q] = "unused"
        /\ email'[q] = presents[r]
    BY <1>4 DEF Registered, CommitRegistration, InsertUser
  <2> QED  BY <2>1, <2>2
<1>5. CASE q = r /\ SendLink(r)
  BY <1>5 DEF SendLink, MailedAfterCommit
<1>6. CASE q = r
  BY <1>2, <1>3, <1>4, <1>5, <1>6 DEF Moves, LoadCaller, CommitToken, Looked,
     LookUpNewAddress, Flushing, FlushChange, CommitChange, FollowLink, LoadOwner, Placed,
     VerifyPlaced, CommitVerification, LookUpGoogle, LookUpGoogleAddress, Linked, CommitLink,
     Created, CommitGoogleUser
<1> QED  BY <1>1, <1>6

LEMMA CallbackKept ==
  ASSUME Shape, NEW r \in Request, Moves(r) PROVE CallbackPlaced'
<1> SUFFICES ASSUME NEW q \in Callback
             PROVE  /\ pc'[q] \in {"new", "look_up", "insert", "link"} \cup Finished
                    /\ pc'[q] \in {"look_up", "insert", "link"} => presents'[q] \in Google
                    /\ pc'[q] = "link" =>
                         /\ subject'[q] \in User /\ email'[subject'[q]] # None
                         /\ loaded'[q].email = AddressOf[presents'[q]]
  BY DEF CallbackPlaced
<1> USE DEF Shape, TypeOK, Goto, rows, Placed, CallbackPlaced
<1>1. CASE q # r
  BY <1>1, Movement DEF Same, Lasting
<1>2. CASE q = r /\ Ended(r)
  BY <1>2 DEF Ended
<1>3. ASSUME q = r, NEW g \in Google, LookUpGoogle(r, g)
      PROVE  pc'[q] \in {"look_up", "done"} /\ presents'[q] \in Google
  BY <1>3 DEF LookUpGoogle
<1>4. CASE q = r /\ LookUpGoogleAddress(r)
  <2>1. presents[r] \in Google /\ presents' = presents /\ email' = email
        /\ AddressOf[presents[r]] \in Address
    BY <1>4 DEF LookUpGoogleAddress
  <2>2. CASE pc' = [pc EXCEPT ![r] = "insert"]
    BY <1>4, <2>1, <2>2
  <2>3. CASE \E u \in User : email[u] = AddressOf[presents[r]] /\ Load(r, u)
                             /\ pc' = [pc EXCEPT ![r] = "link"]
    BY <1>4, <2>1, <2>3 DEF Load, RowOf
  <2> QED  BY <1>4, <2>2, <2>3 DEF LookUpGoogleAddress, HasAddress
<1>5. CASE q = r /\ (Linked(r) \/ Created(r))
  <2>1. pc' = [pc EXCEPT ![r] = "done"]
    BY <1>5 DEF Linked, CommitLink, Created, CommitGoogleUser
  <2> QED  BY <1>5, <2>1
<1>6. CASE q = r
  BY <1>2, <1>3, <1>4, <1>5, <1>6 DEF Moves, LoadCaller, CommitToken, Looked,
     LookUpNewAddress, Flushing, FlushChange, CommitChange, FollowLink, LoadOwner,
     CommitVerification, Asked, RegisterAddress, Registered, CommitRegistration, SendLink
<1> QED  BY <1>1, <1>6

LEMMA ChangeKept ==
  ASSUME Shape, NEW r \in Request, Moves(r) PROVE ChangePlaced'
<1> SUFFICES ASSUME NEW q \in Change
             PROVE  /\ pc'[q] \in {"new", "look_up", "flush", "commit"} \cup Finished
                    /\ pc'[q] \in {"look_up", "flush", "commit"} =>
                         presents'[q] \in Address /\ subject'[q] \in User
                         /\ email'[subject'[q]] # None
                    /\ pc'[q] = "done" => token'[q] # "none"
  BY DEF ChangePlaced
<1> USE DEF Shape, TypeOK, Goto, rows, Placed, ChangePlaced
<1>1. CASE q # r
  BY <1>1, Movement DEF Same, Lasting
<1>2. CASE q = r /\ Ended(r)
  BY <1>2 DEF Ended
<1>3. ASSUME q = r, NEW u \in User, LoadCaller(r, u)
      PROVE  /\ pc'[q] = "look_up" /\ presents'[q] \in Address
             /\ subject'[q] = u /\ email'[u] # None
  BY <1>3 DEF LoadCaller, Load
<1>4. CASE q = r /\ Looked(r)
  BY <1>4 DEF Looked, LookUpNewAddress, Available
<1>5. CASE q = r /\ Flushing(r)
  BY <1>5 DEF Flushing, FlushChange, Available
<1>6. CASE q = r /\ CommitChange(r)
  BY <1>6 DEF CommitChange
<1>7. CASE q = r
  BY <1>2, <1>3, <1>4, <1>5, <1>6, <1>7 DEF Moves, CommitToken, FollowLink, LoadOwner,
     VerifyPlaced, CommitVerification, Asked, RegisterAddress, Registered,
     CommitRegistration, SendLink, LookUpGoogle, LookUpGoogleAddress, Linked, CommitLink,
     Created, CommitGoogleUser
<1> QED  BY <1>1, <1>7

LEMMA ResendKept ==
  ASSUME Shape, NEW r \in Request, Moves(r) PROVE ResendPlaced'
<1> SUFFICES ASSUME NEW q \in Resend
             PROVE  /\ pc'[q] \in {"new", "issue", "mail"} \cup Finished
                    /\ pc'[q] \in {"issue", "mail"} =>
                         subject'[q] \in User /\ email'[subject'[q]] # None
                         /\ loaded'[q].email # None
                    /\ pc'[q] \in {"mail", "done"} => token'[q] # "none"
  BY DEF ResendPlaced
<1> USE DEF Shape, TypeOK, Goto, rows, Placed, ResendPlaced
<1>1. CASE q # r
  BY <1>1, Movement DEF Same, Lasting
<1>2. CASE q = r /\ Ended(r)
  BY <1>2 DEF Ended
<1>3. ASSUME q = r, NEW u \in User, LoadCaller(r, u)
      PROVE  /\ pc'[q] \in {"issue", "refused"} /\ loaded'[q].email # None
             /\ subject'[q] = u /\ email'[u] # None
  BY <1>3 DEF LoadCaller, Load, RowOf
<1>4. CASE q = r /\ CommitToken(r)
  BY <1>4 DEF CommitToken
<1>5. CASE q = r /\ SendLink(r)
  BY <1>5 DEF SendLink, MailedAfterCommit
<1>6. CASE q = r
  BY <1>2, <1>3, <1>4, <1>5, <1>6 DEF Moves, Looked, LookUpNewAddress, Flushing,
     FlushChange, CommitChange, FollowLink, LoadOwner, VerifyPlaced, CommitVerification,
     Asked, RegisterAddress, Registered, CommitRegistration, LookUpGoogle,
     LookUpGoogleAddress, Linked, CommitLink, Created, CommitGoogleUser
<1> QED  BY <1>1, <1>6

LEMMA VerifyKept ==
  ASSUME Shape, NEW r \in Request, Moves(r) PROVE VerifyPlaced'
<1> SUFFICES ASSUME NEW q \in Verify
             PROVE  /\ pc'[q] \in {"new", "read", "confirm"} \cup Finished
                    /\ pc'[q] \in {"read", "confirm"} =>
                         /\ presents'[q] \in Token /\ mailed'[presents'[q]] # None
                         /\ subject'[q] \in User /\ email'[subject'[q]] # None
  BY DEF VerifyPlaced
<1> USE DEF Shape, TypeOK, Goto, rows, Placed, VerifyPlaced
<1>1. CASE q # r
  BY <1>1, Movement DEF Same, Lasting
<1>2. CASE q = r /\ Ended(r)
  BY <1>2 DEF Ended
<1>3. ASSUME q = r, NEW t \in Token, FollowLink(r, t)
      PROVE  /\ pc'[q] = "read" /\ presents'[q] = t /\ mailed'[t] # None
             /\ subject'[q] \in User /\ email'[subject'[q]] # None
  BY <1>3 DEF FollowLink, OwnerOf, RowsPlaced
<1>4. CASE q = r /\ LoadOwner(r)
  BY <1>4 DEF LoadOwner, Load
<1>5. CASE q = r /\ CommitVerification(r)
  BY <1>5 DEF CommitVerification
<1>6. CASE q = r
  BY <1>2, <1>3, <1>4, <1>5, <1>6 DEF Moves, LoadCaller, CommitToken, Looked,
     LookUpNewAddress, Flushing, FlushChange, CommitChange, Asked, RegisterAddress,
     Registered, CommitRegistration, SendLink, LookUpGoogle, LookUpGoogleAddress, Linked,
     CommitLink, Created, CommitGoogleUser
<1> QED  BY <1>1, <1>6

LEMMA RowsKept ==
  ASSUME Shape, TypeOK', NEW r \in Request, Moves(r) PROVE RowsPlaced'
<1> USE DEF Shape, TypeOK, Goto, rows, Placed
<1>0. Lasting /\ \A q \in Request \ {r} : Same(q)
  BY Movement
<1>1. ASSUME NEW u \in User, email'[u] # None PROVE pc'[u] \in {"mail", "done"}
  <2>1. CASE u # r
    BY <1>0, <1>1, <2>1 DEF Same, RowsPlaced
  <2>2. CASE u = r /\ email[u] # None
    <3>1. pc[r] \in {"mail", "done"}
      BY <2>2 DEF RowsPlaced
    <3>2. pc'[r] \in {"mail", "done"}
      BY <2>2, <3>1 DEF Moves, Ended, Asked, RegisterAddress, Fresh, Registered,
         CommitRegistration, SendLink, LoadCaller, CommitToken, Looked, LookUpNewAddress,
         Flushing, FlushChange, CommitChange, FollowLink, LoadOwner, CommitVerification,
         LookUpGoogle, LookUpGoogleAddress, Linked, CommitLink, Created, CommitGoogleUser
    <3> QED  BY <2>2, <3>2
  <2>3. CASE u = r /\ email[u] = None
    <3>1. CASE Registered(r)
      BY <2>3, <3>1 DEF Registered, CommitRegistration
    <3>2. CASE Created(r)
      BY <2>3, <3>2 DEF Created, CommitGoogleUser
    <3>3. CASE CommitChange(r)
      BY <2>3, <3>3 DEF CommitChange
    <3>4. CASE ~ Registered(r) /\ ~ Created(r) /\ ~ CommitChange(r)
      <4>1. email' = email
        BY <3>4 DEF Moves, Ended, Asked, RegisterAddress, SendLink, LoadCaller, CommitToken,
           Looked, LookUpNewAddress, Available, Flushing, FlushChange, FollowLink,
           LoadOwner, CommitVerification, LookUpGoogle, LookUpGoogleAddress, Linked,
           CommitLink
      <4> QED  BY <1>1, <2>3, <4>1
    <3> QED  BY <3>1, <3>2, <3>3, <3>4
  <2> QED  BY <2>1, <2>2, <2>3
<1>2. ASSUME NEW t \in Token, mailed'[t] # None \/ token'[t] # "none"
      PROVE  subject'[t] \in User /\ email'[subject'[t]] # None
  <2>1. CASE t # r
    BY <1>0, <1>2, <2>1 DEF Same, Lasting, RowsPlaced
  <2>2. ASSUME t = r, mailed[t] # None \/ token[t] # "none", UNCHANGED subject
        PROVE  subject'[t] \in User /\ email'[subject'[t]] # None
    BY <1>0, <2>2 DEF Lasting, RowsPlaced
  <2>3. ASSUME t = r, UNCHANGED <<subject, mailed, token>>
        PROVE  subject'[t] \in User /\ email'[subject'[t]] # None
    BY <1>2, <2>2, <2>3
  <2>4. CASE t = r /\ Ended(r)
    BY <2>3, <2>4 DEF Ended
  <2>5. CASE t = r /\ \E a \in Address : Asked(r, a)
    BY <2>3, <2>5 DEF Asked, RegisterAddress
  <2>6. CASE t = r /\ Registered(r)
    BY <1>0, <2>6, RegisterKept DEF Registered, CommitRegistration, RegisterPlaced, User
  <2>7. CASE t = r /\ SendLink(r)
    <3>1. CASE r \in Register
      <4>1. r \in User /\ pc'[r] = "done"
        BY <2>7, <3>1 DEF SendLink
      <4> QED  BY <2>7, <3>1, <4>1, RegisterKept DEF RegisterPlaced
    <3>2. CASE r \in Resend
      <4>1. subject' = subject /\ email' = email /\ pc[r] = "mail"
        BY <2>7 DEF SendLink, MailedAfterCommit
      <4> QED  BY <2>7, <3>2, <4>1 DEF ResendPlaced
    <3> QED  BY <2>7, <3>1, <3>2 DEF SendLink
  <2>8. ASSUME t = r, NEW u \in User, LoadCaller(r, u)
        PROVE  subject'[t] \in User /\ email'[subject'[t]] # None
    BY <2>8 DEF LoadCaller, Load
  <2>9. CASE t = r /\ CommitToken(r)
    BY <2>9 DEF CommitToken, ResendPlaced
  <2>10. CASE t = r /\ Looked(r)
    BY <2>3, <2>10 DEF Looked, LookUpNewAddress, Available
  <2>11. CASE t = r /\ Flushing(r)
    <3>1. r \in Change /\ pc[r] = "flush" /\ subject' = subject /\ email' = email
      BY <2>11 DEF Flushing, FlushChange, Available
    <3> QED  BY <2>11, <3>1 DEF ChangePlaced
  <2>12. CASE t = r /\ CommitChange(r)
    <3>1. r \in Change /\ pc[r] = "commit" /\ subject' = subject
      BY <2>12 DEF CommitChange
    <3> QED  BY <1>0, <2>12, <3>1 DEF ChangePlaced, Lasting
  <2>13. CASE t = r
    <3>1. r \notin Verify \cup Callback
      BY <2>13
    <3>2. \/ Ended(r)
          \/ \E a \in Address : Asked(r, a)
          \/ Registered(r) \/ SendLink(r)
          \/ \E u \in User : LoadCaller(r, u)
          \/ CommitToken(r) \/ Looked(r) \/ Flushing(r) \/ CommitChange(r)
      BY <3>1 DEF Moves, FollowLink, LoadOwner, VerifyPlaced, CommitVerification,
         LookUpGoogle, LookUpGoogleAddress, Linked, CommitLink, Created, CommitGoogleUser
    <3> QED  BY <2>13, <3>2, <2>4, <2>5, <2>6, <2>7, <2>8, <2>9, <2>10, <2>11, <2>12
  <2> QED  BY <2>1, <2>13
<1> QED  BY <1>1, <1>2 DEF RowsPlaced

LEMMA MailKept ==
  ASSUME Shape, NEW r \in Request, Moves(r) PROVE MailedOnce'
<1> SUFFICES ASSUME NEW t \in Token, mailed'[t] # None
             PROVE  \/ t \in Register \cup Resend /\ pc'[t] = "done"
                    \/ t \in Change /\ pc'[t] \in {"commit", "failed", "done"}
  BY DEF MailedOnce
<1> USE DEF Shape, TypeOK, Goto, rows, Placed
<1>1. CASE t # r
  BY <1>1, Movement DEF Same, MailedOnce
<1>2. CASE t = r /\ SendLink(r)
  BY <1>2 DEF SendLink
<1>3. CASE t = r /\ Flushing(r)
  <2>1. r \in Change /\ pc' = [pc EXCEPT ![r] = "commit"]
    BY <1>3 DEF Flushing, FlushChange, Available
  <2> QED  BY <1>3, <2>1
<1>4. CASE t = r /\ CommitChange(r)
  BY <1>4 DEF CommitChange
<1>5. CASE t = r /\ ~ SendLink(r) /\ ~ Flushing(r) /\ ~ CommitChange(r)
  <2>1. mailed' = mailed
    BY <1>5 DEF Moves, Ended, Asked, RegisterAddress, Registered, CommitRegistration,
       LoadCaller, CommitToken, Looked, LookUpNewAddress, Available, FollowLink, LoadOwner,
       CommitVerification, LookUpGoogle, LookUpGoogleAddress, Linked, CommitLink, Created,
       CommitGoogleUser
  <2>2. pc[r] \in {"commit", "failed", "done"}
    BY <1>5, <2>1 DEF MailedOnce
  <2>3. pc'[r] = pc[r] \/ (pc[r] = "commit" /\ pc'[r] = "failed")
    BY <1>5, <2>2 DEF Moves, Ended, Asked, RegisterAddress, Fresh, Registered,
       CommitRegistration, LoadCaller, CommitToken, Looked, LookUpNewAddress, FollowLink,
       LoadOwner, CommitVerification, LookUpGoogle, LookUpGoogleAddress, Linked,
       CommitLink, Created, CommitGoogleUser
  <2> QED  BY <1>5, <2>1, <2>2, <2>3 DEF MailedOnce
<1> QED  BY <1>1, <1>2, <1>3, <1>4, <1>5

LEMMA ShapeInit == Init => Shape
  BY DEF Init, Shape, TypeOK, Placed, RegisterPlaced, CallbackPlaced, ChangePlaced,
     ResendPlaced, VerifyPlaced, RowsPlaced, MailedOnce, NoRow, Row

LEMMA ShapeNext == Shape /\ [Next]_vars => Shape'
<1> SUFFICES ASSUME Shape, [Next]_vars PROVE Shape'
  OBVIOUS
<1>1. TypeOK'
  BY TypeNext
<1>2. ASSUME NEW r \in Request, Moves(r) PROVE Placed'
  BY <1>1, <1>2, RegisterKept, CallbackKept, ChangeKept, ResendKept, VerifyKept, RowsKept,
     MailKept DEF Placed
<1>3. CASE UNCHANGED vars
  <2> USE DEF Shape, vars, Placed
  <2>1. RegisterPlaced' /\ CallbackPlaced'
    BY <1>3 DEF RegisterPlaced, CallbackPlaced
  <2>2. ChangePlaced' /\ ResendPlaced'
    BY <1>3 DEF ChangePlaced, ResendPlaced
  <2>3. VerifyPlaced' /\ RowsPlaced' /\ MailedOnce'
    BY <1>3 DEF VerifyPlaced, RowsPlaced, MailedOnce
  <2> QED  BY <1>1, <2>1, <2>2, <2>3
<1> QED  BY <1>1, <1>2, <1>3, OneMoves DEF Shape

LEMMA ShapeAlways == Spec => []Shape
  BY ShapeInit, ShapeNext, PTL DEF Spec

(* TypeOK: what users/models.py and auth/models.py let the columns hold,   *)
(* for any requests; a new row gets its is_verified from the default.      *)
THEOREM TypeCorrect == Spec => []TypeOK
<1>1. Shape => TypeOK
  BY DEF Shape
<1> QED  BY <1>1, ShapeAlways, PTL

(* LinksAreCommitted: only the profile change mails a link before the      *)
(* token is committed (users/service.py:67, auth/router.py:79-85).         *)
THEOREM LinksHaveTokens == Spec => []LinksAreCommitted
<1>1. ASSUME Shape PROVE LinksAreCommitted
  <2> SUFFICES ASSUME NEW t \in Token, mailed[t] # None, token[t] = "none"
               PROVE  t \in Change /\ pc[t] \in {"commit", "failed"}
    BY DEF LinksAreCommitted
  <2>1. t \notin Register \/ pc[t] # "done"
    BY <1>1 DEF Shape, Placed, RegisterPlaced
  <2>2. t \notin Resend \/ pc[t] # "done"
    BY <1>1 DEF Shape, Placed, ResendPlaced
  <2>3. t \notin Change \/ pc[t] # "done"
    BY <1>1 DEF Shape, Placed, ChangePlaced
  <2> QED  BY <1>1, <2>1, <2>2, <2>3 DEF Shape, Placed, MailedOnce
<1> QED  BY <1>1, ShapeAlways, PTL

----------------------------------------------------------------------------
(* Google accounts: the account linked to a user last has signed that user *)
(* in and no other user has it; and a user who was signed in keeps one.    *)
GoogleKnown ==
  /\ \A u \in User : google[u] # None => u \in signedIn[google[u]] /\ email[u] # None
  /\ \A u, v \in User : google[u] = google[v] /\ google[u] # None => u = v
  /\ \A g \in Google : \A u \in signedIn[g] : google[u] # None
  /\ \A r \in Callback : pc[r] = "link" /\ loaded[r].google # None
                         => google[subject[r]] # None

LEMMA GoogleNext == Shape /\ GoogleKnown /\ [Next]_vars => GoogleKnown'
<1> SUFFICES ASSUME Shape, GoogleKnown, [Next]_vars PROVE GoogleKnown'
  OBVIOUS
<1> USE DEF Shape, TypeOK, Goto, Placed, rows, histories
<1>1. ASSUME NEW r \in Request, UNCHANGED <<google, signedIn>>,
             \A u \in User : email[u] # None => email'[u] # None,
             \A q \in Callback : pc'[q] = "link" => pc[q] = "link" /\ subject'[q] = subject[q]
                                                    /\ loaded'[q] = loaded[q]
      PROVE  GoogleKnown'
  BY <1>1 DEF GoogleKnown
<1>2. ASSUME NEW r \in Request, Registered(r) PROVE GoogleKnown'
  <2>1. /\ r \in Register /\ email[r] = None
        /\ email' = [email EXCEPT ![r] = presents[r]]
        /\ google' = [google EXCEPT ![r] = None]
        /\ pc' = [pc EXCEPT ![r] = "mail"] /\ subject' = [subject EXCEPT ![r] = r]
        /\ UNCHANGED <<loaded, signedIn>>
    BY <1>2 DEF Registered, CommitRegistration, InsertUser, RowsPlaced
  <2>2. google[r] = None
    BY <2>1 DEF GoogleKnown
  <2>3. google' = google
    BY <2>1, <2>2
  <2>4. \A u \in User : email[u] # None => email'[u] # None
    BY <2>1
  <2> QED  BY <1>1, <2>1, <2>3, <2>4
<1>3. ASSUME NEW r \in Request, Created(r) PROVE GoogleKnown'
  <2> DEFINE g == presents[r]
  <2>1. /\ r \in Callback /\ g \in Google /\ AddressOf[g] \in Address
        /\ \A u \in User : google[u] # g
    BY <1>3 DEF Created, CommitGoogleUser, CallbackPlaced, HasGoogle
  <2>2. /\ email' = [email EXCEPT ![r] = AddressOf[g]]
        /\ google' = [google EXCEPT ![r] = g]
        /\ signedIn' = [signedIn EXCEPT ![g] = signedIn[g] \cup {r}]
        /\ pc' = [pc EXCEPT ![r] = "done"] /\ subject' = [subject EXCEPT ![r] = r]
        /\ UNCHANGED loaded
    BY <1>3 DEF Created, CommitGoogleUser, InsertUser, SignIn
  <2>3. \A u \in User : google[u] # None => google'[u] # None
    BY <2>1, <2>2
  <2>4. r \notin signedIn[g] => google[r] = None \/ google[r] # g
    BY <2>1
  <2>5. email[r] = None
    BY <1>3 DEF Created, CommitGoogleUser, RowsPlaced
  <2>6. google[r] = None
    BY <2>1, <2>5 DEF GoogleKnown
  <2> HIDE DEF g
  <2>7. \A u \in User : google'[u] # None => u \in signedIn'[google'[u]] /\ email'[u] # None
    BY <2>1, <2>2 DEF GoogleKnown
  <2>8. \A u, v \in User : google'[u] = google'[v] /\ google'[u] # None => u = v
    BY <2>1, <2>2 DEF GoogleKnown
  <2>9. \A h \in Google : \A u \in signedIn'[h] : google'[u] # None
    BY <2>1, <2>2, <2>3 DEF GoogleKnown
  <2>10. \A q \in Callback : pc'[q] = "link" /\ loaded'[q].google # None
                             => google'[subject'[q]] # None
    BY <2>2, <2>3 DEF GoogleKnown, CallbackPlaced
  <2> QED  BY <2>7, <2>8, <2>9, <2>10 DEF GoogleKnown
<1>4. ASSUME NEW r \in Request, Linked(r) PROVE GoogleKnown'
  <2> DEFINE u == subject[r]
             g == presents[r]
  <2>1. /\ r \in Callback /\ pc[r] = "link" /\ g \in Google /\ u \in User
        /\ email[u] # None /\ \A v \in User \ {u} : google[v] # g
    BY <1>4 DEF Linked, CommitLink, CallbackPlaced, HasGoogle
  <2>2. /\ google' = [google EXCEPT ![u] = IF loaded[r].google # g THEN g ELSE google[u]]
        /\ signedIn' = [signedIn EXCEPT ![g] = signedIn[g] \cup {u}]
        /\ pc' = [pc EXCEPT ![r] = "done"]
        /\ UNCHANGED <<email, subject, loaded>>
    BY <1>4 DEF Linked, CommitLink, GoogleLinked, SignIn
  <2>3. google'[u] # None /\ (google'[u] = g \/ google'[u] = google[u])
    BY <2>1, <2>2 DEF GoogleKnown
  <2>4. \A v \in User \ {u} : google'[v] = google[v]
    BY <2>1, <2>2
  <2>5. \A h \in Google : signedIn[h] \subseteq signedIn'[h]
    BY <2>1, <2>2
  <2>6. u \in signedIn'[g]
    BY <2>1, <2>2
  <2>7. \A h \in Google : \A v \in signedIn'[h] : v \in signedIn[h] \/ v = u
    BY <2>1, <2>2
  <2> HIDE DEF u, g
  <2>8. \A v \in User : google'[v] # None => v \in signedIn'[google'[v]] /\ email'[v] # None
    BY <2>1, <2>2, <2>3, <2>4, <2>5, <2>6 DEF GoogleKnown
  <2>9. \A v, w \in User : google'[v] = google'[w] /\ google'[v] # None => v = w
    BY <2>1, <2>3, <2>4 DEF GoogleKnown
  <2>10. \A h \in Google : \A v \in signedIn'[h] : google'[v] # None
    BY <2>1, <2>3, <2>4, <2>7 DEF GoogleKnown
  <2>11. \A q \in Callback : pc'[q] = "link" /\ loaded'[q].google # None
                             => google'[subject'[q]] # None
    BY <2>2, <2>3, <2>4 DEF GoogleKnown, CallbackPlaced
  <2> QED  BY <2>8, <2>9, <2>10, <2>11 DEF GoogleKnown
<1>5. ASSUME NEW r \in Request, NEW g \in Google, LookUpGoogle(r, g) PROVE GoogleKnown'
  <2>1. /\ \/ signedIn' = signedIn
           \/ \E u \in HasGoogle(g) : signedIn' = [signedIn EXCEPT ![g] = signedIn[g] \cup {u}]
        /\ \E to \in {"look_up", "done"} : pc' = [pc EXCEPT ![r] = to]
        /\ UNCHANGED <<email, google, subject, loaded>>
    BY <1>5 DEF LookUpGoogle, SignIn
  <2>2. \A u \in HasGoogle(g) : google[u] = g
    BY DEF HasGoogle
  <2> QED  BY <2>1, <2>2 DEF GoogleKnown
<1>6. ASSUME NEW r \in Request, LookUpGoogleAddress(r) PROVE GoogleKnown'
  <2>1. CASE pc' = [pc EXCEPT ![r] = "insert"] /\ UNCHANGED <<subject, loaded>>
    BY <1>1, <1>6, <2>1 DEF LookUpGoogleAddress
  <2>2. ASSUME NEW u \in User, Load(r, u), pc' = [pc EXCEPT ![r] = "link"]
        PROVE  GoogleKnown'
    <3>1. UNCHANGED <<email, google, signedIn>>
      BY <1>6 DEF LookUpGoogleAddress
    <3>2. subject'[r] = u /\ loaded'[r].google = google[u]
      BY <2>2 DEF Load, RowOf
    <3>3. \A q \in Callback \ {r} : pc'[q] = pc[q] /\ subject'[q] = subject[q]
                                    /\ loaded'[q] = loaded[q]
      BY <2>2 DEF Load
    <3> QED  BY <3>1, <3>2, <3>3 DEF GoogleKnown
  <2> QED  BY <1>6, <2>1, <2>2 DEF LookUpGoogleAddress, HasAddress
<1>7. ASSUME NEW r \in Request, Moves(r), ~ Registered(r), ~ Created(r), ~ Linked(r),
             ~ LookUpGoogleAddress(r), ~ \E g \in Google : LookUpGoogle(r, g)
      PROVE  GoogleKnown'
  <2>1. UNCHANGED <<google, signedIn>>
    BY <1>7 DEF Moves, Ended, Asked, RegisterAddress, SendLink, LoadCaller, CommitToken,
       Looked, LookUpNewAddress, Available, Flushing, FlushChange, CommitChange, FollowLink,
       LoadOwner, CommitVerification
  <2>2. pc'[r] # "link" \/ r \notin Callback
    BY <1>7 DEF Moves, Ended, Asked, RegisterAddress, SendLink, LoadCaller, CommitToken,
       Looked, LookUpNewAddress, Available, Flushing, FlushChange, CommitChange, FollowLink,
       LoadOwner, CommitVerification
  <2> QED  BY <1>1, <1>7, <2>1, <2>2, Movement DEF Lasting, Same
<1>8. CASE UNCHANGED vars
  BY <1>8 DEF vars, GoogleKnown
<1> QED  BY OneMoves, <1>2, <1>3, <1>4, <1>5, <1>6, <1>7, <1>8

LEMMA GoogleAlways == Spec => []GoogleKnown
<1>1. Init => GoogleKnown
  BY DEF Init, GoogleKnown
<1> QED  BY <1>1, GoogleNext, ShapeAlways, PTL DEF Spec

(* SignsInSameUser: a Google account signs in one user for good            *)
(* (auth/service.py:204-244), whatever registrations, changes of address   *)
(* and callbacks interleave, unless another one was linked in its place.   *)
THEOREM GoogleMeansOneUser == Spec => []SignsInSameUser
<1>1. ASSUME Shape, GoogleKnown PROVE SignsInSameUser
  <2> SUFFICES ASSUME NEW g \in Google, NEW u \in signedIn[g], NEW v \in signedIn[g], u # v
               PROVE  \E h \in Google \ {g} : signedIn[g] \cap signedIn[h] # {}
    BY DEF SignsInSameUser
  <2>1. u \in User /\ v \in User
    BY <1>1 DEF Shape, TypeOK
  <2>2. ASSUME NEW w \in {u, v}, google[w] # g
        PROVE  \E h \in Google \ {g} : signedIn[g] \cap signedIn[h] # {}
    <3>1. google[w] \in Google \ {g} /\ w \in signedIn[google[w]]
      BY <1>1, <2>1, <2>2 DEF Shape, TypeOK, GoogleKnown
    <3> QED  BY <2>2, <3>1
  <2>3. google[u] # g \/ google[v] # g
    BY <1>1, <2>1 DEF GoogleKnown, Shape, TypeOK
  <2> QED  BY <2>2, <2>3
<1> QED  BY <1>1, ShapeAlways, GoogleAlways, PTL

----------------------------------------------------------------------------
(* The flag: no address is being proved while a user nothing has happened  *)
(* to changes it, so a change knows whether there is a proof to reset, and *)
(* a link or a sign-in in progress is about the address the user has.      *)
Facts(u) ==
  /\ About(u) \cap Change = {} \/ About(u) \cap Proving = {}
  /\ \A q \in About(u) \cap Change : verified[u] => loaded[q].verified
  /\ \A q \in About(u) \cap Verify : mailed[presents[q]] = email[u]
  /\ \A q \in About(u) \cap Callback : AddressOf[presents[q]] = email[u]
  /\ verified[u] => email[u] \in proven[u]

Guarded(u) == mishap[u] = {} => Facts(u)

(* A request about nobody yet.                                             *)
Unrelated ==
  \A r \in Register \cup Callback :
    pc[r] \in {"new", "insert", "look_up"} => subject[r] = None

LEMMA UnrelatedNext == Shape /\ Unrelated /\ [Next]_vars => Unrelated'
<1> SUFFICES ASSUME Shape, Unrelated, NEW r \in Request, Moves(r) PROVE Unrelated'
  BY OneMoves DEF Unrelated, vars
<1> USE DEF Shape, TypeOK, Goto
<1>1. ASSUME NEW q \in Register \cup Callback, q # r,
             pc'[q] \in {"new", "insert", "look_up"}
      PROVE  subject'[q] = None
  BY <1>1, Movement DEF Same, Unrelated
<1>2. ASSUME r \in Register, pc'[r] \in {"new", "insert", "look_up"}
      PROVE  subject'[r] = None
  <2>1. CASE Ended(r)
    BY <1>2, <2>1 DEF Ended
  <2>2. ASSUME NEW a \in Address, Asked(r, a) PROVE subject'[r] = None
    BY <1>2, <2>2 DEF Asked, RegisterAddress, Fresh, Unrelated
  <2>3. CASE Registered(r) \/ SendLink(r)
    <3>1. \E to \in {"mail", "done"} : pc' = [pc EXCEPT ![r] = to]
      BY <2>3 DEF Registered, CommitRegistration, SendLink
    <3> QED  BY <1>2, <3>1
  <2> QED  BY <1>2, <2>1, <2>2, <2>3 DEF Moves, LoadCaller, CommitToken, Looked,
           LookUpNewAddress, Flushing, FlushChange, CommitChange, FollowLink, LoadOwner,
           Placed, VerifyPlaced, CommitVerification, LookUpGoogle, LookUpGoogleAddress,
           Linked, CommitLink, Created, CommitGoogleUser
<1>3. ASSUME r \in Callback, pc'[r] \in {"new", "insert", "look_up"}
      PROVE  subject'[r] = None
  <2>1. subject[r] = None \/ pc[r] \notin {"new", "insert", "look_up"}
    BY <1>3 DEF Unrelated
  <2>2. ASSUME NEW g \in Google, LookUpGoogle(r, g) PROVE subject'[r] = None
    BY <2>1, <2>2 DEF LookUpGoogle, Fresh
  <2>3. CASE LookUpGoogleAddress(r)
    <3>1. \/ subject' = subject
          \/ pc' = [pc EXCEPT ![r] = "link"]
      BY <2>3 DEF LookUpGoogleAddress
    <3> QED  BY <1>3, <2>1, <2>3, <3>1 DEF LookUpGoogleAddress
  <2>4. CASE Linked(r) \/ Created(r)
    <3>1. pc' = [pc EXCEPT ![r] = "done"]
      BY <2>4 DEF Linked, CommitLink, Created, CommitGoogleUser
    <3> QED  BY <1>3, <3>1
  <2> QED  BY <1>3, <2>2, <2>3, <2>4 DEF Moves, Ended, Asked, RegisterAddress, Fresh,
           Registered, CommitRegistration, SendLink, LoadCaller, CommitToken, Looked,
           LookUpNewAddress, Flushing, FlushChange, CommitChange, FollowLink, LoadOwner,
           CommitVerification
<1> QED  BY <1>1, <1>2, <1>3 DEF Unrelated

LEMMA MailStays ==
  ASSUME Shape, NEW r \in Request, Moves(r)
  PROVE  \A t \in Token : mailed[t] # None => mailed'[t] = mailed[t]
<1> SUFFICES ASSUME NEW t \in Token, mailed[t] # None PROVE mailed'[t] = mailed[t]
  OBVIOUS
<1> USE DEF Shape, TypeOK, Placed
<1>1. CASE t # r
  BY <1>1, Movement DEF Same
<1>2. CASE t = r
  <2>1. pc[r] \in {"commit", "failed", "done"}
    BY <1>2 DEF MailedOnce
  <2> QED  BY <1>2, <2>1 DEF Moves, Ended, Asked, RegisterAddress, Registered,
           CommitRegistration, SendLink, MailedAfterCommit, LoadCaller, CommitToken,
           Looked, LookUpNewAddress, Available, Flushing, FlushChange, CommitChange,
           FollowLink, LoadOwner, CommitVerification, LookUpGoogle, LookUpGoogleAddress,
           Linked, CommitLink, Created, CommitGoogleUser
<1> QED  BY <1>1, <1>2

(* What a step of r leaves as it was: the mails, and the other requests.   *)
LEMMA OthersStay ==
  ASSUME Shape, NEW r \in Request, Moves(r), NEW u \in User
  PROVE  /\ \A q \in About(u)' : q # r =>
               q \in About(u) /\ presents'[q] = presents[q] /\ loaded'[q] = loaded[q]
         /\ \A q \in About(u) \cap Verify : mailed'[presents[q]] = mailed[presents[q]]
<1>1. \A q \in Request \ {r} : /\ pc'[q] = pc[q] /\ subject'[q] = subject[q]
                               /\ presents'[q] = presents[q] /\ loaded'[q] = loaded[q]
  BY Movement DEF Same
<1>2. \A q \in About(u) \cap Verify : presents[q] \in Token /\ mailed[presents[q]] # None
  BY DEF Shape, Placed, VerifyPlaced, About
<1> QED  BY <1>1, <1>2, MailStays DEF About

(* A step that leaves u's row alone and brings no request about u into     *)
(* play.                                                                   *)
LEMMA QuietKeeps ==
  ASSUME Shape, NEW r \in Request, Moves(r), NEW u \in User, Guarded(u),
         mishap[u] \subseteq mishap'[u],
         email'[u] = email[u], verified'[u] = verified[u], proven[u] \subseteq proven'[u],
         r \in About(u)' => /\ r \in About(u) /\ presents'[r] = presents[r]
                            /\ r \in Change => loaded'[r] = loaded[r]
  PROVE  Guarded(u)'
<1> SUFFICES ASSUME mishap'[u] = {} PROVE Facts(u)'
  BY DEF Guarded
<1>1. Facts(u)
  BY DEF Guarded
<1>2. \A q \in About(u)' : /\ q \in About(u) /\ presents'[q] = presents[q]
                           /\ q \in Change => loaded'[q] = loaded[q]
  BY OthersStay
<1>3. \A q \in About(u)' \cap Verify : mailed'[presents'[q]] = email'[u]
  BY <1>1, <1>2, OthersStay DEF Facts
<1>4. About(u)' \cap Change = {} \/ About(u)' \cap Proving = {}
  BY <1>1, <1>2 DEF Facts
<1>5. /\ \A q \in About(u)' \cap Change : verified'[u] => loaded'[q].verified
      /\ \A q \in About(u)' \cap Callback : AddressOf[presents'[q]] = email'[u]
      /\ verified'[u] => email'[u] \in proven'[u]
  BY <1>1, <1>2 DEF Facts
<1> QED  BY <1>3, <1>4, <1>5 DEF Facts, Proving

(* A new request about u: if nothing happens to u, it has no rival.        *)
LEMMA JoinKeeps ==
  ASSUME Shape, NEW r \in Request, Moves(r), NEW u \in User, Guarded(u),
         NEW faults, Suffer(u, Overlap(r, u) \cup faults),
         email'[u] = email[u], verified'[u] = verified[u], proven'[u] = proven[u],
         r \in Change => loaded'[r].verified = verified[u],
         r \in Verify /\ mishap'[u] = {} => mailed'[presents'[r]] = email[u],
         r \in Callback => AddressOf[presents'[r]] = email[u]
  PROVE  Guarded(u)'
<1> SUFFICES ASSUME mishap'[u] = {} PROVE Facts(u)'
  BY DEF Guarded
<1>1. mishap[u] = {} /\ Overlap(r, u) = {}
  BY DEF Suffer, Shape, TypeOK
<1>2. Facts(u) /\ Rivals(r, u) = {}
  BY <1>1 DEF Guarded, Overlap
<1>3. /\ r \in Change => About(u) \cap Proving = {}
      /\ r \in Proving => About(u) \cap Change = {}
  BY <1>2 DEF Rivals, Proving
<1>4. \A q \in About(u)' : q # r =>
        q \in About(u) /\ presents'[q] = presents[q] /\ loaded'[q] = loaded[q]
  BY OthersStay
<1>5. About(u)' \cap Change = {} \/ About(u)' \cap Proving = {}
  <2>1. r \notin Change \/ r \notin Proving
    BY DEF Proving
  <2>2. CASE r \in Change
    BY <1>3, <1>4, <2>1, <2>2
  <2>3. CASE r \in Proving
    BY <1>3, <1>4, <2>1, <2>3
  <2>4. CASE r \notin Change \cup Proving
    BY <1>2, <1>4, <2>4 DEF Facts
  <2> QED  BY <2>2, <2>3, <2>4
<1>6. \A q \in About(u)' \cap Change : verified'[u] => loaded'[q].verified
  BY <1>2, <1>4 DEF Facts
<1>7. \A q \in About(u)' \cap Verify : mailed'[presents'[q]] = email'[u]
  BY <1>2, <1>4, OthersStay DEF Facts
<1>8. \A q \in About(u)' \cap Callback : AddressOf[presents'[q]] = email'[u]
  BY <1>2, <1>4 DEF Facts
<1>9. verified'[u] => email'[u] \in proven'[u]
  BY <1>2 DEF Facts
<1> QED  BY <1>5, <1>6, <1>7, <1>8, <1>9 DEF Facts, Proving

(* The last step of a request that proves an address.                      *)
LEMMA ProofKeeps ==
  ASSUME Shape, NEW r \in Request, Moves(r), NEW u \in User, Guarded(u),
         r \in About(u) \cap Proving, r \notin About(u)', UNCHANGED mishap,
         email'[u] = email[u],
         Facts(u) => email[u] \in proven'[u]
  PROVE  Guarded(u)'
<1> SUFFICES ASSUME mishap'[u] = {} PROVE Facts(u)'
  BY DEF Guarded
<1>1. Facts(u)
  BY DEF Guarded
<1>2. \A q \in About(u)' : q \in About(u) /\ presents'[q] = presents[q]
  BY OthersStay
<1>3. About(u)' \cap Change = {}
  BY <1>1, <1>2 DEF Facts
<1>4. \A q \in About(u)' \cap Verify : mailed'[presents'[q]] = email'[u]
  BY <1>1, <1>2, OthersStay DEF Facts
<1>5. \A q \in About(u)' \cap Callback : AddressOf[presents'[q]] = email'[u]
  BY <1>1, <1>2 DEF Facts
<1> QED  BY <1>1, <1>3, <1>4, <1>5 DEF Facts

(* Whoever a request in progress is about has a row.                       *)
LEMMA AboutUsers ==
  ASSUME Shape, Unrelated, NEW u \in User, NEW q \in About(u) PROVE email[u] # None
<1>1. q \in Request /\ subject[q] = u /\ pc[q] \in InFlight /\ u # None
  BY DEF About
<1> QED  BY <1>1 DEF Shape, Placed, RegisterPlaced, CallbackPlaced, ChangePlaced,
         ResendPlaced, VerifyPlaced, Unrelated

LEMMA GuardedNext ==
  ASSUME Shape, Unrelated, NEW r \in Request, Moves(r), NEW u \in User, Guarded(u)
  PROVE  Guarded(u)'
<1> USE DEF Shape, TypeOK, Goto, rows, histories
(* A step that leaves the rows alone and r not about u, or as it was.      *)
<1>q. ASSUME UNCHANGED <<email, verified, proven>>,
             mishap[u] \subseteq mishap'[u],
             r \in About(u)' => /\ r \in About(u) /\ presents'[r] = presents[r]
                                /\ r \in Change => loaded'[r] = loaded[r]
      PROVE  Guarded(u)'
  BY <1>q, QuietKeeps
<1>1. CASE Ended(r)
  <2>1. r \notin About(u)'
    BY <1>1 DEF Ended, About
  <2> QED  BY <1>1, <1>q, <2>1 DEF Ended
<1>2. ASSUME NEW a \in Address, Asked(r, a) PROVE Guarded(u)'
  <2>1. /\ r \in Register /\ subject[r] = None
        /\ UNCHANGED <<rows, subject, histories, mishap>>
    BY <1>2 DEF Asked, RegisterAddress, Fresh, Unrelated
  <2>2. r \notin About(u)'
    BY <2>1 DEF About
  <2> QED  BY <1>q, <2>1, <2>2
<1>3. CASE SendLink(r)
  <2>1. pc' = [pc EXCEPT ![r] = "done"] /\ UNCHANGED <<rows, histories, mishap>>
    BY <1>3 DEF SendLink
  <2>2. r \notin About(u)'
    BY <2>1 DEF About
  <2> QED  BY <1>q, <2>1, <2>2
<1>4. CASE CommitToken(r)
  <2>1. /\ pc' = [pc EXCEPT ![r] = "mail"]
        /\ UNCHANGED <<email, google, verified, histories, mishap>>
    BY <1>4 DEF CommitToken
  <2>2. r \notin About(u)'
    BY <2>1 DEF About
  <2> QED  BY <1>q, <2>1, <2>2
<1>5. CASE Looked(r) \/ Flushing(r)
  <2>1. /\ pc[r] \in {"look_up", "flush"}
        /\ UNCHANGED <<rows, subject, presents, loaded, histories, mishap>>
    BY <1>5 DEF Looked, LookUpNewAddress, Flushing, FlushChange, Available
  <2>2. r \in About(u)' => r \in About(u)
    BY <2>1 DEF About
  <2> QED  BY <1>q, <2>1, <2>2
<1>6. ASSUME NEW v \in User, LoadCaller(r, v) PROVE Guarded(u)'
  <2>1. /\ Load(r, v) /\ Suffer(v, Overlap(r, v)) /\ UNCHANGED <<rows, histories>>
        /\ r \notin Proving
    BY <1>6 DEF LoadCaller, Proving
  <2>2. CASE v = u
    <3>1. loaded'[r].verified = verified[u]
      BY <2>1, <2>2 DEF Load, RowOf
    <3>2. Suffer(u, Overlap(r, u) \cup {})
      BY <2>1, <2>2
    <3> QED  BY <2>1, <3>1, <3>2, JoinKeeps DEF Proving
  <2>3. CASE v # u
    <3>1. subject'[r] = v /\ mishap'[u] = mishap[u]
      BY <2>1, <2>3 DEF Load, Suffer
    <3>2. r \notin About(u)'
      BY <2>3, <3>1 DEF About
    <3> QED  BY <1>q, <2>1, <3>1, <3>2
  <2> QED  BY <2>2, <2>3
<1>7. ASSUME NEW t \in Token, FollowLink(r, t) PROVE Guarded(u)'
  <2> DEFINE v == subject[t]
             old == IF mailed[t] # email[v] THEN {"old_link"} ELSE {}
  <2>1. /\ v \in User /\ subject'[r] = v /\ presents'[r] = t /\ pc'[r] = "read"
        /\ Suffer(v, Overlap(r, v) \cup old) /\ UNCHANGED <<rows, mailed, histories>>
        /\ r \in Verify
    BY <1>7 DEF FollowLink, OwnerOf, Placed, RowsPlaced
  <2>2. CASE v = u
    <3>1. mishap'[u] = {} => mailed'[presents'[r]] = email[u]
      BY <2>1, <2>2 DEF Suffer
    <3> QED  BY <2>1, <2>2, <3>1, JoinKeeps
  <2>3. CASE v # u
    <3>1. mishap'[u] = mishap[u]
      BY <2>1, <2>3 DEF Suffer
    <3>2. r \notin About(u)'
      BY <2>1, <2>3 DEF About
    <3> QED  BY <1>q, <2>1, <3>1, <3>2
  <2> QED  BY <2>2, <2>3
<1>8. ASSUME NEW g \in Google, LookUpGoogle(r, g) PROVE Guarded(u)'
  <2>1. /\ r \in Callback /\ subject[r] = None
        /\ UNCHANGED <<rows, subject, proven, mishap>>
    BY <1>8 DEF LookUpGoogle, Fresh, Unrelated
  <2>2. r \notin About(u)'
    BY <2>1 DEF About
  <2> QED  BY <1>q, <2>1, <2>2
<1>9. CASE LookUpGoogleAddress(r)
  <2>1. /\ r \in Callback /\ pc[r] = "look_up" /\ UNCHANGED <<rows, histories>>
        /\ \/ UNCHANGED <<subject, loaded, mishap>>
           \/ \E v \in User : /\ Load(r, v) /\ Suffer(v, Overlap(r, v))
                              /\ email[v] = AddressOf[presents[r]]
        /\ presents' = presents
    BY <1>9 DEF LookUpGoogleAddress, HasAddress
  <2>2. CASE UNCHANGED <<subject, loaded, mishap>>
    <3>1. r \notin About(u)'
      BY <2>1, <2>2 DEF About, Unrelated
    <3> QED  BY <1>q, <2>1, <2>2, <3>1
  <2>3. ASSUME NEW v \in User, Load(r, v), Suffer(v, Overlap(r, v)),
               email[v] = AddressOf[presents[r]]
        PROVE  Guarded(u)'
    <3>1. CASE v = u
      <4>1. Suffer(u, Overlap(r, u) \cup {})
        BY <2>3, <3>1
      <4> QED  BY <2>1, <2>3, <3>1, <4>1, JoinKeeps
    <3>2. CASE v # u
      <4>1. subject'[r] = v /\ mishap'[u] = mishap[u]
        BY <2>3, <3>2 DEF Load, Suffer
      <4>2. r \notin About(u)'
        BY <3>2, <4>1 DEF About
      <4> QED  BY <1>q, <2>1, <4>1, <4>2
    <3> QED  BY <3>1, <3>2
  <2> QED  BY <2>1, <2>2, <2>3

<1>10. CASE LoadOwner(r)
  <2>1. /\ r \in Verify /\ pc[r] = "read" /\ subject'[r] = subject[r]
        /\ UNCHANGED <<rows, presents, histories, mishap>>
    BY <1>10 DEF LoadOwner, Load, Placed, VerifyPlaced
  <2>2. r \in About(u)' => r \in About(u)
    BY <2>1 DEF About
  <2> QED  BY <1>q, <2>1, <2>2

(* The steps that write a row: of u, whom r is about, or of another user.  *)
<1>w. ASSUME subject[r] # u, pc'[r] = "done", UNCHANGED mishap,
             \A v \in User \ {subject[r]} : /\ email'[v] = email[v] /\ verified'[v] = verified[v]
                                          /\ proven'[v] = proven[v]
      PROVE  Guarded(u)'
  <2>1. r \notin About(u)'
    BY <1>w DEF About
  <2> QED  BY <1>w, <2>1, QuietKeeps
<1>11. CASE CommitChange(r)
  <2> DEFINE v == subject[r]
  <2>1. /\ r \in Change /\ v \in User /\ pc[r] = "commit" /\ pc'[r] = "done"
        /\ email' = [email EXCEPT ![v] = presents[r]]
        /\ verified' = [verified EXCEPT ![v] = ResetOnChange(loaded[r], verified[v])]
        /\ UNCHANGED <<proven, mishap>>
    BY <1>11 DEF CommitChange, Placed, ChangePlaced
  <2>2. CASE v = u
    <3> SUFFICES ASSUME mishap'[u] = {} PROVE Facts(u)'
      BY DEF Guarded
    <3>1. Facts(u) /\ r \in About(u) \cap Change
      BY <2>1, <2>2 DEF Guarded, About
    <3>2. ~ verified'[u]
      BY <2>1, <2>2, <3>1 DEF Facts, ResetOnChange
    <3>3. About(u)' \cap Proving = {}
      <4>1. About(u) \cap Proving = {}
        BY <3>1 DEF Facts
      <4> QED  BY <2>1, <4>1, OthersStay DEF About
    <3> QED  BY <3>2, <3>3 DEF Facts, Proving
  <2>3. CASE v # u
    BY <1>w, <2>1, <2>3
  <2> QED  BY <2>2, <2>3
<1>12. CASE CommitVerification(r)
  <2> DEFINE v == subject[r]
  <2>1. /\ r \in Verify /\ v \in User /\ pc[r] = "confirm" /\ pc'[r] = "done"
        /\ proven' = [proven EXCEPT ![v] = @ \cup {mailed[presents[r]]}]
        /\ \A w \in User \ {v} : verified'[w] = verified[w]
        /\ UNCHANGED <<email, mishap>>
    BY <1>12 DEF CommitVerification, Placed, VerifyPlaced
  <2>2. CASE v = u
    <3>1. r \in About(u) \cap Proving /\ r \notin About(u)'
      BY <2>1, <2>2 DEF About, Proving
    <3>2. Facts(u) => email[u] \in proven'[u]
      BY <2>1, <2>2, <3>1 DEF Facts
    <3> QED  BY <2>1, <3>1, <3>2, ProofKeeps
  <2>3. CASE v # u
    BY <1>w, <2>1, <2>3
  <2> QED  BY <2>2, <2>3
<1>13. CASE Linked(r)
  <2> DEFINE v == subject[r]
             g == presents[r]
  <2>1. /\ r \in Callback /\ v \in User /\ pc[r] = "link" /\ pc'[r] = "done" /\ g \in Google
        /\ proven' = [proven EXCEPT ![v] = @ \cup {AddressOf[g]}]
        /\ \A w \in User \ {v} : verified'[w] = verified[w]
        /\ UNCHANGED <<email, mishap>>
    <3>1. /\ r \in Callback /\ pc[r] = "link" /\ pc' = [pc EXCEPT ![r] = "done"]
          /\ verified' = [verified EXCEPT ![v] = IF loaded[r].verified THEN verified[v]
                                                                     ELSE TRUE]
          /\ proven' = [proven EXCEPT ![v] = @ \cup {AddressOf[g]}]
          /\ UNCHANGED <<email, mishap>>
      BY <1>13, Zenon DEF Linked, CommitLink, rows, Goto
    <3>2. v \in User /\ g \in Google
      BY <3>1 DEF Placed, CallbackPlaced
    <3> QED  BY <3>1, <3>2
  <2>2. CASE v = u
    <3>1. r \in About(u) \cap Proving /\ r \notin About(u)'
      BY <2>1, <2>2 DEF About, Proving
    <3>2. Facts(u) => email[u] \in proven'[u]
      BY <2>1, <2>2, <3>1 DEF Facts
    <3> QED  BY <2>1, <3>1, <3>2, ProofKeeps
  <2>3. CASE v # u
    BY <1>w, <2>1, <2>3
  <2> QED  BY <2>2, <2>3
<1>14. ASSUME r \in User, pc[r] = "insert", pc'[r] \notin InFlight, UNCHANGED mishap,
              \A w \in User \ {r} : /\ email'[w] = email[w] /\ verified'[w] = verified[w]
                                   /\ proven'[w] = proven[w],
              u = r => (verified'[u] => email'[u] \in proven'[u])
       PROVE  Guarded(u)'
  <2>1. r \notin About(u)'
    BY <1>14 DEF About
  <2>2. CASE u = r
    <3>1. email[u] = None
      BY <1>14, <2>2 DEF Placed, RowsPlaced
    <3>2. About(u)' = {}
      BY <2>1, <3>1, OthersStay, AboutUsers
    <3> QED  BY <1>14, <2>2, <3>2 DEF Guarded, Facts
  <2>3. CASE u # r
    BY <1>14, <2>1, <2>3, QuietKeeps
  <2> QED  BY <2>2, <2>3
<1>15. CASE Registered(r)
  <2>1. /\ r \in Register /\ pc[r] = "insert" /\ pc'[r] = "mail"
        /\ \A w \in User \ {r} : /\ email'[w] = email[w] /\ google'[w] = google[w]
                                 /\ verified'[w] = verified[w]
        /\ ~ verified'[r] /\ UNCHANGED <<proven, mishap>>
    <3>1. /\ r \in Register /\ pc[r] = "insert" /\ pc' = [pc EXCEPT ![r] = "mail"]
          /\ email' = [email EXCEPT ![r] = presents[r]]
          /\ google' = [google EXCEPT ![r] = None]
          /\ verified' = [verified EXCEPT ![r] = None # None]
          /\ UNCHANGED <<histories, mishap>>
      BY <1>15 DEF Registered, CommitRegistration, InsertUser
    <3> QED  BY <3>1
  <2> QED  BY <1>14, <2>1
<1>16. CASE Created(r)
  <2>1. /\ r \in Callback /\ pc[r] = "insert" /\ pc'[r] = "done"
        /\ \A w \in User \ {r} : /\ email'[w] = email[w] /\ google'[w] = google[w]
                                 /\ verified'[w] = verified[w] /\ proven'[w] = proven[w]
        /\ email'[r] \in proven'[r] /\ UNCHANGED mishap
    BY <1>16 DEF Created, CommitGoogleUser, InsertUser
  <2> QED  BY <1>14, <2>1
<1> QED  BY <1>1, <1>2, <1>3, <1>4, <1>5, <1>6, <1>7, <1>8, <1>9, <1>10, <1>11, <1>12,
         <1>13, <1>15, <1>16 DEF Moves

LEMMA GuardedAlways == Spec => [](Unrelated /\ \A u \in User : Guarded(u))
<1> DEFINE Kept == Unrelated /\ \A u \in User : Guarded(u)
<1>1. Init => Kept
  <2> SUFFICES ASSUME Init PROVE Kept
    OBVIOUS
  <2>1. Unrelated
    BY DEF Init, Unrelated
  <2>2. ASSUME NEW u \in User PROVE About(u) = {} /\ ~ verified[u]
    BY <2>2 DEF Init, About
  <2> QED  BY <2>1, <2>2 DEF Guarded, Facts
<1>2. Shape /\ Kept /\ [Next]_vars => Kept'
  <2> SUFFICES ASSUME Shape, Kept, [Next]_vars PROVE Kept'
    OBVIOUS
  <2>1. Unrelated'
    BY UnrelatedNext
  <2>2. ASSUME NEW u \in User PROVE Guarded(u)'
    <3>1. CASE UNCHANGED vars
      <4>1. Guarded(u)
        OBVIOUS
      <4> QED  BY <3>1, <4>1 DEF vars, Guarded, Facts, About
    <3>2. ASSUME NEW r \in Request, Moves(r) PROVE Guarded(u)'
      BY <3>2, GuardedNext
    <3> QED  BY <3>1, <3>2, OneMoves
  <2> QED  BY <2>1, <2>2
<1> QED  BY <1>1, <1>2, ShapeAlways, PTL DEF Spec

(* A user who may send money has proved to own the address in the row: by a*)
(* link mailed there or by Google's word, in every order of registrations, *)
(* changes of address, links and sign-ins, unless a change of address was  *)
(* in progress together with a link or a sign-in of that user or an old    *)
(* link was followed.                                                      *)
THEOREM VerifiedMeansProven == Spec => []VerifiedIsProven
<1>1. (\A u \in User : Guarded(u)) => VerifiedIsProven
  BY DEF Guarded, Facts, VerifiedIsProven
<1> QED  BY <1>1, GuardedAlways, PTL
=============================================================================
