--------------------------- MODULE SessionsProofs ---------------------------
(***************************************************************************)
(* Proofs about Sessions, for any number of requests, tokens and codes.    *)
(***************************************************************************)
EXTENDS Sessions, FiniteSetTheorems, TLAPS

USE SessionConstants DEF Request, Token, Code

(* What a request finds before it goes on: x is what it carries from then  *)
(* on, next the place it goes to.                                          *)
Finds(r, x, next) ==
  \/ r \in Login /\ x = Nothing /\ next = "issue"
  \/ r \in Change /\ x = Nothing /\ next = "purge"
  \/ r \in Refresh /\ x \in Live /\ next = "issue"
  \/ r \in Refresh /\ x \in Token /\ row[x] = "spent" /\ next = "purge"
  \/ r \in Logout /\ x \in Token /\ row[x] # "none" /\ next = "purge"
  \/ r \in Exchange /\ x \in LiveCodes /\ next = "issue"
  \/ r \in Reset /\ x \in LiveCodes /\ next = "purge"

(* The four kinds of lookup, as one step.                                  *)
LookedUp(r) == \E x \in Token \cup Code \cup {Nothing}, next \in {"issue", "purge"} :
                 pc[r] = "new" /\ Finds(r, x, next) /\ LookUp(r, x, next)

(* A token has a row when the request that issues it is over, and its      *)
(* session began with a login or an exchange that is over too.             *)
Rooted ==
  \A t \in Token :
    /\ row[t] # "none" <=> pc[t] = "done"
    /\ row[t] = "none" => root[t] = Nothing
    /\ row[t] # "none" => root[t] \in Login \cup Exchange /\ pc[root[t]] = "done"

(* What a request carries is of its kind and has a row; a code that let a  *)
(* request through is spent; an UPDATE only finds rows.                    *)
Carries ==
  \A r \in Request :
    /\ pc[r] = "issue" => r \in Token
    /\ pc[r] \in {"purge", "commit"} => r \notin Login \cup Exchange
    /\ r \in Refresh /\ pc[r] \in InFlight =>
         presents[r] \in Token /\ row[presents[r]] # "none"
    /\ r \in Login => presents[r] = Nothing
    /\ r \in Exchange \cup Reset /\ pc[r] \in InFlight \cup {"done"} => presents[r] \in Code
    /\ r \in Exchange \cup Reset /\ pc[r] = "done" => row[presents[r]] = "spent"
    /\ \A t \in seen[r] : row[t] # "none"

ContestedHaveRows == \A x \in contested : row[x] # "none"

(* Two requests with one code, under way or let through: it is contested.  *)
CodesApart ==
  \A r, q \in Exchange \cup Reset :
    /\ r # q /\ presents[r] = presents[q]
    /\ pc[r] \in InFlight \cup {"done"} /\ pc[q] \in InFlight \cup {"done"}
    => presents[r] \in contested

(* The refreshes that will issue a successor, and the sessions one of whose*)
(* tokens was carried by two requests at once.                             *)
Issuing == {r \in Refresh : pc[r] = "issue"}
Disputed == {root[x] : x \in contested \cap Token}

(* A session that is not disputed has one head: its live token, if it has  *)
(* one, is the token its one refresh under way carries, if it has one.     *)
OneHead ==
  /\ \A r, q \in Issuing :
       r # q /\ presents[r] = presents[q] => presents[r] \in contested
  /\ \A r, q \in Issuing :
       root[presents[r]] = root[presents[q]] /\ presents[r] # presents[q]
       => root[presents[r]] \in Disputed
  /\ \A r \in Issuing, t \in Live :
       root[t] = root[presents[r]] /\ t # presents[r] => root[t] \in Disputed
  /\ \A s, t \in Live : s # t /\ root[s] = root[t] => root[s] \in Disputed

(* A purge has seen every token but those whose requests it overlaps, or   *)
(* that cannot come into being; and a request from before a purge that is  *)
(* still under way was overlapped by it.                                   *)
Purged ==
  /\ \A r \in Request \ Logout : pc[r] = "commit" =>
       \A t \in Token : t \in seen[r] \cup raced \/ pc[t] \in {"new", "refused", "failed"}
  /\ \A t \in outdated :
       pc[t] # "new" /\ (t \in Token /\ pc[t] \in InFlight => t \in raced)

Shape == TypeOK /\ Rooted /\ Carries /\ ContestedHaveRows

----------------------------------------------------------------------------
(* The steps, with the four lookups gathered into one.                     *)
LEMMA Steps ==
  ASSUME TypeOK, [Next]_vars
  PROVE  \/ \E r \in Request : \/ Refuse(r) /\ pc[r] = "new"
                               \/ LookedUp(r)
                               \/ Issue(r) \/ Revoke(r) \/ CommitRevoke(r) \/ Crash(r)
         \/ \E c \in Code : IssueCode(c)
         \/ \E x \in Token \cup Code : Expire(x)
         \/ UNCHANGED vars
<1>1. ASSUME NEW r \in Request, VerifyPassword(r)
      PROVE  (Refuse(r) /\ pc[r] = "new") \/ LookedUp(r)
  <2>1. pc[r] = "new"
    BY <1>1 DEF VerifyPassword, Fresh
  <2>2. CASE r \in Login /\ LookUp(r, Nothing, "issue")
    BY <2>1, <2>2 DEF LookedUp, Finds
  <2>3. CASE r \in Change /\ LookUp(r, Nothing, "purge")
    BY <2>1, <2>3 DEF LookedUp, Finds
  <2> QED  BY <1>1, <2>1, <2>2, <2>3 DEF VerifyPassword
<1>2. ASSUME NEW r \in Request, LookUpToken(r)
      PROVE  (Refuse(r) /\ pc[r] = "new") \/ LookedUp(r)
  <2>1. pc[r] = "new" /\ r \in Refresh
    BY <1>2 DEF LookUpToken, Fresh
  <2>2. PICK t \in Token \ {r} :
          \/ Rotatable(t) /\ LookUp(r, t, "issue")
          \/ row[t] = "spent" /\ LookUp(r, t, "purge")
          \/ Refuse(r)
    BY <1>2 DEF LookUpToken
  <2>3. CASE Rotatable(t) /\ LookUp(r, t, "issue")
    BY <2>1, <2>3 DEF LookedUp, Finds, Rotatable, Live
  <2>4. CASE row[t] = "spent" /\ LookUp(r, t, "purge")
    BY <2>1, <2>4 DEF LookedUp, Finds
  <2> QED  BY <2>1, <2>2, <2>3, <2>4
<1>3. ASSUME NEW r \in Request, PresentToLogout(r) PROVE LookedUp(r)
  <2>1. pc[r] = "new" /\ r \in Logout
    BY <1>3 DEF PresentToLogout, Fresh
  <2>2. PICK t \in Token : row[t] # "none" /\ LookUp(r, t, "purge")
    BY <1>3 DEF PresentToLogout
  <2> QED  BY <2>1, <2>2 DEF LookedUp, Finds
<1>4. ASSUME NEW r \in Request, LookUpCode(r)
      PROVE  (Refuse(r) /\ pc[r] = "new") \/ LookedUp(r)
  <2>1. pc[r] = "new"
    BY <1>4 DEF LookUpCode, Fresh
  <2>2. PICK c \in Code :
          /\ r \in Exchange \cup Reset
          /\ \/ Usable(c) /\ LookUp(r, c, IF r \in Exchange THEN "issue" ELSE "purge")
             \/ Refuse(r)
    BY <1>4 DEF LookUpCode
  <2>3. CASE Usable(c) /\ r \in Exchange /\ LookUp(r, c, "issue")
    BY <2>1, <2>3 DEF LookedUp, Finds, Usable, LiveCodes
  <2>4. CASE Usable(c) /\ r \in Reset /\ LookUp(r, c, "purge")
    BY <2>1, <2>4 DEF LookedUp, Finds, Usable, LiveCodes
  <2> QED  BY <2>1, <2>2, <2>3, <2>4
<1>5. CASE Next
  BY <1>1, <1>2, <1>3, <1>4, <1>5 DEF Next, Rest
<1> QED  BY <1>5

----------------------------------------------------------------------------
(* Type correctness, and the shape of the rows.                            *)
LEMMA ShapeInit == Init => Shape
  BY DEF Init, Shape, TypeOK, Rooted, Carries, ContestedHaveRows, InFlight

LEMMA TypeNext == Shape /\ [Next]_vars => TypeOK'
<1> SUFFICES ASSUME Shape, [Next]_vars PROVE TypeOK'
  OBVIOUS
<1> USE DEF Shape, TypeOK, InFlight, Finished
<1>1. ASSUME NEW r \in Request, Refuse(r) PROVE TypeOK'
  BY <1>1 DEF Refuse
<1>2. ASSUME NEW r \in Request, LookedUp(r) PROVE TypeOK'
  BY <1>2 DEF LookedUp, LookUp, Live, LiveCodes
<1>3. ASSUME NEW r \in Request, Issue(r) PROVE TypeOK'
  <2>1. r \in Token /\ (r \in Refresh => presents[r] \in Token /\ row[presents[r]] # "none")
    BY <1>3 DEF Issue, Carries
  <2>2. row' \in [Token \cup Code -> {"none", "live", "spent"}]
    BY <1>3 DEF Issue, IssuedAndSpent
  <2>3. root' \in [Token -> Login \cup Exchange \cup {Nothing}]
    BY <1>3, <2>1 DEF Issue, Rooted
  <2> QED  BY <1>3, <2>2, <2>3 DEF Issue
<1>4. ASSUME NEW r \in Request, Revoke(r) PROVE TypeOK'
  BY <1>4 DEF Revoke, RevokedBy
<1>5. ASSUME NEW r \in Request, CommitRevoke(r) PROVE TypeOK'
  <2>1. row' \in [Token \cup Code -> {"none", "live", "spent"}]
    BY <1>5 DEF CommitRevoke
  <2> QED  BY <1>5, <2>1 DEF CommitRevoke
<1>6. ASSUME NEW r \in Request, Crash(r) PROVE TypeOK'
  BY <1>6 DEF Crash
<1>7. ASSUME NEW c \in Code, IssueCode(c) PROVE TypeOK'
  BY <1>7 DEF IssueCode
<1>8. ASSUME NEW x \in Token \cup Code, Expire(x) PROVE TypeOK'
  BY <1>8 DEF Expire
<1>9. CASE UNCHANGED vars
  BY <1>9 DEF vars
<1> QED  BY Steps, <1>1, <1>2, <1>3, <1>4, <1>5, <1>6, <1>7, <1>8, <1>9

LEMMA RootedNext == Shape /\ [Next]_vars => Rooted'
<1> SUFFICES ASSUME Shape, [Next]_vars PROVE Rooted'
  OBVIOUS
<1> USE DEF Shape, TypeOK, Rooted
<1>1. ASSUME NEW r \in Request, Refuse(r), pc[r] = "new" PROVE Rooted'
  BY <1>1 DEF Refuse
<1>2. ASSUME NEW r \in Request, LookedUp(r) PROVE Rooted'
  BY <1>2 DEF LookedUp, LookUp
<1>3. ASSUME NEW r \in Request, Issue(r) PROVE Rooted'
  <2>1. /\ r \in Token /\ pc[r] = "issue"
        /\ r \in Refresh => presents[r] \in Token /\ row[presents[r]] # "none"
        /\ r \in Exchange => presents[r] \in Code
        /\ r \in Login => presents[r] = Nothing
    BY <1>3 DEF Issue, Carries, InFlight
  <2>2. \A t \in Token : row'[t] # "none" <=> t = r \/ row[t] # "none"
    BY <1>3, <2>1 DEF Issue, IssuedAndSpent
  <2>3. \A t \in Token : pc'[t] = "done" <=> t = r \/ pc[t] = "done"
    BY <1>3, <2>1 DEF Issue
  <2>4. /\ \A t \in Token \ {r} : root'[t] = root[t]
        /\ root'[r] = IF r \in Refresh THEN root[presents[r]] ELSE r
    BY <1>3, <2>1 DEF Issue
  <2>5. root'[r] \in Login \cup Exchange /\ pc'[root'[r]] = "done"
    BY <2>1, <2>3, <2>4
  <2> QED  BY <2>1, <2>2, <2>3, <2>4, <2>5
<1>4. ASSUME NEW r \in Request, Revoke(r) PROVE Rooted'
  BY <1>4 DEF Revoke
<1>5. ASSUME NEW r \in Request, CommitRevoke(r) PROVE Rooted'
  <2>1. /\ pc[r] = "commit" /\ r \notin Login \cup Exchange
        /\ \A t \in seen[r] : row[t] # "none"
    BY <1>5 DEF CommitRevoke, Carries
  <2>2. \A t \in Token : row'[t] # "none" <=> row[t] # "none"
    <3>1. r \in Reset => presents[r] \in Code
      BY <2>1 DEF Carries, InFlight
    <3> QED  BY <1>5, <2>1, <3>1 DEF CommitRevoke
  <2>3. \A t \in Token : pc'[t] = "done" <=> pc[t] = "done"
    BY <1>5, <2>1 DEF CommitRevoke
  <2> QED  BY <1>5, <2>2, <2>3 DEF CommitRevoke
<1>6. ASSUME NEW r \in Request, Crash(r) PROVE Rooted'
  BY <1>6 DEF Crash, InFlight
<1>7. ASSUME NEW c \in Code, IssueCode(c) PROVE Rooted'
  BY <1>7 DEF IssueCode
<1>8. ASSUME NEW x \in Token \cup Code, Expire(x) PROVE Rooted'
  BY <1>8 DEF Expire
<1>9. CASE UNCHANGED vars
  BY <1>9 DEF vars
<1> QED  BY Steps, <1>1, <1>2, <1>3, <1>4, <1>5, <1>6, <1>7, <1>8, <1>9

(* A row never goes away, and what is spent stays spent.                   *)
LEMMA RowsStay ==
  ASSUME Shape, [Next]_vars
  PROVE  \A x \in Token \cup Code :
           /\ row[x] # "none" => row'[x] # "none"
           /\ row[x] = "spent" => row'[x] = "spent"
<1> USE DEF Shape, TypeOK
<1>1. ASSUME NEW r \in Request, Issue(r)
      PROVE  \A x \in Token \cup Code : /\ row[x] # "none" => row'[x] # "none"
                                        /\ row[x] = "spent" => row'[x] = "spent"
  <2>1. r \in Token /\ row[r] = "none"
    BY <1>1 DEF Issue, Carries, Rooted
  <2> QED  BY <1>1, <2>1 DEF Issue, IssuedAndSpent
<1>2. ASSUME NEW r \in Request, CommitRevoke(r)
      PROVE  \A x \in Token \cup Code : /\ row[x] # "none" => row'[x] # "none"
                                        /\ row[x] = "spent" => row'[x] = "spent"
  BY <1>2 DEF CommitRevoke
<1> QED  BY Steps, <1>1, <1>2 DEF Refuse, LookedUp, LookUp, Revoke, Crash, IssueCode,
                                  Expire, vars

LEMMA ContestedNext == Shape /\ [Next]_vars => ContestedHaveRows'
<1> SUFFICES ASSUME Shape, [Next]_vars PROVE ContestedHaveRows'
  OBVIOUS
<1>1. \A x \in contested' : row[x] # "none"
  BY Steps DEF Shape, TypeOK, ContestedHaveRows, Refuse, LookedUp, LookUp, Live, LiveCodes,
     Issue, Revoke, CommitRevoke, Crash, IssueCode, Expire, vars
<1>2. contested' \subseteq Token \cup Code
  BY TypeNext DEF TypeOK
<1> QED  BY <1>1, <1>2, RowsStay DEF ContestedHaveRows

LEMMA CarriesNext == Shape /\ [Next]_vars => Carries'
<1> SUFFICES ASSUME Shape, [Next]_vars PROVE Carries'
  OBVIOUS
<1> USE DEF Shape, TypeOK, InFlight
<1>0. \A x \in Token \cup Code : /\ row[x] # "none" => row'[x] # "none"
                                 /\ row[x] = "spent" => row'[x] = "spent"
  BY RowsStay
<1>1. ASSUME NEW r \in Request, Refuse(r), pc[r] = "new" PROVE Carries'
  BY <1>0, <1>1 DEF Refuse, Carries
<1>2. ASSUME NEW r \in Request, LookedUp(r) PROVE Carries'
  <2>1. PICK x \in Token \cup Code \cup {Nothing}, next \in {"issue", "purge"} :
          pc[r] = "new" /\ Finds(r, x, next) /\ LookUp(r, x, next)
    BY <1>2 DEF LookedUp
  <2>2. /\ pc' = [pc EXCEPT ![r] = next] /\ presents' = [presents EXCEPT ![r] = x]
        /\ row' = row /\ seen' = seen
    BY <2>1 DEF LookUp
  <2>3. /\ next = "issue" => r \in Token
        /\ next = "purge" => r \notin Login \cup Exchange
        /\ r \in Refresh => x \in Token /\ row[x] # "none"
        /\ r \in Login => x = Nothing
        /\ r \in Exchange \cup Reset => x \in Code
    BY <2>1 DEF Finds, Live, LiveCodes
  <2> QED  BY <2>2, <2>3 DEF Carries
<1>3. ASSUME NEW r \in Request, Issue(r) PROVE Carries'
  <2>1. r \in Exchange => row'[presents[r]] = "spent"
    <3>1. r \in Exchange => presents[r] \in Code
      BY <1>3 DEF Issue, Carries
    <3> QED  BY <1>3, <3>1 DEF Issue, IssuedAndSpent
  <2>2. r \in Token
    BY <1>3 DEF Issue, Carries
  <2>3. pc' = [pc EXCEPT ![r] = "done"] /\ presents' = presents /\ seen' = seen
    BY <1>3 DEF Issue
  <2>4. \A q \in Request : \A t \in seen'[q] : row'[t] # "none"
    BY <1>0, <2>3 DEF Carries
  <2>5. \A q \in Request : q \in Refresh /\ pc'[q] \in InFlight =>
          presents'[q] \in Token /\ row'[presents'[q]] # "none"
    BY <1>0, <2>3 DEF Carries
  <2>6. \A q \in Exchange \cup Reset :
          /\ pc'[q] \in InFlight \cup {"done"} => presents'[q] \in Code
          /\ pc'[q] = "done" => row'[presents'[q]] = "spent"
    <3> SUFFICES ASSUME NEW q \in Exchange \cup Reset
                 PROVE  /\ pc'[q] \in InFlight \cup {"done"} => presents'[q] \in Code
                        /\ pc'[q] = "done" => row'[presents'[q]] = "spent"
      OBVIOUS
    <3>1. CASE q = r
      BY <1>3, <2>1, <2>2, <2>3, <3>1 DEF Carries, Issue
    <3>2. CASE q # r
      BY <1>0, <2>3, <3>2 DEF Carries
    <3> QED  BY <3>1, <3>2
  <2> QED  BY <2>2, <2>3, <2>4, <2>5, <2>6 DEF Carries
<1>4. ASSUME NEW r \in Request, Revoke(r) PROVE Carries'
  BY <1>4 DEF Revoke, RevokedBy, Carries
<1>5. ASSUME NEW r \in Request, CommitRevoke(r) PROVE Carries'
  <2>1. r \in Reset => row'[presents[r]] = "spent"
    <3>1. r \in Reset => presents[r] \in Code
      BY <1>5 DEF CommitRevoke, Carries
    <3> QED  BY <1>5, <3>1 DEF CommitRevoke
  <2>2. r \notin Login \cup Exchange
    BY <1>5 DEF CommitRevoke, Carries
  <2>3. /\ pc' = [pc EXCEPT ![r] = IF r \in Refresh THEN "refused" ELSE "done"]
        /\ presents' = presents /\ seen' = [seen EXCEPT ![r] = {}]
    BY <1>5 DEF CommitRevoke
  <2>4. \A q \in Request : \A t \in seen'[q] : row'[t] # "none"
    BY <1>0, <2>3 DEF Carries
  <2>5. \A q \in Request : q \in Refresh /\ pc'[q] \in InFlight =>
          presents'[q] \in Token /\ row'[presents'[q]] # "none"
    BY <1>0, <2>3 DEF Carries
  <2>6. \A q \in Exchange \cup Reset :
          /\ pc'[q] \in InFlight \cup {"done"} => presents'[q] \in Code
          /\ pc'[q] = "done" => row'[presents'[q]] = "spent"
    <3> SUFFICES ASSUME NEW q \in Exchange \cup Reset
                 PROVE  /\ pc'[q] \in InFlight \cup {"done"} => presents'[q] \in Code
                        /\ pc'[q] = "done" => row'[presents'[q]] = "spent"
      OBVIOUS
    <3>1. CASE q = r
      BY <1>5, <2>1, <2>2, <2>3, <3>1 DEF Carries, CommitRevoke
    <3>2. CASE q # r
      BY <1>0, <2>3, <3>2 DEF Carries
    <3> QED  BY <3>1, <3>2
  <2> QED  BY <2>2, <2>3, <2>4, <2>5, <2>6 DEF Carries
<1>6. ASSUME NEW r \in Request, Crash(r) PROVE Carries'
  BY <1>0, <1>6 DEF Crash, Carries
<1>7. ASSUME NEW c \in Code, IssueCode(c) PROVE Carries'
  BY <1>0, <1>7 DEF IssueCode, Carries
<1>8. ASSUME NEW x \in Token \cup Code, Expire(x) PROVE Carries'
  BY <1>8 DEF Expire, Carries
<1>9. CASE UNCHANGED vars
  BY <1>9 DEF vars, Carries
<1> QED  BY Steps, <1>1, <1>2, <1>3, <1>4, <1>5, <1>6, <1>7, <1>8, <1>9

LEMMA ShapeNext == Shape /\ [Next]_vars => Shape'
  BY TypeNext, RootedNext, CarriesNext, ContestedNext DEF Shape

LEMMA ShapeAlways == Spec => []Shape
  BY ShapeInit, ShapeNext, PTL DEF Spec

(* TypeOK: rows, places and histories have their types for any requests,   *)
(* tokens and codes; in particular every session is rooted in a login or   *)
(* an exchange (auth/models.py).                                           *)
THEOREM TypeCorrect == Spec => []TypeOK
<1>1. Shape => TypeOK
  BY DEF Shape
<1> QED  BY <1>1, ShapeAlways, PTL

----------------------------------------------------------------------------
(* Codes: a lookup finds only a live code, which no request has used; if   *)
(* another one carries it, the two are rivals.                             *)
Using == InFlight \cup {"done"}

LEMMA CodesNext == Shape /\ CodesApart /\ [Next]_vars => CodesApart'
<1> SUFFICES ASSUME Shape, CodesApart, [Next]_vars,
                    NEW r \in Exchange \cup Reset, NEW q \in Exchange \cup Reset,
                    r # q, presents'[r] = presents'[q], pc'[r] \in Using, pc'[q] \in Using
             PROVE  presents'[r] \in contested'
  BY DEF CodesApart, Using
<1> USE DEF Shape, TypeOK, InFlight, Using
<1>1. contested \subseteq contested'
  BY Steps DEF Refuse, LookedUp, LookUp, Issue, Revoke, CommitRevoke, Crash, IssueCode,
     Expire, vars
<1>2. ASSUME NEW p \in Request, LookedUp(p) PROVE presents'[r] \in contested'
  <2>1. PICK x \in Token \cup Code \cup {Nothing}, next \in {"issue", "purge"} :
          pc[p] = "new" /\ Finds(p, x, next) /\ LookUp(p, x, next)
    BY <1>2 DEF LookedUp
  <2>2. /\ pc' = [pc EXCEPT ![p] = next] /\ presents' = [presents EXCEPT ![p] = x]
        /\ x \in Live \cup LiveCodes /\ (\E o \in Rivals(p) : presents[o] = x)
             => x \in contested'
    BY <2>1 DEF LookUp
  <2>3. ASSUME NEW o \in Exchange \cup Reset, p \in Exchange \cup Reset, o # p,
               presents[o] = x, pc[o] \in Using
        PROVE  x \in contested'
    <3>1. x \in LiveCodes
      BY <2>1, <2>3 DEF Finds
    <3>2. pc[o] # "done"
      BY <2>3, <3>1 DEF Carries, LiveCodes
    <3>3. o \in Rivals(p)
      BY <2>3, <3>2 DEF Rivals
    <3> QED  BY <2>2, <2>3, <3>1, <3>3
  <2>4. CASE p = r
    BY <2>2, <2>3, <2>4
  <2>5. CASE p = q
    BY <2>2, <2>3, <2>5
  <2>6. CASE p \notin {r, q}
    BY <1>1, <2>2, <2>6 DEF CodesApart
  <2> QED  BY <2>4, <2>5, <2>6
<1>3. ASSUME presents' = presents,
             \A p \in {r, q} : pc'[p] \in Using => pc[p] \in Using
      PROVE  presents'[r] \in contested'
  BY <1>1, <1>3 DEF CodesApart
<1>4. ASSUME NEW p \in Request, \/ Refuse(p) \/ Issue(p) \/ Revoke(p)
                                \/ CommitRevoke(p) \/ Crash(p)
      PROVE  presents'[r] \in contested'
  BY <1>3, <1>4 DEF Refuse, Issue, Revoke, CommitRevoke, Crash
<1>5. ASSUME NEW x \in Token \cup Code, IssueCode(x) \/ Expire(x)
      PROVE  presents'[r] \in contested'
  BY <1>3, <1>5 DEF IssueCode, Expire
<1>6. CASE UNCHANGED vars
  BY <1>3, <1>6 DEF vars
<1> QED  BY Steps, <1>2, <1>4, <1>5, <1>6

LEMMA CodesAlways == Spec => []CodesApart
<1>1. Init => CodesApart
  BY DEF Init, CodesApart, InFlight
<1> QED  BY <1>1, CodesNext, ShapeAlways, PTL DEF Spec

(* OneUsePerCode: a handoff code opens one session and a reset token sets  *)
(* one password (auth/service.py:190-201), however many requests carry it  *)
(* one after the other.                                                    *)
THEOREM CodesUsedOnce == Spec => []OneUsePerCode
<1>1. ASSUME CodesApart PROVE OneUsePerCode
  <2> SUFFICES ASSUME NEW c \in Code \ contested
               PROVE  Cardinality(LetThrough(c)) <= 1
    BY DEF OneUsePerCode
  <2>1. \A r, q \in LetThrough(c) : r = q
    BY <1>1 DEF CodesApart, LetThrough, InFlight
  <2>2. CASE LetThrough(c) = {}
    BY <2>2, FS_EmptySet
  <2>3. CASE LetThrough(c) # {}
    <3>1. PICK r : r \in LetThrough(c)
      BY <2>3
    <3>2. LetThrough(c) = {r}
      BY <2>1, <3>1
    <3>3. Cardinality({r}) = 1
      BY FS_Singleton
    <3> QED  BY <3>2, <3>3
  <2> QED  BY <2>2, <2>3
<1> QED  BY <1>1, CodesAlways, PTL

----------------------------------------------------------------------------
(* Purges: the UPDATE of a purge sees every token there is; what comes into*)
(* being while it is uncommitted belongs to a request it raced with.       *)
Overlapped == Purged /\ NoneOutlivesPurge

LEMMA PurgedNext == Shape /\ Overlapped /\ [Next]_vars => Overlapped'
<1> SUFFICES ASSUME Shape, Overlapped, [Next]_vars PROVE Overlapped'
  OBVIOUS
<1> USE DEF Shape, TypeOK, InFlight, Overlapped
<1>1. ASSUME NEW r \in Request, Refuse(r), pc[r] = "new" PROVE Overlapped'
  BY <1>1 DEF Refuse, Purged, NoneOutlivesPurge, Live
<1>2. ASSUME NEW r \in Request, LookedUp(r) PROVE Overlapped'
  <2>1. PICK x \in Token \cup Code \cup {Nothing}, next \in {"issue", "purge"} :
          pc[r] = "new" /\ LookUp(r, x, next)
    BY <1>2 DEF LookedUp
  <2>2. /\ pc' = [pc EXCEPT ![r] = next] /\ seen' = seen /\ outdated' = outdated
        /\ row' = row /\ raced \subseteq raced' /\ (Purging => r \in raced')
    BY <2>1 DEF LookUp
  <2>3. NoneOutlivesPurge'
    BY <2>2 DEF NoneOutlivesPurge, Live
  <2>4. r \notin outdated
    BY <2>1 DEF Purged
  <2>5. ASSUME NEW p \in Request \ Logout, pc'[p] = "commit", NEW t \in Token
        PROVE  t \in seen'[p] \cup raced' \/ pc'[t] \in {"new", "refused", "failed"}
    <3>1. pc[p] = "commit"
      BY <2>2, <2>5
    <3>2. r \in raced'
      BY <2>2, <3>1 DEF Purging
    <3> QED  BY <2>2, <3>1, <3>2 DEF Purged
  <2> QED  BY <2>2, <2>3, <2>4, <2>5 DEF Purged
<1>3. ASSUME NEW r \in Request, Issue(r) PROVE Overlapped'
  <2>1. /\ pc[r] = "issue" /\ pc' = [pc EXCEPT ![r] = "done"] /\ seen' = seen
        /\ outdated' = outdated /\ raced' = raced
    BY <1>3 DEF Issue
  <2>2. \A t \in Token \ {r} : row'[t] = "live" => row[t] = "live"
    BY <1>3 DEF Issue, IssuedAndSpent
  <2>3. r \in outdated => r \in raced
    BY <2>1 DEF Purged, Carries
  <2>4. NoneOutlivesPurge'
    BY <2>1, <2>2, <2>3 DEF NoneOutlivesPurge, Live
  <2> QED  BY <2>1, <2>4 DEF Purged
<1>4. ASSUME NEW r \in Request, Revoke(r) PROVE Overlapped'
  <2>1. /\ pc[r] = "purge" /\ pc' = [pc EXCEPT ![r] = "commit"] /\ outdated' = outdated
        /\ seen' = [seen EXCEPT ![r] = RevokedBy(r)] /\ raced \subseteq raced' /\ row' = row
        /\ r \notin Logout => {q \in Request : pc[q] \in InFlight} \subseteq raced'
    BY <1>4 DEF Revoke
  <2>2. NoneOutlivesPurge'
    BY <2>1 DEF NoneOutlivesPurge, Live
  <2>3. ASSUME r \notin Logout, NEW t \in Token
        PROVE  t \in RevokedBy(r) \cup raced' \/ pc'[t] \in {"new", "refused", "failed"}
    <3>1. pc[t] = "done" => t \in RevokedBy(r)
      BY <2>3 DEF Rooted, RevokedBy
    <3> QED  BY <2>1, <2>3, <3>1 DEF Finished
  <2>4. ASSUME NEW p \in Request \ Logout, pc'[p] = "commit", NEW t \in Token
        PROVE  t \in seen'[p] \cup raced' \/ pc'[t] \in {"new", "refused", "failed"}
    <3>1. CASE p = r
      BY <2>1, <2>3, <3>1
    <3>2. CASE p # r
      BY <2>1, <2>4, <3>2 DEF Purged
    <3> QED  BY <3>1, <3>2
  <2>5. \A t \in outdated' :
          pc'[t] # "new" /\ (t \in Token /\ pc'[t] \in InFlight => t \in raced')
    BY <2>1 DEF Purged
  <2> QED  BY <2>2, <2>4, <2>5 DEF Purged
<1>5. ASSUME NEW r \in Request, CommitRevoke(r) PROVE Overlapped'
  <2>1. /\ pc[r] = "commit" /\ seen' = [seen EXCEPT ![r] = {}] /\ raced' = raced
        /\ pc' = [pc EXCEPT ![r] = IF r \in Refresh THEN "refused" ELSE "done"]
        /\ r \notin Login \cup Exchange
        /\ outdated' = IF r \in Logout THEN outdated ELSE {q \in Request : pc[q] # "new"}
    BY <1>5 DEF CommitRevoke, Carries
  <2>2. \A t \in Token : row'[t] = "live" => row[t] = "live" /\ t \notin seen[r]
    BY <1>5 DEF CommitRevoke
  <2>3. ASSUME NEW p \in Request \ Logout, pc'[p] = "commit", NEW t \in Token
        PROVE  t \in seen'[p] \cup raced' \/ pc'[t] \in {"new", "refused", "failed"}
    <3>1. p # r /\ pc[p] = "commit"
      BY <2>1, <2>3
    <3>2. t \in seen[p] \cup raced \/ pc[t] \in {"new", "refused", "failed"}
      BY <3>1 DEF Purged
    <3>3. t = r => pc'[t] = "refused"
      BY <2>1
    <3> QED  BY <2>1, <3>1, <3>2, <3>3
  <2>4. ASSUME NEW t \in outdated'
        PROVE  /\ pc'[t] # "new"
               /\ t \in Token /\ pc'[t] \in InFlight => t \in raced'
               /\ t \in Live' => t \in raced'
    <3>1. CASE r \in Logout
      BY <2>1, <2>2, <2>4, <3>1 DEF Purged, NoneOutlivesPurge, Live
    <3>2. CASE r \notin Logout
      <4>1. pc[t] # "new" /\ t \in Request
        BY <2>1, <2>4, <3>2
      <4>2. t \in Token /\ pc[t] \in InFlight /\ t # r => t \in raced
        <5>1. t \in seen[r] => t \in Token /\ pc[t] = "done"
          BY DEF Carries, Rooted
        <5> QED  BY <2>1, <3>2, <5>1 DEF Purged
      <4> QED  BY <2>1, <2>2, <3>2, <4>1, <4>2 DEF Purged, Live, Rooted
    <3> QED  BY <3>1, <3>2
  <2> QED  BY <2>3, <2>4 DEF Purged, NoneOutlivesPurge
<1>6. ASSUME NEW r \in Request, Crash(r) PROVE Overlapped'
  BY <1>6 DEF Crash, Purged, NoneOutlivesPurge, Live
<1>7. ASSUME NEW c \in Code, IssueCode(c) PROVE Overlapped'
  BY <1>7 DEF IssueCode, Purged, NoneOutlivesPurge, Live
<1>8. ASSUME NEW x \in Token \cup Code, Expire(x) PROVE Overlapped'
  BY <1>8 DEF Expire, Purged, NoneOutlivesPurge, Live
<1>9. CASE UNCHANGED vars
  BY <1>9 DEF vars, Purged, NoneOutlivesPurge, Live
<1> QED  BY Steps, <1>1, <1>2, <1>3, <1>4, <1>5, <1>6, <1>7, <1>8, <1>9

LEMMA PurgedAlways == Spec => []Overlapped
<1>1. Init => Overlapped
  BY DEF Init, Overlapped, Purged, NoneOutlivesPurge, Live
<1> QED  BY <1>1, PurgedNext, ShapeAlways, PTL DEF Spec

(* NoneOutlivesPurge: a password change, a reset or the reuse of a spent   *)
(* token ends every session (users/service.py:74-97), except what requests *)
(* in flight at the same time issue.                                       *)
THEOREM PurgesEndSessions == Spec => []NoneOutlivesPurge
<1>1. Overlapped => NoneOutlivesPurge
  BY DEF Overlapped
<1> QED  BY <1>1, PurgedAlways, PTL

----------------------------------------------------------------------------
(* Rotation: what a refresh under way carries is the head of its session,  *)
(* and the successor it commits takes that place.                          *)

(* A session that is disputed stays so: the rows of its contested token    *)
(* and that token's root do not change.                                    *)
LEMMA DisputedStays ==
  ASSUME Shape, [Next]_vars
  PROVE  Disputed \subseteq Disputed'
<1> USE DEF Shape, TypeOK
<1>1. contested \subseteq contested'
  BY Steps DEF Refuse, LookedUp, LookUp, Issue, Revoke, CommitRevoke, Crash, IssueCode,
     Expire, vars
<1>2. ASSUME NEW r \in Request, Issue(r), NEW x \in contested \cap Token
      PROVE  root'[x] = root[x]
  <2>1. x # r
    BY <1>2 DEF Issue, ContestedHaveRows, Rooted
  <2> QED  BY <1>2, <2>1 DEF Issue
<1>3. \A x \in contested \cap Token : root'[x] = root[x]
  BY Steps, <1>2 DEF Refuse, LookedUp, LookUp, Revoke, CommitRevoke, Crash, IssueCode,
     Expire, vars
<1> QED  BY <1>1, <1>3 DEF Disputed

(* A refresh that has looked its token up, while nothing else changed but  *)
(* the histories.                                                          *)
LEMMA HeadFound ==
  ASSUME Shape, OneHead, NEW r \in Request, LookedUp(r),
         Disputed \subseteq Disputed'
  PROVE  OneHead'
<1> USE DEF Shape, TypeOK
<1>1. PICK x \in Token \cup Code \cup {Nothing}, next \in {"issue", "purge"} :
        pc[r] = "new" /\ Finds(r, x, next) /\ LookUp(r, x, next)
  BY DEF LookedUp
<1>2. /\ pc' = [pc EXCEPT ![r] = next] /\ presents' = [presents EXCEPT ![r] = x]
      /\ row' = row /\ root' = root /\ contested \subseteq contested'
      /\ x \in Live /\ (\E o \in Rivals(r) : presents[o] = x) => x \in contested'
  BY <1>1 DEF LookUp
<1>3. Live' = Live
  BY <1>2 DEF Live
<1>4. CASE r \in Refresh /\ next = "issue"
  <2>1. Issuing' = Issuing \cup {r} /\ r \notin Issuing
    BY <1>1, <1>2, <1>4 DEF Issuing
  <2>2. x \in Live
    BY <1>1, <1>4 DEF Finds
  <2>3. presents'[r] = x /\ \A o \in Issuing : presents'[o] = presents[o]
    BY <1>2, <2>1 DEF Issuing
  <2>4. \A o \in Issuing : presents[o] = x => x \in contested'
    <3>1. \A o \in Issuing : o \in Rivals(r)
      BY <1>4, <2>1 DEF Issuing, Rivals, InFlight
    <3> QED  BY <1>2, <2>2, <3>1
  <2>5. \A o \in Issuing : root[presents[o]] = root[x] /\ presents[o] # x
          => root[x] \in Disputed'
    BY <2>2 DEF OneHead
  <2>6. \A p, q \in Issuing' :
          p # q /\ presents'[p] = presents'[q] => presents'[p] \in contested'
    BY <1>2, <2>1, <2>3, <2>4 DEF OneHead
  <2>7. \A p, q \in Issuing' :
          root'[presents'[p]] = root'[presents'[q]] /\ presents'[p] # presents'[q]
          => root'[presents'[p]] \in Disputed'
    BY <1>2, <2>1, <2>3, <2>5 DEF OneHead
  <2>8. \A p \in Issuing', t \in Live' :
          root'[t] = root'[presents'[p]] /\ t # presents'[p] => root'[t] \in Disputed'
    BY <1>2, <1>3, <2>1, <2>2, <2>3 DEF OneHead
  <2>9. \A s, t \in Live' : s # t /\ root'[s] = root'[t] => root'[s] \in Disputed'
    BY <1>2, <1>3 DEF OneHead
  <2> QED  BY <2>6, <2>7, <2>8, <2>9 DEF OneHead
<1>5. CASE ~ (r \in Refresh /\ next = "issue")
  <2>1. Issuing' = Issuing /\ \A o \in Issuing : presents'[o] = presents[o]
    BY <1>1, <1>2, <1>5 DEF Issuing
  <2> QED  BY <1>2, <1>3, <2>1 DEF OneHead
<1> QED  BY <1>4, <1>5

(* The successor is committed: it is the only head of its session now.     *)
LEMMA HeadRotated ==
  ASSUME Shape, OneHead, NEW r \in Refresh, Issue(r), Shape',
         Disputed \subseteq Disputed'
  PROVE  OneHead'
<1> USE DEF Shape, TypeOK
<1> DEFINE p == presents[r]
           k == root[p]
<1>1. /\ r \in Issuing /\ p \in Token /\ row[p] # "none" /\ row[r] = "none" /\ p # r
      /\ presents' = presents /\ contested' = contested
      /\ pc' = [pc EXCEPT ![r] = "done"]
  BY DEF Issue, Issuing, Carries, Rooted, InFlight
<1>2. /\ Issuing' = Issuing \ {r}
      /\ Live' = (Live \ {p}) \cup {r}
  BY <1>1 DEF Issuing, Live, Issue, IssuedAndSpent
<1>3. root' = [root EXCEPT ![r] = k]
  BY DEF Issue
<1>4. /\ root'[r] = k
      /\ \A t \in Live : t # r /\ root'[t] = root[t]
      /\ \A o \in Issuing : presents[o] # r /\ root'[presents[o]] = root[presents[o]]
  <2>1. \A o \in Issuing : presents[o] \in Token /\ row[presents[o]] # "none"
    BY DEF Issuing, Carries, InFlight
  <2>2. \A t \in Live : t \in Token /\ t # r
    BY <1>1 DEF Live
  <2> QED  BY <1>1, <1>3, <2>1, <2>2
<1>5. \A t \in Live \ {p} : root[t] = k => k \in Disputed'
  BY <1>1 DEF OneHead
<1>6. \A o \in Issuing \ {r} : root[presents[o]] = k => k \in Disputed'
  <2> SUFFICES ASSUME NEW o \in Issuing \ {r}, root[presents[o]] = k PROVE k \in Disputed
    OBVIOUS
  <2>1. CASE presents[o] = p
    <3>1. p \in contested
      BY <1>1, <2>1 DEF OneHead
    <3> QED  BY <1>1, <3>1 DEF Disputed
  <2>2. CASE presents[o] # p
    BY <1>1, <2>2 DEF OneHead
  <2> QED  BY <2>1, <2>2
<1>7. \A o, q \in Issuing' :
        o # q /\ presents'[o] = presents'[q] => presents'[o] \in contested'
  BY <1>1, <1>2 DEF OneHead
<1>8. \A o, q \in Issuing' :
        root'[presents'[o]] = root'[presents'[q]] /\ presents'[o] # presents'[q]
        => root'[presents'[o]] \in Disputed'
  BY <1>1, <1>2, <1>4 DEF OneHead
<1>9. \A o \in Issuing', t \in Live' :
        root'[t] = root'[presents'[o]] /\ t # presents'[o] => root'[t] \in Disputed'
  BY <1>1, <1>2, <1>4, <1>6 DEF OneHead
<1>10. \A s, t \in Live' : s # t /\ root'[s] = root'[t] => root'[s] \in Disputed'
  BY <1>2, <1>4, <1>5 DEF OneHead
<1> HIDE DEF p, k
<1> QED  BY <1>7, <1>8, <1>9, <1>10 DEF OneHead

(* A new session is opened: no token and no refresh has its root yet.      *)
LEMMA HeadOpened ==
  ASSUME Shape, OneHead, NEW r \in Login \cup Exchange, Issue(r),
         Disputed \subseteq Disputed'
  PROVE  OneHead'
<1> USE DEF Shape, TypeOK
<1>1. /\ row[r] = "none" /\ pc[r] # "done" /\ presents[r] \notin Token
      /\ presents' = presents /\ contested' = contested
      /\ pc' = [pc EXCEPT ![r] = "done"] /\ root' = [root EXCEPT ![r] = r]
  <2>1. pc[r] = "issue" /\ r \in Token /\ r \notin Refresh
    BY DEF Issue
  <2>2. presents[r] \in Code \cup {Nothing}
    BY <2>1 DEF Carries, InFlight
  <2>3. presents[r] \notin Token
    BY <2>2
  <2> QED  BY <2>1, <2>3 DEF Issue, Rooted
<1>2. Issuing' = Issuing /\ Live' = Live \cup {r}
  BY <1>1 DEF Issuing, Live, Issue, IssuedAndSpent
<1>3. \A t \in Token : row[t] # "none" => root[t] # r /\ root'[t] = root[t]
  BY <1>1 DEF Rooted
<1>4. \A t \in Live : t # r /\ root[t] # r /\ root'[t] = root[t]
  BY <1>1, <1>3 DEF Live
<1>5. \A o \in Issuing : root[presents[o]] # r /\ root'[presents[o]] = root[presents[o]]
  BY <1>3 DEF Issuing, Carries, InFlight
<1>6. root'[r] = r
  BY <1>1
<1>7. \A o, q \in Issuing' :
        root'[presents'[o]] = root'[presents'[q]] /\ presents'[o] # presents'[q]
        => root'[presents'[o]] \in Disputed'
  BY <1>1, <1>2, <1>5 DEF OneHead
<1>8. \A o \in Issuing', t \in Live' :
        root'[t] = root'[presents'[o]] /\ t # presents'[o] => root'[t] \in Disputed'
  BY <1>1, <1>2, <1>4, <1>5, <1>6 DEF OneHead
<1>9. \A s, t \in Live' : s # t /\ root'[s] = root'[t] => root'[s] \in Disputed'
  BY <1>2, <1>4, <1>6 DEF OneHead
<1> QED  BY <1>1, <1>2, <1>7, <1>8, <1>9 DEF OneHead

LEMMA OneHeadNext == Shape /\ OneHead /\ [Next]_vars => OneHead'
<1> SUFFICES ASSUME Shape, OneHead, [Next]_vars PROVE OneHead'
  OBVIOUS
<1>1. Disputed \subseteq Disputed'
  BY DisputedStays
<1>2. ASSUME NEW r \in Request, LookedUp(r) PROVE OneHead'
  BY <1>1, <1>2, HeadFound
<1>3. ASSUME NEW r \in Request, Issue(r) PROVE OneHead'
  <2>1. r \in Token
    BY <1>3 DEF Shape, Carries, Issue
  <2>2. Shape'
    BY ShapeNext
  <2> QED  BY <1>1, <1>3, <2>1, <2>2, HeadRotated, HeadOpened
<1>4. ASSUME Live' \subseteq Live, Issuing' \subseteq Issuing,
             UNCHANGED <<root, presents, contested>>
      PROVE  OneHead'
  BY <1>1, <1>4 DEF OneHead
<1>5. ASSUME NEW r \in Request, Refuse(r) \/ Revoke(r) \/ CommitRevoke(r) \/ Crash(r)
      PROVE  OneHead'
  BY <1>4, <1>5 DEF Shape, TypeOK, Refuse, Revoke, CommitRevoke, Crash, Live, Issuing
<1>6. ASSUME NEW x \in Token \cup Code, Expire(x) PROVE OneHead'
  BY <1>4, <1>6 DEF Expire, Live, Issuing
<1>7. ASSUME NEW c \in Code, IssueCode(c) PROVE OneHead'
  BY <1>4, <1>7 DEF Shape, TypeOK, IssueCode, Live, Issuing
<1>8. CASE UNCHANGED vars
  BY <1>4, <1>8 DEF vars, Live, Issuing
<1> QED  BY Steps, <1>2, <1>3, <1>5, <1>6, <1>7, <1>8 DEF Shape

LEMMA OneHeadAlways == Spec => []OneHead
<1>1. Init => OneHead
  BY DEF Init, OneHead, Live, Issuing
<1> QED  BY <1>1, OneHeadNext, ShapeAlways, PTL DEF Spec

(* OneLivePerSession: rotation leaves one usable token per session         *)
(* (auth/service.py:65-93), whatever retries, purges and crashes come      *)
(* between, unless two requests carried one of its tokens at once.         *)
THEOREM OneTokenPerSession == Spec => []OneLivePerSession
<1>1. OneHead => OneLivePerSession
  BY DEF OneHead, OneLivePerSession, Disputed
<1> QED  BY <1>1, OneHeadAlways, PTL

----------------------------------------------------------------------------
(* The exemption of NoneOutlivesPurge is the overlap.                      *)

(* While all sessions are being ended, nothing else is under way.          *)
PurgesAlone ==
  \A r \in Request \ Logout : pc[r] \in {"purge", "commit"} =>
    \A q \in Request : pc[q] \in InFlight => q = r

(* Only a refresh that is itself the purge has raced, and it issues nothing.*)
NobodyRaced ==
  \A t \in raced \cap Token : pc[t] \in {"commit", "refused", "failed"}

LEMMA NobodyRacedNext ==
  Shape /\ PurgesAlone /\ NobodyRaced /\ PurgesAlone' /\ [Next]_vars => NobodyRaced'
<1> SUFFICES ASSUME Shape, PurgesAlone, NobodyRaced, PurgesAlone', [Next]_vars
             PROVE  NobodyRaced'
  OBVIOUS
<1> USE DEF Shape, TypeOK, InFlight, NobodyRaced
<1>1. ASSUME NEW r \in Request, Refuse(r), pc[r] = "new" PROVE NobodyRaced'
  BY <1>1 DEF Refuse
<1>2. ASSUME NEW r \in Request, LookedUp(r) PROVE NobodyRaced'
  <2>1. PICK x \in Token \cup Code \cup {Nothing}, next \in {"issue", "purge"} :
          pc[r] = "new" /\ LookUp(r, x, next)
    BY <1>2 DEF LookedUp
  <2>2. ~ Purging
    <3>1. ASSUME NEW q \in Request \ Logout, pc[q] = "commit" PROVE FALSE
      <4>1. q # r /\ pc'[q] = "commit" /\ pc'[r] \in InFlight
        BY <2>1, <3>1 DEF LookUp
      <4> QED  BY <4>1 DEF PurgesAlone
    <3> QED  BY <3>1 DEF Purging
  <2> QED  BY <2>1, <2>2 DEF LookUp
<1>3. ASSUME NEW r \in Request, Issue(r) PROVE NobodyRaced'
  BY <1>3 DEF Issue
<1>4. ASSUME NEW r \in Request, Revoke(r) PROVE NobodyRaced'
  <2>1. r \notin Logout => {q \in Request : pc[q] \in InFlight} = {r}
    BY <1>4 DEF Revoke, PurgesAlone
  <2>2. raced' \subseteq raced \cup {r} /\ pc' = [pc EXCEPT ![r] = "commit"]
    BY <1>4, <2>1 DEF Revoke
  <2> QED  BY <2>2
<1>5. ASSUME NEW r \in Request, CommitRevoke(r) PROVE NobodyRaced'
  <2>1. r \in Token => r \in Refresh
    BY <1>5 DEF CommitRevoke, Carries
  <2> QED  BY <1>5, <2>1 DEF CommitRevoke
<1>6. ASSUME NEW r \in Request, Crash(r) PROVE NobodyRaced'
  BY <1>6 DEF Crash
<1>7. CASE UNCHANGED <<pc, raced>>
  BY <1>7
<1> QED  BY Steps, <1>1, <1>2, <1>3, <1>4, <1>5, <1>6, <1>7 DEF IssueCode, Expire, vars

(* KillsEverySession: a password change, a reset or the reuse of a spent   *)
(* token does end every session, as the code means it to                   *)
(* (auth/service.py:65-93), as long as no other request is under way       *)
(* while it does.                                                          *)
THEOREM LonePurgesEndAll == Spec /\ []PurgesAlone => []KillsEverySession
<1>1. Init => NobodyRaced
  BY DEF Init, NobodyRaced
<1>2. Shape /\ NobodyRaced /\ NoneOutlivesPurge => KillsEverySession
  BY DEF Shape, Rooted, NobodyRaced, NoneOutlivesPurge, Live, KillsEverySession
<1> QED
  BY <1>1, <1>2, NobodyRacedNext, ShapeAlways, PurgesEndSessions, PTL DEF Spec
=============================================================================
