------------------------ MODULE PaymentMethodsProofs ------------------------
(***************************************************************************)
(* Proofs about PaymentMethods, for any number of requests, cards and      *)
(* numbers.                                                                *)
(***************************************************************************)
EXTENDS PaymentMethods, TLAPS

USE PaymentMethodConstants DEF Request, Method, Customer, InFlight, Finished

(* Where each kind of request can be, and what it has by then.             *)
SetupPlaced ==
  \A r \in Setup : pc[r] \in {"new", "stripe", "flush", "commit"} \cup Finished

ConfirmPlaced ==
  \A r \in Confirm :
    /\ pc[r] \in {"new", "stripe", "flush", "rows", "commit"} \cup Finished
    /\ pc[r] \in {"flush", "rows", "commit", "done"} => reference[r] \in Card

LinkPlaced == \A r \in Link : pc[r] \in {"new", "rows", "commit"} \cup Finished

DeletePlaced ==
  \A r \in Delete :
    /\ pc[r] \in {"new", "detach", "delete"} \cup Finished
    /\ pc[r] = "detach" => target[r] \in Confirm
    /\ pc[r] \in {"detach", "delete"} => target[r] \in Method /\ row[target[r]] # "none"

RowsPlaced == \A m \in Method : row[m] # "none" => pc[m] = "done"

Placed == SetupPlaced /\ ConfirmPlaced /\ LinkPlaced /\ DeletePlaced /\ RowsPlaced

Shape == TypeOK /\ Placed

(* One request's part in a step.                                           *)
Moves(r) == StripeStep(r) \/ RowStep(r) \/ Crash(r)

LEMMA Steps == ASSUME [Next]_vars PROVE (\E r \in Request : Moves(r)) \/ UNCHANGED vars
  BY DEF Next, Moves, Rest

----------------------------------------------------------------------------
(* Type correctness.                                                       *)

LEMMA MeetType ==
  ASSUME TypeOK, NEW r \in Request, Meet(r) PROVE met' \in [Request -> SUBSET Request]
  BY DEF TypeOK, Meet, Busy

LEMMA TypeNext == Shape /\ [Next]_vars => TypeOK'
<1> SUFFICES ASSUME Shape, NEW r \in Request, Moves(r) PROVE TypeOK'
  BY Steps DEF Shape, TypeOK, vars
<1> USE DEF Shape, TypeOK, rows, work, Goto
<1>1. CASE LoadUser(r)
  BY <1>1, MeetType DEF LoadUser
<1>2. CASE StartSetup(r)
  BY <1>2 DEF StartSetup, CreatedOnce
<1>3. ASSUME NEW c \in Card, RetrieveCard(r, c) PROVE TypeOK'
  <2> DEFINE cus == CreatedOnce(r, uses[r])
  <2>1. /\ r \in Confirm /\ cus \in Customer
        /\ reference' = [reference EXCEPT ![r] = c]
        /\ seen' = [seen EXCEPT ![r] = IF attached[c] = Gone THEN None ELSE attached[c]]
        /\ uses' = [uses EXCEPT ![r] = cus]
        /\ UNCHANGED <<rows, found, target, met, unheard, crashes>>
    BY <1>3 DEF RetrieveCard, CreatedOnce
  <2>2. \E to \in {"flush", "rows", "refused", "failed"} : Goto(r, to)
    BY <1>3 DEF RetrieveCard
  <2>3. attached' = attached \/ attached' = [attached EXCEPT ![c] = cus]
    BY <1>3 DEF RetrieveCard
  <2> QED  BY <2>1, <2>2, <2>3
<1>4. CASE FlushCustomer(r)
  <2>1. r \in Setup \/ (r \in Confirm /\ reference[r] \in Card)
    BY <1>4 DEF FlushCustomer, Placed, LinkPlaced, DeletePlaced, ConfirmPlaced
  <2> QED  BY <1>4, <2>1 DEF FlushCustomer
<1>5. CASE CommitSetup(r)
  BY <1>5 DEF CommitSetup
<1>6. ASSUME NEW c \in Card, ConfirmSetupIntent(r, c) PROVE TypeOK'
  BY <1>6 DEF ConfirmSetupIntent
<1>7. ASSUME NEW n \in Number, ListNumbers(r, n) PROVE TypeOK'
  BY <1>7, MeetType DEF ListNumbers
<1>8. CASE RefuseNumber(r)
  BY <1>8, MeetType DEF RefuseNumber, Refuse
<1>9. CASE UnsetDefault(r)
  BY <1>9 DEF UnsetDefault, OfUser, Linked
<1>10. CASE CommitMethod(r)
  <2>1. isDefault' \in [Method -> BOOLEAN]
    <3>1. ASSUME NEW m \in Method
          PROVE  (CASE m = r -> DefaultAsAsked(r)
                    [] m \in found[r] -> FALSE
                    [] OTHER -> isDefault[m]) \in BOOLEAN
      <4>1. CASE m = r
        <5>1. DefaultAsAsked(r) \in BOOLEAN
          BY DEF DefaultAsAsked
        <5>2. CASE DefaultAsAsked(r)
          BY <4>1, <5>2
        <5>3. CASE ~ DefaultAsAsked(r)
          BY <4>1, <5>1, <5>3
        <5> QED  BY <5>2, <5>3
      <4>2. CASE m # r /\ m \in found[r]
        BY <4>2
      <4>3. CASE m # r /\ m \notin found[r]
        BY <4>3
      <4> QED  BY <4>1, <4>2, <4>3
    <3> QED  BY <1>10, <3>1, Zenon DEF CommitMethod
  <2>2. customer' \in Customer \cup {None}
    BY <1>10 DEF CommitMethod
  <2> QED  BY <1>10, <2>1, <2>2 DEF CommitMethod
<1>11. CASE ReadMethod(r)
  BY <1>11, MeetType, SMTT(30) DEF ReadMethod, Linked
<1>12. CASE DetachCard(r)
  <2>1. r \in Delete /\ target[r] \in Confirm /\ reference[target[r]] \in Card
    BY <1>12 DEF DetachCard, Placed, SetupPlaced, ConfirmPlaced, LinkPlaced, DeletePlaced,
       RowsPlaced
  <2> QED  BY <1>12, <2>1 DEF DetachCard, DetachedIf
<1>13. CASE CommitDelete(r)
  BY <1>13 DEF CommitDelete
<1>14. CASE Crash(r)
  BY <1>14 DEF Crash
<1> QED  BY <1>1, <1>2, <1>3, <1>4, <1>5, <1>6, <1>7, <1>8, <1>9, <1>10, <1>11, <1>12,
         <1>13, <1>14 DEF Moves, StripeStep, RowStep

----------------------------------------------------------------------------
(* A step is one request's and leaves the others as they are, but for the  *)
(* row it deletes and the requests it meets.                               *)
Same(q) ==
  /\ pc'[q] = pc[q] /\ uses'[q] = uses[q] /\ met[q] \subseteq met'[q]
  /\ q \in Method => /\ reference'[q] = reference[q] /\ found'[q] = found[q]
                     /\ row'[q] = row[q] \/ row[q] # "none"
                     /\ row'[q] = "linked" => row[q] = "linked"
                     /\ isDefault'[q] => isDefault[q]
  /\ q \in Delete => target'[q] = target[q]

LEMMA MetGrows ==
  ASSUME TypeOK, NEW r \in Request, Meet(r), NEW q \in Request, q # r
  PROVE  met[q] \subseteq met'[q]
  BY DEF Meet, TypeOK

LEMMA Movement ==
  ASSUME Shape, NEW r \in Request, Moves(r), NEW q \in Request, q # r PROVE Same(q)
<1> USE DEF Shape, TypeOK, rows, work, Goto, Same
<1>1. CASE LoadUser(r) \/ StartSetup(r) \/ CommitSetup(r) \/ Crash(r) \/ UnsetDefault(r)
  BY <1>1, MetGrows DEF LoadUser, StartSetup, CommitSetup, Crash, UnsetDefault
<1>2. ASSUME NEW c \in Card, RetrieveCard(r, c) PROVE Same(q)
  <2>1. /\ r \in Confirm /\ \E to \in {"flush", "rows", "refused", "failed"} : Goto(r, to)
        /\ \E cus : uses' = [uses EXCEPT ![r] = cus]
        /\ reference' = [reference EXCEPT ![r] = c]
        /\ UNCHANGED <<rows, found, target, met>>
    BY <1>2 DEF RetrieveCard
  <2> QED  BY <2>1
<1>3. CASE FlushCustomer(r)
  BY <1>3 DEF FlushCustomer
<1>4. ASSUME NEW c \in Card, ConfirmSetupIntent(r, c) PROVE Same(q)
  BY <1>4 DEF ConfirmSetupIntent
<1>5. ASSUME NEW n \in Number, ListNumbers(r, n) PROVE Same(q)
  BY <1>5, MetGrows DEF ListNumbers
<1>6. CASE RefuseNumber(r) \/ ReadMethod(r)
  BY <1>6, MetGrows DEF RefuseNumber, Refuse, ReadMethod
<1>7. CASE CommitMethod(r)
  <2>1. q \in Method => (isDefault'[q] => isDefault[q])
    BY <1>7 DEF CommitMethod
  <2> QED  BY <1>7, <2>1 DEF CommitMethod
<1>8. CASE DetachCard(r)
  BY <1>8 DEF DetachCard
<1>9. CASE CommitDelete(r)
  <2>1. pc[r] = "delete" => r \in Delete
    BY DEF Placed, SetupPlaced, ConfirmPlaced, LinkPlaced
  <2>2. r \in Delete /\ target[r] \in Method /\ row[target[r]] # "none"
    BY <1>9, <2>1 DEF CommitDelete, Placed, DeletePlaced
  <2>3. row'[target[r]] = "deleted"
    BY <1>9, <2>2 DEF CommitDelete
  <2> QED  BY <1>9, <2>2, <2>3 DEF CommitDelete
<1> QED  BY <1>1, <1>2, <1>3, <1>4, <1>5, <1>6, <1>7, <1>8, <1>9
         DEF Moves, StripeStep, RowStep

(* A row stays a row.                                                      *)
LEMMA RowsStay ==
  ASSUME Shape, NEW r \in Request, Moves(r), NEW m \in Method, row[m] # "none"
  PROVE  row'[m] # "none"
  BY DEF Shape, TypeOK, rows, work, Moves, StripeStep, RowStep, LoadUser, StartSetup,
     RetrieveCard, FlushCustomer, CommitSetup, ConfirmSetupIntent, ListNumbers,
     RefuseNumber, Refuse, UnsetDefault, CommitMethod, ReadMethod, DetachCard,
     CommitDelete, Crash

LEMMA SetupKept ==
  ASSUME Shape, NEW r \in Request, Moves(r) PROVE SetupPlaced'
<1> SUFFICES ASSUME NEW q \in Setup
             PROVE  pc'[q] \in {"new", "stripe", "flush", "commit"} \cup Finished
  BY DEF SetupPlaced
<1>1. CASE q # r
  BY <1>1, Movement DEF Same, Shape, Placed, SetupPlaced
<1>2. CASE q = r
  <2> USE DEF Shape, TypeOK, Placed, SetupPlaced, Goto
  <2>1. CASE LoadUser(r) \/ StartSetup(r) \/ FlushCustomer(r) \/ CommitSetup(r)
    BY <1>2, <2>1 DEF LoadUser, StartSetup, FlushCustomer, CommitSetup
  <2>2. ASSUME NEW c \in Card, ConfirmSetupIntent(r, c) PROVE pc' = pc
    BY <2>2 DEF ConfirmSetupIntent
  <2> QED  BY <1>2, <2>1, <2>2 DEF Moves, StripeStep, RowStep, RetrieveCard, ListNumbers,
           RefuseNumber, UnsetDefault, CommitMethod, ReadMethod, DetachCard, CommitDelete,
           Crash
<1> QED  BY <1>1, <1>2

LEMMA ConfirmKept ==
  ASSUME Shape, NEW r \in Request, Moves(r) PROVE ConfirmPlaced'
<1> SUFFICES ASSUME NEW q \in Confirm
             PROVE  /\ pc'[q] \in {"new", "stripe", "flush", "rows", "commit"} \cup Finished
                    /\ pc'[q] \in {"flush", "rows", "commit", "done"} => reference'[q] \in Card
  BY DEF ConfirmPlaced
<1> USE DEF Shape, TypeOK, Placed, ConfirmPlaced, Goto, work
<1>1. CASE q # r
  BY <1>1, Movement DEF Same
<1>2. CASE q = r
  <2>1. CASE LoadUser(r) \/ UnsetDefault(r) \/ CommitMethod(r) \/ Crash(r)
    BY <1>2, <2>1, ZenonT(60) DEF LoadUser, UnsetDefault, CommitMethod, Crash
  <2>3. CASE FlushCustomer(r)
    <3>1. /\ pc[r] = "flush" /\ \E to \in {"refused", "failed", "rows"} : Goto(r, to)
          /\ reference' = reference
      BY <1>2, <2>3 DEF FlushCustomer
    <3> QED  BY <1>2, <3>1
  <2>2. ASSUME NEW c \in Card, RetrieveCard(r, c)
        PROVE  /\ reference'[r] = c
               /\ \E to \in {"flush", "rows", "refused", "failed"} : Goto(r, to)
    BY <2>2 DEF RetrieveCard
  <2> QED  BY <1>2, <2>1, <2>2, <2>3 DEF Moves, StripeStep, RowStep, StartSetup, CommitSetup,
           ConfirmSetupIntent, ListNumbers, RefuseNumber, ReadMethod, DetachCard,
           CommitDelete, DeletePlaced
<1> QED  BY <1>1, <1>2

LEMMA LinkKept ==
  ASSUME Shape, NEW r \in Request, Moves(r) PROVE LinkPlaced'
<1> SUFFICES ASSUME NEW q \in Link PROVE pc'[q] \in {"new", "rows", "commit"} \cup Finished
  BY DEF LinkPlaced
<1> USE DEF Shape, TypeOK, Placed, LinkPlaced, Goto
<1>1. CASE q # r
  BY <1>1, Movement DEF Same
<1>2. CASE q = r
  <2>1. ASSUME NEW n \in Number, ListNumbers(r, n)
        PROVE  pc'[r] \in {"refused", "rows"}
    BY <2>1 DEF ListNumbers
  <2>2. CASE RefuseNumber(r) \/ UnsetDefault(r) \/ CommitMethod(r) \/ Crash(r)
    BY <1>2, <2>2 DEF RefuseNumber, Refuse, UnsetDefault, CommitMethod, Crash
  <2> QED  BY <1>2, <2>1, <2>2 DEF Moves, StripeStep, RowStep, LoadUser, StartSetup,
           RetrieveCard, FlushCustomer, CommitSetup, ConfirmSetupIntent, ReadMethod,
           DetachCard, CommitDelete
<1> QED  BY <1>1, <1>2

LEMMA DeleteKept ==
  ASSUME Shape, NEW r \in Request, Moves(r) PROVE DeletePlaced'
<1> SUFFICES ASSUME NEW q \in Delete
             PROVE  /\ pc'[q] \in {"new", "detach", "delete"} \cup Finished
                    /\ pc'[q] = "detach" => target'[q] \in Confirm
                    /\ pc'[q] \in {"detach", "delete"} =>
                         target'[q] \in Method /\ row'[target'[q]] # "none"
  BY DEF DeletePlaced
<1> USE DEF Shape, TypeOK, Placed, DeletePlaced, Goto, rows, work
<1>1. CASE q # r
  <2>1. pc'[q] = pc[q] /\ target'[q] = target[q]
    BY <1>1, Movement DEF Same
  <2>2. pc[q] \in {"detach", "delete"} => row'[target[q]] # "none"
    BY RowsStay
  <2> QED  BY <2>1, <2>2
<1>2. CASE q = r
  <2>1. CASE ReadMethod(r)
    <3>1. /\ row' = row
          /\ \/ pc'[r] = "refused"
             \/ \E m \in Linked : /\ target'[r] = m /\ pc'[r] \in {"detach", "delete"}
                                  /\ pc'[r] = "detach" => m \in Confirm
      BY <1>2, <2>1 DEF ReadMethod, Linked
    <3> QED  BY <1>2, <3>1 DEF Linked
  <2>2. CASE DetachCard(r)
    <3>1. pc[r] = "detach" /\ pc'[r] = "delete" /\ target' = target /\ row' = row
      BY <2>2 DEF DetachCard
    <3> QED  BY <1>2, <3>1
  <2>3. CASE CommitDelete(r) \/ Crash(r)
    <3>1. pc'[r] \in {"done", "failed"}
      BY <2>3 DEF CommitDelete, Crash
    <3> QED  BY <1>2, <3>1
  <2> QED  BY <1>2, <2>1, <2>2, <2>3 DEF Moves, StripeStep, RowStep, LoadUser, StartSetup,
           RetrieveCard, FlushCustomer, CommitSetup, ConfirmSetupIntent, ListNumbers,
           RefuseNumber, UnsetDefault, CommitMethod
<1> QED  BY <1>1, <1>2

LEMMA RowsKept ==
  ASSUME Shape, NEW r \in Request, Moves(r) PROVE RowsPlaced'
<1> SUFFICES ASSUME NEW m \in Method, row'[m] # "none" PROVE pc'[m] = "done"
  BY DEF RowsPlaced
<1> USE DEF Shape, TypeOK, Placed, RowsPlaced, Goto, rows, work
<1>1. CASE m # r
  <2>1. pc'[m] = pc[m] /\ (row'[m] = row[m] \/ row[m] # "none")
    BY <1>1, Movement DEF Same
  <2> QED  BY <2>1
<1>2. CASE m = r
  <2>1. CASE CommitMethod(r)
    BY <1>2, <2>1 DEF CommitMethod
  <2>2. CASE CommitDelete(r)
    BY <1>2, <2>2 DEF CommitDelete, ConfirmPlaced, LinkPlaced
  <2>3. CASE row' = row /\ pc[r] = "done" /\ Moves(r)
    BY <1>2, <2>3 DEF Moves, StripeStep, RowStep, LoadUser, Fresh, StartSetup, RetrieveCard,
       FlushCustomer, CommitSetup, ConfirmSetupIntent, ListNumbers, RefuseNumber, Refuse,
       UnsetDefault, CommitMethod, ReadMethod, DetachCard, CommitDelete, Crash
  <2>4. row' = row \/ CommitMethod(r) \/ CommitDelete(r)
    BY DEF Moves, StripeStep, RowStep, LoadUser, StartSetup, RetrieveCard, FlushCustomer,
       CommitSetup, ConfirmSetupIntent, ListNumbers, RefuseNumber, Refuse, UnsetDefault,
       ReadMethod, DetachCard, Crash
  <2> QED  BY <1>2, <2>1, <2>2, <2>3, <2>4
<1> QED  BY <1>1, <1>2

LEMMA ShapeNext == Shape /\ [Next]_vars => Shape'
<1> SUFFICES ASSUME Shape, [Next]_vars PROVE Placed'
  BY TypeNext DEF Shape
<1>1. CASE UNCHANGED vars
  BY <1>1 DEF Shape, Placed, SetupPlaced, ConfirmPlaced, LinkPlaced, DeletePlaced,
     RowsPlaced, vars
<1>2. ASSUME NEW r \in Request, Moves(r) PROVE Placed'
  BY <1>2, SetupKept, ConfirmKept, LinkKept, DeleteKept, RowsKept DEF Placed
<1> QED  BY <1>1, <1>2, Steps

LEMMA ShapeInit == Init => Shape
  BY DEF Init, Shape, TypeOK, Placed, SetupPlaced, ConfirmPlaced, LinkPlaced, DeletePlaced,
     RowsPlaced

LEMMA ShapeAlways == Spec => []Shape
  BY ShapeInit, ShapeNext, PTL DEF Spec

(* Requests, rows, customers and cards stay in their sets.                 *)
THEOREM TypeCorrect == Spec => []TypeOK
<1>1. Shape => TypeOK
  BY DEF Shape
<1> QED  BY <1>1, ShapeAlways, PTL

----------------------------------------------------------------------------
(* Who has met whom: any two requests in progress, and both of them know.  *)
Acquainted ==
  /\ \A q, r \in Request : q # r /\ {pc[q], pc[r]} \subseteq InFlight => q \in met[r]
  /\ \A q, r \in Request : q \in met[r] => r \in met[q] /\ pc[q] # "new"

(* A request meets the others with its first step, and afterwards only     *)
(* leaves.                                                                 *)
LEMMA MeetsOnce ==
  ASSUME Shape, NEW r \in Request, Moves(r)
  PROVE  \/ pc[r] = "new" /\ Meet(r) /\ pc'[r] # "new"
         \/ /\ met' = met /\ (pc'[r] \in InFlight => pc[r] \in InFlight)
            /\ pc[r] # "new" /\ pc'[r] # "new"
<1> USE DEF Shape, TypeOK, Goto
<1>1. CASE LoadUser(r) \/ ReadMethod(r) \/ RefuseNumber(r)
  BY <1>1 DEF LoadUser, ReadMethod, RefuseNumber, Refuse, Fresh
<1>2. ASSUME NEW n \in Number, ListNumbers(r, n) PROVE pc[r] = "new" /\ Meet(r) /\ pc'[r] # "new"
  BY <1>2 DEF ListNumbers, Fresh
<1>3. ASSUME \/ StartSetup(r) \/ CommitSetup(r) \/ UnsetDefault(r) \/ CommitMethod(r)
             \/ CommitDelete(r) \/ DetachCard(r) \/ Crash(r) \/ FlushCustomer(r)
      PROVE  /\ met' = met /\ pc[r] \in InFlight
             /\ \E to \in InFlight \cup Finished : Goto(r, to)
  <2>1. CASE StartSetup(r) \/ CommitSetup(r) \/ UnsetDefault(r) \/ CommitMethod(r)
    BY <2>1 DEF StartSetup, CommitSetup, UnsetDefault, CommitMethod
  <2>2. CASE CommitDelete(r) \/ DetachCard(r) \/ Crash(r)
    BY <2>2 DEF CommitDelete, DetachCard, Crash
  <2>3. CASE FlushCustomer(r)
    BY <2>3 DEF FlushCustomer
  <2> QED  BY <1>3, <2>1, <2>2, <2>3
<1>4. ASSUME NEW c \in Card, RetrieveCard(r, c)
      PROVE  /\ met' = met /\ pc[r] = "stripe"
             /\ \E to \in {"flush", "rows", "refused", "failed"} : Goto(r, to)
  BY <1>4 DEF RetrieveCard
<1>5. ASSUME NEW c \in Card, ConfirmSetupIntent(r, c)
      PROVE  met' = met /\ pc' = pc /\ pc[r] = "done"
  BY <1>5 DEF ConfirmSetupIntent
<1> QED  BY <1>1, <1>2, <1>3, <1>4, <1>5 DEF Moves, StripeStep, RowStep

LEMMA AcquaintedNext == Shape /\ Acquainted /\ [Next]_vars => Acquainted'
<1> SUFFICES ASSUME Shape, Acquainted, [Next]_vars,
                    NEW q \in Request, NEW p \in Request
             PROVE  /\ q # p /\ {pc'[q], pc'[p]} \subseteq InFlight => q \in met'[p]
                    /\ q \in met'[p] => p \in met'[q] /\ pc'[q] # "new"
  BY DEF Acquainted
<1> USE DEF Shape, TypeOK
<1>0. /\ q # p /\ {pc[q], pc[p]} \subseteq InFlight => q \in met[p]
      /\ q \in met[p] => p \in met[q] /\ pc[q] # "new" /\ pc[p] # "new"
      /\ p \in met[q] => q \in met[p]
  BY DEF Acquainted
<1>1. ASSUME NEW r \in Request, Moves(r), pc[r] = "new", Meet(r), pc'[r] # "new"
      PROVE  /\ q # p /\ {pc'[q], pc'[p]} \subseteq InFlight => q \in met'[p]
             /\ q \in met'[p] => p \in met'[q] /\ pc'[q] # "new"
  <2>1. \A s \in Request \ {r} : pc'[s] = pc[s]
    BY <1>1, Movement DEF Same
  <2>2. /\ \A s \in Request : s \in met'[r] <=> pc[s] \in InFlight
        /\ \A s \in Request \ {r}, t \in Request :
             t \in met'[s] <=> t \in met[s] \/ (t = r /\ pc[s] \in InFlight)
    BY <1>1 DEF Meet, Busy
  <2>3. CASE q = r
    BY <1>0, <1>1, <2>1, <2>2, <2>3
  <2>4. CASE p = r
    BY <1>0, <1>1, <2>1, <2>2, <2>4
  <2>5. CASE q # r /\ p # r
    BY <1>0, <1>1, <2>1, <2>2, <2>5
  <2> QED  BY <2>3, <2>4, <2>5
<1>2. ASSUME NEW r \in Request, Moves(r), met' = met, pc'[r] \in InFlight => pc[r] \in InFlight,
             pc'[r] # "new"
      PROVE  /\ q # p /\ {pc'[q], pc'[p]} \subseteq InFlight => q \in met'[p]
             /\ q \in met'[p] => p \in met'[q] /\ pc'[q] # "new"
  <2>1. \A s \in Request \ {r} : pc'[s] = pc[s]
    BY <1>2, Movement DEF Same
  <2> QED  BY <1>0, <1>2, <2>1
<1>3. CASE UNCHANGED vars
  BY <1>0, <1>3 DEF vars
<1> QED  BY <1>1, <1>2, <1>3, Steps, MeetsOnce

LEMMA AcquaintedAlways == Spec => []Acquainted
<1>1. Init => Acquainted
  BY DEF Init, Acquainted
<1> QED  BY <1>1, ShapeAlways, AcquaintedNext, PTL DEF Spec

(* What a request has met it does not forget.                              *)
LEMMA MetStays ==
  ASSUME Shape, Acquainted, NEW r \in Request, Moves(r), NEW q \in Request
  PROVE  met[q] \subseteq met'[q]
<1>1. CASE q # r
  BY <1>1, Movement DEF Same
<1>2. CASE q = r /\ pc[r] = "new"
  <2>1. met[r] = {}
    BY <1>2 DEF Acquainted, Shape, TypeOK
  <2> QED  BY <1>2, <2>1
<1>3. CASE q = r /\ pc[r] # "new"
  BY <1>3, MeetsOnce DEF Shape, TypeOK
<1> QED  BY <1>1, <1>2, <1>3

----------------------------------------------------------------------------
(* One default: a request that has looked for the rows to unset has met    *)
(* those whose rows it did not find.                                       *)
Searched ==
  \A r \in Method : pc[r] = "commit" /\ r \in SetDefault =>
    \A m \in Linked \ found[r] : m \in met[r]

Defaults ==
  /\ Searched /\ OneDefault
  /\ \A m \in Method : isDefault[m] => m \in SetDefault

(* Rows come into being by their own request's commit.                     *)
LEMMA NewRows ==
  ASSUME Shape, NEW r \in Request, Moves(r), NEW m \in Linked' PROVE
    m \in Linked \/ (m = r /\ CommitMethod(r))
<1> USE DEF Shape, TypeOK, rows, work, Linked
<1>1. CASE m # r
  BY <1>1, Movement DEF Same
<1>2. CASE row' = row
  BY <1>2
<1>3. CASE CommitDelete(r)
  BY <1>3 DEF CommitDelete
<1> QED  BY <1>1, <1>2, <1>3 DEF Moves, StripeStep, RowStep, LoadUser, StartSetup,
         RetrieveCard, FlushCustomer, CommitSetup, ConfirmSetupIntent, ListNumbers,
         RefuseNumber, Refuse, UnsetDefault, ReadMethod, DetachCard, Crash

LEMMA SearchedNext ==
  ASSUME Shape, Acquainted, Acquainted', Searched, NEW r \in Request, Moves(r)
  PROVE  Searched'
<1> SUFFICES ASSUME NEW q \in Method, pc'[q] = "commit", q \in SetDefault,
                    NEW m \in Linked', m \notin found'[q]
             PROVE  m \in met'[q]
  BY DEF Searched
<1> USE DEF Shape, TypeOK
<1>1. CASE q = r
  <2>1. CASE UnsetDefault(r)
    <3>1. found'[r] = Linked /\ row' = row
      BY <1>1, <2>1 DEF UnsetDefault, OfUser, rows
    <3> QED  BY <1>1, <3>1 DEF Linked
  <2>2. pc'[r] = "commit" => UnsetDefault(r) \/ r \in Setup
    <3>1. ASSUME NEW c \in Card, RetrieveCard(r, c) PROVE pc'[r] # "commit"
      <4>1. \E to \in {"flush", "rows", "refused", "failed"} : Goto(r, to)
        BY <3>1 DEF RetrieveCard
      <4> QED  BY <4>1 DEF Goto
    <3>2. ASSUME NEW c \in Card, ConfirmSetupIntent(r, c) PROVE pc'[r] # "commit"
      BY <3>2 DEF ConfirmSetupIntent
    <3>3. ASSUME FlushCustomer(r), r \notin Setup PROVE pc'[r] # "commit"
      BY <3>3 DEF FlushCustomer, Goto
    <3>4. ASSUME NEW n \in Number, ListNumbers(r, n) PROVE pc'[r] # "commit"
      BY <3>4 DEF ListNumbers, Goto
    <3> QED  BY <3>1, <3>2, <3>3, <3>4 DEF Goto, Moves, StripeStep, RowStep, LoadUser, StartSetup, RetrieveCard,
       FlushCustomer, CommitSetup, ConfirmSetupIntent, ListNumbers, RefuseNumber, Refuse,
       CommitMethod, ReadMethod, DetachCard, CommitDelete, Crash
  <2> QED  BY <1>1, <2>1, <2>2
<1>2. CASE q # r
  <2>1. /\ pc[q] = "commit" /\ found'[q] = found[q] /\ met[q] \subseteq met'[q]
    BY <1>2, Movement DEF Same
  <2>2. CASE m \in Linked
    BY <2>1, <2>2 DEF Searched
  <2>3. CASE m = r /\ CommitMethod(r)
    <3>1. pc[m] = "commit"
      BY <2>3 DEF CommitMethod
    <3> QED  BY <1>2, <2>1, <2>3, <3>1 DEF Acquainted
  <2> QED  BY <2>2, <2>3, NewRows
<1> QED  BY <1>1, <1>2

LEMMA OneDefaultNext ==
  ASSUME Shape, Acquainted, Acquainted', Defaults, NEW r \in Request, Moves(r)
  PROVE  OneDefault'
<1> SUFFICES ASSUME NEW m \in Linked', NEW n \in Linked', m # n, isDefault'[m], isDefault'[n]
             PROVE  m \in met'[n]
  BY DEF OneDefault
<1> USE DEF Shape, TypeOK
<1>1. ASSUME CommitMethod(r), NEW k \in Linked, isDefault'[k], k # r, isDefault'[r]
      PROVE  k \in met'[r] /\ r \in met'[k]
  <2>1. k \notin found[r] /\ r \in SetDefault
    BY <1>1 DEF CommitMethod, DefaultAsAsked, Linked
  <2>2. k \in met[r]
    BY <1>1, <2>1 DEF Defaults, Searched, CommitMethod
  <2>3. k \in met'[r]
    BY <2>2, MetStays
  <2> QED  BY <1>1, <2>3 DEF Acquainted, Linked
<1>2. CASE m \in Linked /\ n \in Linked /\ ~ (CommitMethod(r) /\ r \in {m, n})
  <2>1. isDefault[m] /\ isDefault[n]
    <3>1. ASSUME NEW k \in {m, n}, k # r PROVE isDefault[k]
      BY <1>2, <3>1, Movement DEF Same, Linked
    <3>2. ASSUME NEW k \in {m, n}, k = r PROVE isDefault[k]
      BY <1>2, <3>2 DEF Moves, StripeStep, RowStep, rows, work, LoadUser, StartSetup,
         RetrieveCard, FlushCustomer, CommitSetup, ConfirmSetupIntent, ListNumbers,
         RefuseNumber, Refuse, UnsetDefault, ReadMethod, DetachCard, CommitDelete, Crash
    <3> QED  BY <3>1, <3>2
  <2> QED  BY <1>2, <2>1, MetStays DEF Defaults, OneDefault, Linked
<1>3. CASE CommitMethod(r) /\ r \in {m, n}
  <2>1. \A k \in {m, n} : k # r => k \in Linked
    BY NewRows
  <2> QED  BY <1>1, <1>3, <2>1
<1> QED  BY <1>2, <1>3, NewRows

LEMMA DefaultsNext ==
  Shape /\ Acquainted /\ Acquainted' /\ Defaults /\ [Next]_vars => Defaults'
<1> SUFFICES ASSUME Shape, Acquainted, Acquainted', Defaults, [Next]_vars PROVE Defaults'
  OBVIOUS
<1>1. CASE UNCHANGED vars
  <2>1. Searched' /\ OneDefault'
    BY <1>1 DEF Defaults, Searched, OneDefault, Linked, vars
  <2> QED  BY <1>1, <2>1 DEF Defaults, vars
<1>2. ASSUME NEW r \in Request, Moves(r), NEW m \in Method, isDefault'[m]
      PROVE  m \in SetDefault
  <2>1. CASE CommitMethod(r) /\ m = r
    BY <1>2, <2>1 DEF CommitMethod, DefaultAsAsked
  <2>2. CASE m # r
    BY <1>2, <2>2, Movement DEF Same, Defaults
  <2>3. CASE isDefault' = isDefault
    BY <1>2, <2>3 DEF Defaults
  <2> QED  BY <1>2, <2>1, <2>2, <2>3 DEF Moves, StripeStep, RowStep, rows, work, LoadUser,
           StartSetup, RetrieveCard, FlushCustomer, CommitSetup, ConfirmSetupIntent,
           ListNumbers, RefuseNumber, Refuse, UnsetDefault, ReadMethod, DetachCard,
           CommitDelete, Crash
<1>3. ASSUME NEW r \in Request, Moves(r) PROVE Searched' /\ OneDefault'
  BY <1>3, SearchedNext, OneDefaultNext DEF Defaults
<1> QED  BY <1>1, <1>2, <1>3, Steps DEF Defaults

(* One method at most is the default, however requests link, delete and    *)
(* die, unless the two that set a default were in progress at once.        *)
THEOREM DefaultIsUnique == Spec => []OneDefault
<1>1. Init => Defaults
  BY DEF Init, Defaults, Searched, OneDefault, Linked
<1>2. Defaults => OneDefault
  BY DEF Defaults
<1> QED  BY <1>1, <1>2, DefaultsNext, ShapeAlways, AcquaintedAlways, PTL DEF Spec

----------------------------------------------------------------------------
(* One row per number: a request that did not find its number in the list  *)
(* has met those that link it afterwards.                                  *)
NotListed ==
  \A r \in Link : pc[r] \in {"rows", "commit"} =>
    \A m \in Linked \cap Link : reference[m] = reference[r] => m \in met[r]

Numbers == NotListed /\ OneRowPerNumber

(* How a request for a number goes on.                                     *)
LEMMA NumberListed ==
  ASSUME Shape, NEW r \in Link, Moves(r), pc'[r] \in {"rows", "commit"}
  PROVE  \/ /\ With(reference'[r]) = {} /\ row' = row
            /\ \A m \in Method \ {r} : reference'[m] = reference[m]
         \/ pc[r] \in {"rows", "commit"} /\ reference' = reference /\ row' = row
<1> USE DEF Shape, TypeOK, Goto, rows, work
<1>1. ASSUME NEW n \in Number, ListNumbers(r, n), pc'[r] # "refused"
      PROVE  /\ With(reference'[r]) = {} /\ row' = row
             /\ \A m \in Method \ {r} : reference'[m] = reference[m]
  BY <1>1 DEF ListNumbers
<1>2. CASE RefuseNumber(r)
  BY <1>2 DEF RefuseNumber, Refuse
<1>3. CASE UnsetDefault(r) \/ CommitMethod(r) \/ Crash(r)
  BY <1>3 DEF UnsetDefault, CommitMethod, Crash
<1> QED  BY <1>1, <1>2, <1>3 DEF Moves, StripeStep, RowStep, LoadUser, StartSetup,
         RetrieveCard, FlushCustomer, CommitSetup, ConfirmSetupIntent, ReadMethod,
         DetachCard, CommitDelete, Placed, LinkPlaced

(* A linked row keeps its reference.                                       *)
LEMMA ReferenceStays ==
  ASSUME Shape, NEW r \in Request, Moves(r), NEW m \in Method,
         pc[m] \in {"rows", "commit", "done"}
  PROVE  reference'[m] = reference[m]
<1>1. CASE m # r
  BY <1>1, Movement DEF Same
<1>2. CASE m = r
  BY <1>2 DEF Moves, StripeStep, RowStep, rows, work, LoadUser, StartSetup, RetrieveCard,
     FlushCustomer, CommitSetup, ConfirmSetupIntent, ListNumbers, Fresh, RefuseNumber,
     Refuse, UnsetDefault, CommitMethod, ReadMethod, DetachCard, CommitDelete, Crash
<1> QED  BY <1>1, <1>2

LEMMA NotListedNext ==
  ASSUME Shape, Acquainted, Acquainted', Numbers, NEW r \in Request, Moves(r)
  PROVE  NotListed'
<1> SUFFICES ASSUME NEW q \in Link, pc'[q] \in {"rows", "commit"},
                    NEW m \in Linked' \cap Link, reference'[m] = reference'[q]
             PROVE  m \in met'[q]
  BY DEF NotListed
<1> USE DEF Shape, TypeOK
<1>0. m \in Linked => reference'[m] = reference[m]
  BY ReferenceStays DEF Linked, Placed, RowsPlaced
<1>1. CASE q = r
  <2>1. row' = row /\ m \in Linked
    BY <1>1, NumberListed DEF Linked
  <2>2. CASE With(reference'[r]) = {}
    BY <1>0, <1>1, <2>1, <2>2 DEF With
  <2>3. CASE pc[r] \in {"rows", "commit"} /\ reference' = reference
    BY <1>1, <2>1, <2>3, MetStays DEF Numbers, NotListed
  <2> QED  BY <1>1, <2>2, <2>3, NumberListed
<1>2. CASE q # r
  <2>1. pc[q] \in {"rows", "commit"} /\ reference'[q] = reference[q]
    BY <1>2, Movement DEF Same
  <2>2. CASE m \in Linked
    <3>1. m \in met[q]
      BY <1>0, <2>1, <2>2 DEF Numbers, NotListed
    <3> QED  BY <3>1, MetStays
  <2>3. CASE m = r /\ CommitMethod(r)
    <3>1. pc[m] = "commit" /\ m # q
      BY <1>2, <2>3 DEF CommitMethod
    <3>2. m \in met[q]
      BY <2>1, <3>1 DEF Acquainted
    <3> QED  BY <3>2, MetStays
  <2> QED  BY <2>2, <2>3, NewRows
<1> QED  BY <1>1, <1>2

LEMMA OneRowNext ==
  ASSUME Shape, Acquainted, Acquainted', Numbers, NEW r \in Request, Moves(r)
  PROVE  OneRowPerNumber'
<1> SUFFICES ASSUME NEW m \in Linked' \cap Link, NEW n \in Linked' \cap Link, m # n,
                    reference'[m] = reference'[n]
             PROVE  m \in met'[n]
  BY DEF OneRowPerNumber
<1> USE DEF Shape, TypeOK
<1>0. \A k \in {m, n} : k \in Linked => reference'[k] = reference[k]
  BY ReferenceStays DEF Linked, Placed, RowsPlaced
<1>1. CASE m \in Linked /\ n \in Linked
  <2>1. m \in met[n]
    BY <1>0, <1>1 DEF Numbers, OneRowPerNumber
  <2> QED  BY <2>1, MetStays
<1>2. ASSUME CommitMethod(r), r \in Link, NEW k \in Linked \cap Link,
             reference'[k] = reference'[r]
      PROVE  k \in met'[r] /\ r \in met'[k]
  <2>1. pc[r] = "commit" /\ reference' = reference
    BY <1>2 DEF CommitMethod, work
  <2>2. k \in met[r]
    BY <1>2, <2>1 DEF Numbers, NotListed
  <2>3. k \in met'[r]
    BY <2>2, MetStays
  <2> QED  BY <2>3 DEF Acquainted
<1> QED  BY <1>1, <1>2, NewRows

LEMMA NumbersNext ==
  Shape /\ Acquainted /\ Acquainted' /\ Numbers /\ [Next]_vars => Numbers'
<1> SUFFICES ASSUME Shape, Acquainted, Acquainted', Numbers, [Next]_vars PROVE Numbers'
  OBVIOUS
<1>1. CASE UNCHANGED vars
  BY <1>1 DEF Numbers, NotListed, OneRowPerNumber, Linked, vars
<1>2. ASSUME NEW r \in Request, Moves(r) PROVE Numbers'
  BY <1>2, NotListedNext, OneRowNext DEF Numbers
<1> QED  BY <1>1, <1>2, Steps

(* A number is linked once, through deletions, crashes and any number of   *)
(* attempts, unless two requests for it were in progress at once.          *)
THEOREM NumberIsUnique == Spec => []OneRowPerNumber
<1>1. Init => Numbers
  BY DEF Init, Numbers, NotListed, OneRowPerNumber, Linked
<1>2. Numbers => OneRowPerNumber
  BY DEF Numbers
<1> QED  BY <1>1, <1>2, NumbersNext, ShapeAlways, AcquaintedAlways, PTL DEF Spec

----------------------------------------------------------------------------
(* The cards at Stripe.                                                    *)

(* A card without a customer gets one, and one with a customer loses it    *)
(* for good.                                                               *)
LEMMA AttachedMoves ==
  ASSUME Shape, NEW r \in Request, Moves(r), NEW c \in Card
  PROVE  \/ attached'[c] = attached[c]
         \/ attached[c] = None /\ r \in Customer /\ attached'[c] = uses'[r]
         \/ attached[c] = None /\ pc[r] = "flush" /\ r \in Confirm /\ attached'[c] = r
         \/ attached'[c] = Gone
<1> USE DEF Shape, TypeOK, Goto, work
<1>1. ASSUME NEW d \in Card, RetrieveCard(r, d), attached' # attached
      PROVE  /\ attached[d] = None /\ uses'[r] = CreatedOnce(r, uses[r]) /\ r \in Confirm
             /\ attached' = [attached EXCEPT ![d] = CreatedOnce(r, uses[r])]
  BY <1>1 DEF RetrieveCard
<1>2. ASSUME FlushCustomer(r), attached' # attached
      PROVE  /\ pc[r] = "flush" /\ r \in Confirm /\ attached[reference[r]] = None
             /\ attached' = [attached EXCEPT ![reference[r]] = r]
  BY <1>2 DEF FlushCustomer, Placed, LinkPlaced, DeletePlaced
<1>3. ASSUME NEW d \in Card, ConfirmSetupIntent(r, d)
      PROVE  /\ attached[d] = None /\ uses' = uses /\ r \in Setup
             /\ attached' = [attached EXCEPT ![d] = uses[r]]
  BY <1>3 DEF ConfirmSetupIntent
<1>4. CASE DetachCard(r)
  <2>1. \E d, heard : attached' = [attached EXCEPT ![d] = DetachedIf(attached[d], heard)]
    BY <1>4 DEF DetachCard
  <2> QED  BY <2>1 DEF DetachedIf
<1>5. CASE \E d \in Card : RetrieveCard(r, d) \/ ConfirmSetupIntent(r, d)
  BY <1>1, <1>3, <1>5
<1>6. CASE FlushCustomer(r)
  BY <1>2, <1>6
<1>7. \/ attached' = attached
      \/ DetachCard(r) \/ FlushCustomer(r)
      \/ \E d \in Card : RetrieveCard(r, d) \/ ConfirmSetupIntent(r, d)
  BY DEF Moves, StripeStep, RowStep, rows, LoadUser, StartSetup, CommitSetup, ListNumbers,
     RefuseNumber, Refuse, UnsetDefault, CommitMethod, ReadMethod, CommitDelete, Crash
<1> QED  BY <1>4, <1>5, <1>6, <1>7

Hung ==
  \A m \in Confirm : pc[m] \in {"rows", "commit", "done"} => attached[reference[m]] # None

(* What a delete leaves behind of the card, once it has asked Stripe.      *)
Detached(c) == attached[c] = Gone \/ c \in unheard

Detaching ==
  \A r \in Delete : pc[r] = "delete" /\ target[r] \in Confirm => Detached(reference[target[r]])

(* Cards lost stay lost, and what has a customer had one or has none left. *)
LEMMA CardsStay ==
  ASSUME Shape, NEW r \in Request, Moves(r), NEW c \in Card
  PROVE  /\ attached[c] # None => attached'[c] # None
         /\ Detached(c) => Detached(c)'
<1>1. attached[c] # None => attached'[c] # None
  BY AttachedMoves
<1>2. attached[c] = Gone => attached'[c] = Gone
  BY AttachedMoves
<1>3. unheard \subseteq unheard'
  BY DEF Moves, StripeStep, RowStep, LoadUser, StartSetup, RetrieveCard, FlushCustomer,
     CommitSetup, ConfirmSetupIntent, ListNumbers, RefuseNumber, Refuse, UnsetDefault,
     CommitMethod, ReadMethod, DetachCard, CommitDelete, Crash
<1> QED  BY <1>1, <1>2, <1>3 DEF Detached

LEMMA HungNext ==
  ASSUME Shape, Hung, NEW r \in Request, Moves(r) PROVE Hung'
<1> SUFFICES ASSUME NEW m \in Confirm, pc'[m] \in {"rows", "commit", "done"}
             PROVE  attached'[reference'[m]] # None
  BY DEF Hung
<1> USE DEF Shape, TypeOK, Goto, rows, work
<1>1. CASE pc[m] \in {"rows", "commit", "done"}
  <2>1. reference'[m] = reference[m] /\ reference[m] \in Card
    BY <1>1, ReferenceStays DEF Placed, ConfirmPlaced
  <2> QED  BY <1>1, <2>1, CardsStay DEF Hung
<1>2. CASE pc[m] \notin {"rows", "commit", "done"}
  <2>1. m = r
    BY <1>2, Movement DEF Same
  <2>2. ASSUME NEW c \in Card, RetrieveCard(r, c), pc'[r] \in {"rows", "commit", "done"}
        PROVE  reference'[r] = c /\ attached'[c] # None
    BY <2>2 DEF RetrieveCard, CreatedOnce
  <2>3. CASE FlushCustomer(r)
    <3>1. reference[r] \in Card /\ reference' = reference
      BY <2>1, <2>3 DEF FlushCustomer, Placed, ConfirmPlaced
    <3>2. attached' = [attached EXCEPT ![reference[r]] = r]
      BY <1>2, <2>1, <2>3 DEF FlushCustomer
    <3> QED  BY <2>1, <3>1, <3>2
  <2>4. CASE LoadUser(r) \/ Crash(r)
    BY <2>1, <2>4 DEF LoadUser, Crash
  <2> QED  BY <1>2, <2>1, <2>2, <2>3, <2>4 DEF Moves, StripeStep, RowStep, StartSetup,
           CommitSetup, ConfirmSetupIntent, ListNumbers, RefuseNumber, UnsetDefault,
           CommitMethod, ReadMethod, DetachCard, CommitDelete, Placed, ConfirmPlaced
<1> QED  BY <1>1, <1>2

LEMMA DetachingNext ==
  ASSUME Shape, Hung, Detaching, NEW r \in Request, Moves(r) PROVE Detaching'
<1> SUFFICES ASSUME NEW q \in Delete, pc'[q] = "delete", NEW m \in Confirm, target'[q] = m
             PROVE  \/ attached'[reference'[m]] = Gone
                    \/ reference'[m] \in unheard'
  BY DEF Detaching, Detached
<1> USE DEF Shape, TypeOK, Goto, rows, work
<1>1. ASSUME pc[q] \in {"detach", "delete"}, target[q] = m
      PROVE  reference'[m] = reference[m] /\ reference[m] \in Card
  BY <1>1, ReferenceStays DEF Placed, RowsPlaced, DeletePlaced, ConfirmPlaced
<1>2. CASE pc[q] = "delete" /\ target[q] = m
  <2>1. Detached(reference[m])
    BY <1>2 DEF Detaching
  <2> QED  BY <1>1, <1>2, <2>1, CardsStay DEF Detached
<1>3. CASE q = r /\ DetachCard(r)
  <2>1. pc[q] = "detach" /\ target' = target
    BY <1>3 DEF DetachCard
  <2>2. row[m] # "none" /\ reference[m] \in Card /\ reference'[m] = reference[m]
    BY <1>1, <2>1 DEF Placed, DeletePlaced
  <2>3. attached[reference[m]] # None
    BY <2>2 DEF Hung, Placed, RowsPlaced
  <2>4. \E heard \in BOOLEAN :
          /\ attached' = [attached EXCEPT ![reference[m]] =
                            DetachedIf(attached[reference[m]], heard)]
          /\ unheard' = IF heard THEN unheard ELSE unheard \cup {reference[m]}
    BY <1>3, <2>1 DEF DetachCard
  <2> QED  BY <2>2, <2>3, <2>4 DEF DetachedIf
<1>4. \/ pc[q] = "delete" /\ target[q] = m
      \/ q = r /\ DetachCard(r)
  <2>1. CASE q # r
    BY <2>1, Movement DEF Same
  <2>2. CASE q = r /\ ReadMethod(r)
    <3>1. \E k \in Linked : k = m /\ pc'[r] = (IF k \in Confirm THEN "detach" ELSE "delete")
      BY <2>2 DEF ReadMethod
    <3> QED  BY <2>2, <3>1
  <2>3. ASSUME q = r
        PROVE  r \notin Setup \cup Confirm \cup Link /\ pc[r] # "flush"
    BY <2>3 DEF Placed, DeletePlaced
  <2>4. q = r => ReadMethod(r) \/ DetachCard(r) \/ CommitDelete(r) \/ Crash(r)
    BY <2>3 DEF Moves, StripeStep, RowStep, LoadUser, StartSetup, RetrieveCard,
       FlushCustomer, CommitSetup, ConfirmSetupIntent, ListNumbers, RefuseNumber,
       UnsetDefault, CommitMethod
  <2>5. q = r => ~ CommitDelete(r) /\ ~ Crash(r)
    BY DEF CommitDelete, Crash
  <2> QED  BY <2>1, <2>2, <2>4, <2>5
<1> QED  BY <1>2, <1>3, <1>4

LEMMA DeletedNext ==
  ASSUME Shape, Hung, Detaching, DeletedIsDetached, NEW r \in Request, Moves(r)
  PROVE  DeletedIsDetached'
<1> SUFFICES ASSUME NEW m \in Confirm, row'[m] = "deleted"
             PROVE  \/ attached'[reference'[m]] = Gone
                    \/ reference'[m] \in unheard'
  BY DEF DeletedIsDetached
<1> USE DEF Shape, TypeOK, Goto, rows, work
<1>1. CASE Detached(reference[m]) /\ row[m] # "none"
  <2>1. reference'[m] = reference[m] /\ reference[m] \in Card
    BY <1>1, ReferenceStays DEF Placed, RowsPlaced, ConfirmPlaced
  <2> QED  BY <1>1, <2>1, CardsStay DEF Detached
<1>2. CASE row[m] = "deleted"
  BY <1>1, <1>2 DEF DeletedIsDetached, Detached
<1>3. CASE CommitDelete(r) /\ row[m] # "deleted"
  <2>1. r \in Delete /\ pc[r] = "delete" /\ row' = [row EXCEPT ![target[r]] = "deleted"]
    BY <1>3 DEF CommitDelete, Placed, SetupPlaced, ConfirmPlaced, LinkPlaced
  <2>2. target[r] = m /\ row[m] # "none"
    BY <1>3, <2>1 DEF Placed, DeletePlaced
  <2> QED  BY <1>1, <2>1, <2>2 DEF Detaching
<1>4. CASE CommitMethod(r)
  BY <1>2, <1>4 DEF CommitMethod
<1>5. row' = row \/ CommitDelete(r) \/ CommitMethod(r)
  BY DEF Moves, StripeStep, RowStep, LoadUser, StartSetup, RetrieveCard, FlushCustomer,
     CommitSetup, ConfirmSetupIntent, ListNumbers, RefuseNumber, Refuse, UnsetDefault,
     ReadMethod, DetachCard, Crash
<1> QED  BY <1>2, <1>3, <1>4, <1>5

(* A deleted card has been detached at Stripe too, or Stripe was asked and *)
(* failed: in no order of deletions, deaths and later confirmations is a   *)
(* row gone while its card hangs on the customer unasked.                  *)
THEOREM DeletedMeansDetached == Spec => []DeletedIsDetached
<1> DEFINE Cards == Hung /\ Detaching /\ DeletedIsDetached
<1>1. Init => Cards
  BY DEF Init, Hung, Detaching, DeletedIsDetached
<1>2. Shape /\ Cards /\ [Next]_vars => Cards'
  <2>1. ASSUME Cards, UNCHANGED vars PROVE Cards'
    BY <2>1 DEF Hung, Detaching, Detached, DeletedIsDetached, vars
  <2>2. ASSUME Shape, Cards, NEW r \in Request, Moves(r) PROVE Cards'
    BY <2>2, HungNext, DetachingNext, DeletedNext
  <2> QED  BY <2>1, <2>2, Steps
<1> QED  BY <1>1, <1>2, ShapeAlways, PTL DEF Spec

----------------------------------------------------------------------------
(* The customer.  A new one is named after the request that creates it.    *)
Creators == {k \in Customer : uses[k] = k}

Working ==
  \A r \in Customer : /\ pc[r] = "new" => uses[r] = None
                      /\ pc[r] = "stripe" => uses[r] # r
                      /\ pc[r] = "flush" \/ (r \in Setup /\ pc[r] = "commit") => uses[r] = r

(* Customers in use, in the user row and on cards have been created.       *)
Created ==
  /\ customer # None => customer \in Creators /\ pc[customer] = "done"
  /\ \A r \in Customer : uses[r] # None => uses[r] \in Creators
  /\ \A c \in Card : attached[c] \in Creators \cup {None, Gone}

(* A customer that was committed is the user's or has met the one that is. *)
Replaced == \A k \in Creators : pc[k] = "done" => customer = k \/ customer \in met[k]

(* A request that found no customer has met those that were committed since.*)
FirstUse ==
  \A r \in Customer, k \in Creators :
    pc[r] \in InFlight /\ uses[r] \in {None, r} /\ pc[k] = "done" => k \in met[r]

Customers == Working /\ Created /\ Replaced /\ FirstUse

(* How the customer of a request and of the user come about.               *)
LEMMA UsesMoves ==
  ASSUME Shape, Customers, NEW r \in Request, Moves(r)
  PROVE  /\ \/ /\ uses' = uses /\ pc'[r] \notin {"new", "stripe", "flush"}
               /\ r \in Customer => pc[r] \in InFlight
               /\ r \in Setup /\ pc'[r] = "commit" => uses[r] = r
            \/ uses' = uses /\ pc' = pc
            \/ /\ r \in Customer /\ pc[r] = "new" /\ pc'[r] = "stripe"
               /\ uses' = [uses EXCEPT ![r] = customer]
            \/ /\ r \in Customer /\ pc[r] = "stripe"
               /\ pc'[r] \notin {"new", "stripe", "commit"}
               /\ uses' = [uses EXCEPT ![r] = CreatedOnce(r, uses[r])]
               /\ pc'[r] = "flush" => uses'[r] = r
         /\ pc'[r] = "done" /\ pc[r] # "done" /\ r \in Customer /\ uses'[r] = r =>
              customer' = r
         /\ \/ customer' = customer
            \/ r \in Customer /\ pc[r] \in InFlight /\ pc'[r] = "done" /\ uses' = uses
               /\ uses[r] = r /\ customer' = r
<1> USE DEF Shape, TypeOK, Goto, rows, work
<1>1. CASE LoadUser(r)
  BY <1>1 DEF LoadUser, Fresh
<1>2. CASE StartSetup(r)
  BY <1>2 DEF StartSetup
<1>3. ASSUME NEW c \in Card, RetrieveCard(r, c)
      PROVE  /\ r \in Confirm /\ pc[r] = "stripe" /\ customer' = customer
             /\ uses' = [uses EXCEPT ![r] = CreatedOnce(r, uses[r])]
             /\ pc'[r] \in {"flush", "rows", "refused", "failed"}
             /\ pc'[r] = "flush" => uses'[r] = r
  <2>1. \E to \in {"flush", "rows", "refused", "failed"} :
          Goto(r, to) /\ (to = "flush" => CreatedOnce(r, uses[r]) = r)
    BY <1>3 DEF RetrieveCard
  <2>2. /\ r \in Confirm /\ pc[r] = "stripe" /\ customer' = customer
        /\ uses' = [uses EXCEPT ![r] = CreatedOnce(r, uses[r])]
    BY <1>3 DEF RetrieveCard
  <2> QED  BY <2>1, <2>2
<1>4. CASE FlushCustomer(r)
  <2>1. /\ pc[r] = "flush" /\ uses' = uses /\ customer' = customer
        /\ pc'[r] \in {"commit", "rows", "refused", "failed"}
    BY <1>4 DEF FlushCustomer
  <2> QED  BY <2>1 DEF Customers, Working
<1>5. CASE CommitSetup(r)
  BY <1>5 DEF CommitSetup, Customers, Working
<1>6. ASSUME NEW c \in Card, ConfirmSetupIntent(r, c)
      PROVE  uses' = uses /\ pc' = pc /\ customer' = customer
  BY <1>6 DEF ConfirmSetupIntent
<1>7. ASSUME NEW n \in Number, ListNumbers(r, n)
      PROVE  r \in Link /\ uses' = uses /\ customer' = customer
             /\ pc'[r] \in {"refused", "rows"}
  BY <1>7 DEF ListNumbers
<1>8. CASE RefuseNumber(r) \/ ReadMethod(r)
  <2>1. /\ r \in Link \cup Delete /\ uses' = uses /\ customer' = customer
        /\ pc'[r] \in {"refused", "detach", "delete"}
    BY <1>8 DEF RefuseNumber, Refuse, ReadMethod
  <2> QED  BY <2>1
<1>9. CASE UnsetDefault(r) \/ CommitMethod(r)
  <2>1. /\ r \in Confirm \cup Link /\ uses' = uses /\ pc[r] \in InFlight
        /\ pc'[r] \in {"commit", "done"}
        /\ \/ pc'[r] = "commit" /\ customer' = customer
           \/ pc'[r] = "done" /\ customer' = IF uses[r] = r THEN r ELSE customer
    BY <1>9 DEF UnsetDefault, CommitMethod
  <2> QED  BY <2>1
<1>10. CASE DetachCard(r) \/ CommitDelete(r) \/ Crash(r)
  <2>1. /\ uses' = uses /\ customer' = customer /\ pc[r] \in InFlight
        /\ pc'[r] \in {"delete", "done", "failed"}
        /\ pc'[r] = "done" => pc[r] = "delete"
    BY <1>10 DEF DetachCard, CommitDelete, Crash
  <2> QED  BY <2>1 DEF Placed, SetupPlaced, ConfirmPlaced
<1> QED  BY <1>1, <1>2, <1>3, <1>4, <1>5, <1>6, <1>7, <1>8, <1>9, <1>10
         DEF Moves, StripeStep, RowStep

LEMMA CreatorsStay ==
  ASSUME Shape, Customers, NEW r \in Request, Moves(r), NEW k \in Creators
  PROVE  k \in Creators' /\ (pc[k] = "done" => pc'[k] = "done")
<1>1. CASE k # r
  BY <1>1, Movement DEF Creators, Same
<1>2. CASE k = r
  BY <1>2, UsesMoves DEF Creators, Customers, Working, Shape, TypeOK
<1> QED  BY <1>1, <1>2

LEMMA CustomersNext ==
  ASSUME Shape, Acquainted, Acquainted', Customers, NEW r \in Request, Moves(r)
  PROVE  Customers'
<1> USE DEF Shape, TypeOK
<1>1. Working'
  <2> SUFFICES ASSUME NEW q \in Customer
               PROVE  /\ pc'[q] = "new" => uses'[q] = None
                      /\ pc'[q] = "stripe" => uses'[q] # q
                      /\ pc'[q] = "flush" \/ (q \in Setup /\ pc'[q] = "commit") =>
                           uses'[q] = q
    BY DEF Working
  <2>1. CASE q # r
    BY <2>1, Movement DEF Same, Customers, Working
  <2>2. CASE q = r
    <3>1. customer # r \/ pc[r] = "done"
      BY DEF Customers, Created
    <3> QED  BY <2>2, <3>1, UsesMoves DEF Customers, Working
  <2> QED  BY <2>1, <2>2
<1>2. Created'
  <2>1. customer' # None => customer' \in Creators' /\ pc'[customer'] = "done"
    <3>1. CASE customer' = customer
      BY <3>1, CreatorsStay DEF Customers, Created
    <3>2. CASE r \in Customer /\ pc'[r] = "done" /\ uses' = uses /\ uses[r] = r
               /\ customer' = r
      BY <3>2 DEF Creators
    <3> QED  BY <3>1, <3>2, UsesMoves
  <2>2. ASSUME NEW q \in Customer, uses'[q] # None PROVE uses'[q] \in Creators'
    <3>1. CASE uses'[q] = uses[q]
      BY <2>2, <3>1, CreatorsStay DEF Customers, Created
    <3>2. CASE uses'[q] = q
      BY <3>2 DEF Creators
    <3>3. CASE uses'[q] = customer
      BY <2>2, <3>3, CreatorsStay DEF Customers, Created
    <3>4. CASE q # r
      BY <3>1, <3>4, Movement DEF Same
    <3> QED  BY <3>1, <3>2, <3>3, <3>4, UsesMoves DEF CreatedOnce
  <2>3. ASSUME NEW c \in Card PROVE attached'[c] \in Creators' \cup {None, Gone}
    <3>1. CASE attached'[c] = attached[c]
      BY <3>1, CreatorsStay DEF Customers, Created
    <3>2. CASE r \in Confirm /\ pc[r] = "flush" /\ attached'[c] = r
      <4>1. r \in Creators
        BY <3>2 DEF Customers, Working, Creators
      <4> QED  BY <3>2, <4>1, CreatorsStay
    <3> QED  BY <2>2, <3>1, <3>2, AttachedMoves
  <2> QED  BY <2>1, <2>2, <2>3 DEF Created
<1>3. Replaced'
  <2> SUFFICES ASSUME NEW k \in Creators', pc'[k] = "done"
               PROVE  customer' = k \/ customer' \in met'[k]
    BY DEF Replaced
  <2>0. k \in Customer /\ uses'[k] = k
    BY DEF Creators
  <2>1. CASE customer' = k
    BY <2>1
  <2>2. CASE customer' # k
    <3>1. k \in Creators /\ pc[k] = "done"
      <4>1. CASE k # r
        BY <2>0, <4>1, Movement DEF Same, Creators
      <4>2. CASE k = r
        <5>1. pc[r] = "done"
          BY <2>0, <2>2, <4>2, UsesMoves
        <5> QED  BY <2>0, <4>2, <5>1, UsesMoves DEF Creators
      <4> QED  BY <4>1, <4>2
    <3>2. CASE customer' = customer
      BY <2>2, <3>1, <3>2, MetStays DEF Customers, Replaced, Creators
    <3>3. CASE r \in Customer /\ pc[r] \in InFlight /\ uses[r] = r /\ customer' = r
      <4>1. k \in met[r]
        BY <3>1, <3>3 DEF Customers, FirstUse
      <4>2. r \in met[k]
        BY <3>1, <4>1 DEF Acquainted, Creators
      <4> QED  BY <2>0, <3>3, <4>2, MetStays
    <3> QED  BY <3>2, <3>3, UsesMoves
  <2> QED  BY <2>1, <2>2
<1>4. FirstUse'
  <2> SUFFICES ASSUME NEW q \in Customer, NEW k \in Creators', pc'[q] \in InFlight,
                      uses'[q] \in {None, q}, pc'[k] = "done"
               PROVE  k \in met'[q]
    BY DEF FirstUse
  <2>0. k \in Customer /\ uses'[k] = k /\ k # q
    BY DEF Creators
  <2>1. CASE pc[q] \in InFlight /\ uses[q] \in {None, q} /\ k \in Creators /\ pc[k] = "done"
    BY <2>1, MetStays DEF Customers, FirstUse
  <2>2. CASE q = r
    <3>1. k \in Creators /\ pc[k] = "done"
      BY <2>0, <2>2, Movement DEF Same, Creators
    <3>2. CASE pc[r] = "new" /\ uses' = [uses EXCEPT ![r] = customer]
      <4>1. customer = None
        BY <2>2, <3>2 DEF Customers, Created
      <4>2. customer = k \/ customer \in met[k]
        BY <3>1 DEF Customers, Replaced
      <4> QED  BY <2>0, <4>1, <4>2
    <3>3. CASE pc[r] = "stripe" /\ uses' = [uses EXCEPT ![r] = CreatedOnce(r, uses[r])]
      <4>1. uses[r] = None
        BY <2>2, <3>3 DEF CreatedOnce, Customers, Working
      <4> QED  BY <2>1, <2>2, <3>1, <3>3, <4>1
    <3> QED  BY <2>1, <2>2, <3>1, <3>2, <3>3, UsesMoves
  <2>3. CASE k = r /\ pc[r] # "done"
    <3>1. pc[r] \in InFlight
      BY <2>0, <2>3, UsesMoves
    <3>2. pc[q] \in InFlight
      BY <2>0, <2>3, Movement DEF Same
    <3>3. r \in met[q]
      BY <2>0, <2>3, <3>1, <3>2 DEF Acquainted
    <3> QED  BY <2>3, <3>3, MetStays
  <2>4. CASE q # r /\ ~ (k = r /\ pc[r] # "done")
    <3>1. pc[q] \in InFlight /\ uses[q] \in {None, q}
      BY <2>4, Movement DEF Same
    <3>2. k \in Creators /\ pc[k] = "done"
      <4>1. CASE k # r
        BY <2>0, <4>1, Movement DEF Same, Creators
      <4>2. CASE k = r
        BY <2>0, <2>4, <4>2, UsesMoves DEF Creators
      <4> QED  BY <4>1, <4>2
    <3> QED  BY <2>1, <3>1, <3>2
  <2> QED  BY <2>2, <2>3, <2>4
<1> QED  BY <1>1, <1>2, <1>3, <1>4 DEF Customers

LEMMA CustomersAlways == Spec => []Customers
<1>1. Init => Customers
  BY DEF Init, Customers, Working, Created, Replaced, FirstUse, Creators
<1>2. Shape /\ Acquainted /\ Acquainted' /\ Customers /\ [Next]_vars => Customers'
  <2>1. ASSUME Customers, UNCHANGED vars PROVE Customers'
    BY <2>1 DEF Customers, Working, Created, Replaced, FirstUse, Creators, vars
  <2> QED  BY <2>1, CustomersNext, Steps
<1> QED  BY <1>1, <1>2, ShapeAlways, AcquaintedAlways, PTL DEF Spec

(* No card hangs on a customer that was the user's and silently replaced:  *)
(* a committed customer gives way only to a first use of Stripe that was in*)
(* progress at the same time.                                              *)
THEOREM CardsOfOneCustomer == Spec => []OwnCustomer
<1>1. Shape /\ Customers => OwnCustomer
  BY DEF Shape, TypeOK, Customers, Created, Replaced, OwnCustomer
<1> QED  BY <1>1, ShapeAlways, CustomersAlways, PTL

----------------------------------------------------------------------------
(* The exemptions are the concurrency: a user who waits for each answer    *)
(* before asking again needs none of them.                                 *)
OneAtATime == \A r, q \in Busy : r = q

(* Of two requests that have met, one was refused outright.                *)
Strangers ==
  \A r, q \in Request : q \in met[r] => pc[r] = "refused" \/ pc[q] = "refused"

LEMMA StrangersNext ==
  Shape /\ Acquainted /\ Strangers /\ OneAtATime' /\ [Next]_vars => Strangers'
<1> SUFFICES ASSUME Shape, Acquainted, Strangers, OneAtATime', [Next]_vars
             PROVE  Strangers'
  OBVIOUS
<1>1. CASE UNCHANGED vars
  BY <1>1 DEF Strangers, vars
<1>2. ASSUME NEW r \in Request, Moves(r) PROVE Strangers'
  <2> USE DEF Shape, TypeOK, Goto
  <2>1. \A q \in Request : pc[q] = "refused" => pc'[q] = "refused"
    <3>1. pc[r] # "refused"
      BY <1>2 DEF Moves, StripeStep, RowStep, LoadUser, StartSetup, RetrieveCard,
         FlushCustomer, CommitSetup, ConfirmSetupIntent, ListNumbers, RefuseNumber, Fresh,
         UnsetDefault, CommitMethod, ReadMethod, DetachCard, CommitDelete, Crash
    <3> QED  BY <1>2, <3>1, Movement DEF Same
  <2>2. CASE met' = met
    BY <2>1, <2>2 DEF Strangers
  <2>3. CASE pc[r] = "new" /\ Meet(r)
    <3>1. \A q \in Busy : q # r /\ pc'[q] \in InFlight
      BY <1>2, <2>3, Movement DEF Busy, Same
    <3>2. Busy # {} => pc'[r] = "refused"
      <4>1. pc'[r] \in InFlight \cup {"refused"}
        BY <1>2, <2>3 DEF Moves, StripeStep, RowStep, LoadUser, StartSetup, RetrieveCard,
           FlushCustomer, CommitSetup, ConfirmSetupIntent, ListNumbers, RefuseNumber, Refuse,
           UnsetDefault, CommitMethod, ReadMethod, DetachCard, CommitDelete, Crash
      <4> QED  BY <3>1, <4>1 DEF OneAtATime, Busy
    <3>3. ASSUME NEW o \in Request, NEW q \in met'[o], q \notin met[o]
          PROVE  r \in {o, q} /\ Busy # {}
      BY <2>3, <3>3 DEF Meet
    <3>4. met' \in [Request -> SUBSET Request]
      BY <1>2, TypeNext, Steps
    <3> QED  BY <2>1, <3>2, <3>3, <3>4 DEF Strangers
  <2> QED  BY <1>2, <2>2, <2>3, MeetsOnce
<1> QED  BY <1>1, <1>2, Steps

(* Requests that come one at a time leave at most one default and one row  *)
(* per number.  A card may still hang on a customer that is not the user's:*)
(* one whose creation was rolled back, and on no other.                    *)
THEOREM RightOneAtATime ==
  Spec /\ []OneAtATime =>
    /\ [](\A m, n \in Linked : isDefault[m] /\ isDefault[n] => m = n)
    /\ [](\A m, n \in Linked \cap Link : reference[m] = reference[n] => m = n)
    /\ [](\A c \in Card : attached[c] \notin {None, Gone, customer}
                          => pc[attached[c]] # "done")
<1>1. Init => Strangers
  BY DEF Init, Strangers
<1>2. Spec /\ []OneAtATime => []Strangers
  BY <1>1, StrangersNext, ShapeAlways, AcquaintedAlways, PTL DEF Spec
<1>3. \A m \in Linked : m \in Method /\ row[m] = "linked"
  BY DEF Linked
<1>4. Shape => \A m \in Linked : pc[m] = "done"
  BY <1>3 DEF Shape, Placed, RowsPlaced
<1>5. Shape /\ Strangers /\ OneDefault =>
        \A m, n \in Linked : isDefault[m] /\ isDefault[n] => m = n
  BY <1>3, <1>4 DEF OneDefault, Strangers
<1>6. Shape /\ Strangers /\ OneRowPerNumber =>
        \A m, n \in Linked \cap Link : reference[m] = reference[n] => m = n
  BY <1>3, <1>4 DEF OneRowPerNumber, Strangers
<1>7. Shape /\ Strangers /\ Customers =>
        \A c \in Card : attached[c] \notin {None, Gone, customer}
                        => pc[attached[c]] # "done"
  <2> SUFFICES ASSUME Shape, Strangers, Customers, NEW c \in Card,
                      attached[c] \notin {None, Gone, customer},
                      pc[attached[c]] = "done"
               PROVE  FALSE
    OBVIOUS
  <2>1. attached[c] \in Creators /\ attached[c] \in Request
    BY DEF Customers, Created, Creators
  <2>2. customer \in met[attached[c]]
    BY <2>1 DEF Customers, Replaced
  <2>3. customer \in Request /\ pc[customer] = "done"
    BY <2>1, <2>2 DEF Customers, Created, Creators, Shape, TypeOK
  <2> QED  BY <2>1, <2>2, <2>3 DEF Strangers
<1> QED
  BY <1>2, <1>5, <1>6, <1>7, ShapeAlways, CustomersAlways, DefaultIsUnique,
     NumberIsUnique, PTL
=============================================================================
