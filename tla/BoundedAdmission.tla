-------------------------- MODULE BoundedAdmission --------------------------
(***************************************************************************)
(* What the program's quotas promise.  A request counts the rows of a      *)
(* slot, goes on when they are below the limit, and inserts its row later, *)
(* in another statement: nothing locks the slot in between.  So the limit  *)
(* holds up to the number of requests that are served at the same time.    *)
(* The quotas of Kalamela entries and of conference delegates are          *)
(* instances of this specification.                                        *)
(***************************************************************************)
EXTENDS Integers, FiniteSetTheorems, TLAPS

CONSTANTS
  Slots,     (* what has a quota                                           *)
  Requests,  (* the requests that may be in flight at the same time        *)
  Limit,     (* the most rows a slot should have                           *)
  NoSlot     (* the request has passed no check                            *)

(* What the instances satisfy.                                             *)
AdmissionConstants ==
  /\ IsFiniteSet(Requests)
  /\ Limit \in Nat \ {0}
  /\ NoSlot \notin Slots

VARIABLES
  count,     (* the rows of each slot                                      *)
  passed     (* the slot whose check each request has passed               *)

avars == <<count, passed>>

AdmissionTypeOK ==
  /\ count \in [Slots -> Nat]
  /\ passed \in [Requests -> Slots \union {NoSlot}]

AdmissionInit ==
  /\ count = [s \in Slots |-> 0]
  /\ passed = [r \in Requests |-> NoSlot]

(* The check: the slot has room now.                                       *)
Pass(r, s) ==
  /\ passed[r] = NoSlot
  /\ count[s] < Limit
  /\ passed' = [passed EXCEPT ![r] = s]
  /\ UNCHANGED count

(* The insert, whatever has happened since the check.                      *)
Admit(r) ==
  /\ passed[r] # NoSlot
  /\ count' = [count EXCEPT ![passed[r]] = @ + 1]
  /\ passed' = [passed EXCEPT ![r] = NoSlot]

(* The request ends without its row.                                       *)
Refuse(r) ==
  /\ passed[r] # NoSlot
  /\ passed' = [passed EXCEPT ![r] = NoSlot]
  /\ UNCHANGED count

(* Rows go; any number of them, of any slots.                              *)
Leave ==
  /\ count' \in [Slots -> Nat]
  /\ \A s \in Slots : count'[s] <= count[s]
  /\ UNCHANGED passed

AdmissionNext ==
  \/ \E r \in Requests : Admit(r) \/ Refuse(r) \/ \E s \in Slots : Pass(r, s)
  \/ Leave

AdmissionSpec == AdmissionInit /\ [][AdmissionNext]_avars

-----------------------------------------------------------------------------

Passed(s) == {r \in Requests : passed[r] = s}

(* A quota is exceeded by at most the other requests in flight: with one   *)
(* request at a time it is exact.                                          *)
OvershootBounded ==
  \A s \in Slots : count[s] <= Limit + Cardinality(Requests) - 1

(* The inductive form: the rows together with those about to be inserted.  *)
AdmissionInv ==
  /\ AdmissionTypeOK
  /\ \A s \in Slots :
       count[s] + Cardinality(Passed(s)) <= Limit + Cardinality(Requests) - 1

-----------------------------------------------------------------------------

LEMMA PassedFinite ==
  ASSUME AdmissionConstants, NEW s
  PROVE  /\ IsFiniteSet(Passed(s))
         /\ Cardinality(Passed(s)) \in Nat
         /\ Cardinality(Passed(s)) <= Cardinality(Requests)
         /\ Cardinality(Requests) \in Nat
<1>1. Passed(s) \in SUBSET Requests
  BY DEF Passed
<1>2. IsFiniteSet(Requests)
  BY DEF AdmissionConstants
<1> QED BY <1>1, <1>2, FS_Subset, FS_CardinalityType

(* The inductive form implies the bound.                                   *)
LEMMA AdmissionInvBounds ==
  ASSUME AdmissionConstants, AdmissionInv
  PROVE  OvershootBounded
<1> SUFFICES ASSUME NEW s \in Slots
             PROVE  count[s] <= Limit + Cardinality(Requests) - 1
  BY DEF OvershootBounded
<1>1. /\ Cardinality(Passed(s)) \in Nat
      /\ Cardinality(Requests) \in Nat
  BY PassedFinite
<1>2. /\ count[s] \in Nat
      /\ Limit \in Nat
      /\ count[s] + Cardinality(Passed(s)) <= Limit + Cardinality(Requests) - 1
  BY DEF AdmissionInv, AdmissionTypeOK, AdmissionConstants
<1> QED BY <1>1, <1>2

LEMMA AdmissionStarts ==
  ASSUME AdmissionConstants, Requests # {}, AdmissionInit
  PROVE  AdmissionInv
<1>1. AdmissionTypeOK
  BY DEF AdmissionInit, AdmissionTypeOK
<1>2. ASSUME NEW s \in Slots
      PROVE  count[s] + Cardinality(Passed(s)) <= Limit + Cardinality(Requests) - 1
  <2>1. Passed(s) = {}
    BY DEF Passed, AdmissionInit, AdmissionConstants
  <2>2. Cardinality(Passed(s)) = 0
    BY <2>1, FS_EmptySet
  <2>3. Cardinality(Requests) \in Nat
    BY PassedFinite
  <2>4. Cardinality(Requests) # 0
    BY FS_EmptySet DEF AdmissionConstants
  <2> QED BY <2>2, <2>3, <2>4 DEF AdmissionInit, AdmissionConstants
<1> QED BY <1>1, <1>2 DEF AdmissionInv

(* A check adds at most one to the rows coming, and only below the limit,  *)
(* where all the requests together stay within the bound.                  *)
LEMMA PassKeeps ==
  ASSUME AdmissionConstants, AdmissionInv,
         NEW r \in Requests, NEW s \in Slots, Pass(r, s)
  PROVE  AdmissionInv'
<1>1. AdmissionTypeOK'
  BY DEF AdmissionInv, AdmissionTypeOK, Pass
<1>2. ASSUME NEW t \in Slots
      PROVE  (count[t] + Cardinality(Passed(t)) <= Limit + Cardinality(Requests) - 1)'
  <2>1. /\ Cardinality(Passed(t)') \in Nat
        /\ Cardinality(Passed(t)') <= Cardinality(Requests)
        /\ Cardinality(Requests) \in Nat
    <3>1. Passed(t)' \in SUBSET Requests
      BY DEF Passed
    <3> QED BY <3>1, FS_Subset, FS_CardinalityType DEF AdmissionConstants
  <2>2. CASE t = s
    <3>1. count[s] \in Nat /\ count[s] < Limit /\ count' = count /\ Limit \in Nat
      BY DEF Pass, AdmissionInv, AdmissionTypeOK, AdmissionConstants
    <3> QED BY <2>1, <2>2, <3>1
  <2>3. CASE t # s
    <3>1. Passed(t)' = Passed(t)
      BY <2>3 DEF Passed, Pass, AdmissionInv, AdmissionTypeOK, AdmissionConstants
    <3> QED BY <3>1 DEF AdmissionInv, Pass
  <2> QED BY <2>2, <2>3
<1> QED BY <1>1, <1>2 DEF AdmissionInv

(* A request that ends takes itself off the rows coming; at most it is     *)
(* replaced by its row.                                                    *)
LEMMA EndKeeps ==
  ASSUME AdmissionConstants, AdmissionInv,
         NEW r \in Requests, Admit(r) \/ Refuse(r)
  PROVE  AdmissionInv'
<1> DEFINE p == passed[r]
<1>0. p \in Slots /\ p # NoSlot
  BY DEF AdmissionInv, AdmissionTypeOK, Admit, Refuse
<1>1. AdmissionTypeOK'
  BY <1>0 DEF AdmissionInv, AdmissionTypeOK, Admit, Refuse
<1>2. ASSUME NEW t \in Slots
      PROVE  (count[t] + Cardinality(Passed(t)) <= Limit + Cardinality(Requests) - 1)'
  <2>1. /\ IsFiniteSet(Passed(t))
        /\ Cardinality(Passed(t)) \in Nat
        /\ Cardinality(Requests) \in Nat
    BY PassedFinite
  <2>2. /\ count[t] \in Nat /\ Limit \in Nat
        /\ count[t] + Cardinality(Passed(t)) <= Limit + Cardinality(Requests) - 1
    BY DEF AdmissionInv, AdmissionTypeOK, AdmissionConstants
  <2>3. Passed(t)' = Passed(t) \ {r}
    BY DEF Passed, Admit, Refuse, AdmissionInv, AdmissionTypeOK, AdmissionConstants
  <2>4. Cardinality(Passed(t)') = IF r \in Passed(t) THEN Cardinality(Passed(t)) - 1
                                                     ELSE Cardinality(Passed(t))
    BY <2>1, <2>3, FS_RemoveElement
  <2>5. CASE t = p
    <3>1. r \in Passed(t)
      BY <2>5 DEF Passed
    <3>2. count'[t] = count[t] \/ count'[t] = count[t] + 1
      BY <2>5, <1>0 DEF Admit, Refuse, AdmissionInv, AdmissionTypeOK
    <3> QED BY <2>1, <2>2, <2>4, <3>1, <3>2
  <2>6. CASE t # p
    <3>1. count'[t] = count[t]
      BY <2>6, <1>0 DEF Admit, Refuse, AdmissionInv, AdmissionTypeOK
    <3> QED BY <2>1, <2>2, <2>4, <3>1
  <2> QED BY <2>5, <2>6
<1> QED BY <1>1, <1>2 DEF AdmissionInv

LEMMA LeaveKeeps ==
  ASSUME AdmissionConstants, AdmissionInv, Leave
  PROVE  AdmissionInv'
<1>1. AdmissionTypeOK'
  BY DEF AdmissionInv, AdmissionTypeOK, Leave
<1>2. ASSUME NEW t \in Slots
      PROVE  (count[t] + Cardinality(Passed(t)) <= Limit + Cardinality(Requests) - 1)'
  <2>1. /\ Cardinality(Passed(t)) \in Nat
        /\ Cardinality(Requests) \in Nat
    BY PassedFinite
  <2>2. /\ count[t] \in Nat /\ Limit \in Nat /\ count'[t] \in Nat
        /\ count'[t] <= count[t]
        /\ count[t] + Cardinality(Passed(t)) <= Limit + Cardinality(Requests) - 1
    BY DEF AdmissionInv, AdmissionTypeOK, AdmissionConstants, Leave
  <2>3. Passed(t)' = Passed(t)
    BY DEF Passed, Leave
  <2> QED BY <2>1, <2>2, <2>3
<1> QED BY <1>1, <1>2 DEF AdmissionInv

(* With any finite number of requests at a time, a quota is exceeded by at *)
(* most the other requests in flight.                                      *)
THEOREM AdmissionBounded ==
  ASSUME AdmissionConstants, Requests # {}
  PROVE  AdmissionSpec => [](AdmissionInv /\ OvershootBounded)
<1>1. AdmissionInit => AdmissionInv
  BY AdmissionStarts
<1>2. AdmissionInv /\ [AdmissionNext]_avars => AdmissionInv'
  <2> SUFFICES ASSUME AdmissionInv, [AdmissionNext]_avars PROVE AdmissionInv'
    OBVIOUS
  <2>1. CASE UNCHANGED avars
    BY <2>1 DEF avars, AdmissionInv, AdmissionTypeOK, Passed
  <2>2. CASE Leave
    BY <2>2, LeaveKeeps
  <2>3. ASSUME NEW r \in Requests, Admit(r) \/ Refuse(r) PROVE AdmissionInv'
    BY <2>3, EndKeeps
  <2>4. ASSUME NEW r \in Requests, NEW s \in Slots, Pass(r, s) PROVE AdmissionInv'
    BY <2>4, PassKeeps
  <2> QED BY <2>1, <2>2, <2>3, <2>4 DEF AdmissionNext
<1>3. AdmissionInv => OvershootBounded
  BY AdmissionInvBounds
<1> QED BY <1>1, <1>2, <1>3, PTL DEF AdmissionSpec
=============================================================================
