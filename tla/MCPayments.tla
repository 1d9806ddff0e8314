----------------------------- MODULE MCPayments -----------------------------
(* RegistrationPayments on two small instances in one run, told apart by   *)
(* focus: two proofs of a unit of one member, and the whole wizard of a    *)
(* unit of two with one proof.                                             *)
EXTENDS MCRegistrationPayments

VARIABLE focus

(* What a focus bounds: those who are members or archived, the proofs of a *)
(* cycle and what they are for.                                            *)
Within(people, proofs, fee) ==
  /\ Cardinality({m \in Members : owner[m] # Nil \/ archived[m] # Nil}) <= people
  /\ \A u \in Units, y \in Years :
       /\ Len(payments[u][y]) <= proofs
       /\ cycle[u][y] # Nil => cycle[u][y].fee = Nil \/ cycle[u][y].fee <= fee
       /\ \A i \in 1..Len(payments[u][y]) : payments[u][y][i].total <= fee

InBounds == IF focus = "reviews" THEN Within(1, 2, 2) ELSE Within(2, 1, 3)

RosterFocus == PaymentsStep \/ ClearResidence

PaymentsFocusInit ==
  /\ focus \in {"reviews", "roster"}
  /\ IF focus = "reviews" THEN FocusInit ELSE PaymentsInit
  /\ InBounds

PaymentsFocusNext ==
  /\ UNCHANGED focus
  /\ \/ focus = "reviews" /\ FocusNext
     \/ focus = "roster" /\ RosterFocus
  /\ InBounds'

PaymentsFocusSpec == PaymentsFocusInit /\ [][PaymentsFocusNext]_<<pvars, focus>>
=============================================================================
