----------------------- MODULE MCRegistrationPayments -----------------------
(* RegistrationPayments on small instances.                                *)
EXTENDS RegistrationScripts, TLC

Symmetry == Permutations(Members)

(* One proof from before paid amounts were recorded.                       *)
OldProofs == {[status |-> Approved, total |-> 2, balance |-> 1, paid |-> Nil, late |-> FALSE]}

(* The payment steps in full, with only those steps of the wizard that     *)
(* touch what a payment step reads: the roster, the councilors Declare     *)
(* counts, and the declaration.                                            *)
FocusInit ==
  /\ PaymentsInit
  /\ incomplete = {}
  /\ \A u \in Units : details[u] = Nil
  /\ \A u \in Units, y \in Years : cycle[u][y] # Nil => Settled(cycle[u][y])

FocusWizard(u) ==
  \/ OpenCycle(u)
  \/ \E m \in Members : AddMember(u, m)
  \/ \E m \in Members, s \in Slots : AddCouncilor(u, s, m)
  \/ Declare(u)

FocusShared ==
  \/ \E u \in Units : FocusWizard(u) /\ UNCHANGED payments
  \/ \E y \in Years, open \in BOOLEAN : UpdateSeason(y, open) /\ UNCHANGED payments
  \/ \E u \in Units, y \in Years : BulkCompletePaid(u, y)
  \/ \E u \in Units, y \in Years : UnitPays(u, y)
  \/ \E u \in Units : AdminComplete(u)
  \/ RosterChangeWithFee

FocusHandlers ==
  \/ FocusShared
  \/ AdminRosterChange /\ UNCHANGED payments
  \/ \E u \in Units, y \in Years : AdminReviews(u, y)
  \/ AdminLists

FocusNext ==
  /\ FocusHandlers \/ \E close, open \in Years : AdvanceSeason(close, open)
  /\ Bounded'

FocusSpec == FocusInit /\ [][FocusNext]_pvars

(* With the scripts; proofs are approved for what is due and rejected only *)
(* when the fee falls, and no member is archived.                          *)
SeasonReviews(u, y) ==
  \E i \in 1..Len(payments[u][y]) :
    LET ps == payments[u][y] IN
    ApproveProof(u, y, i, Outstanding(ps, i, OwedFor(cycle[u][y], ps[i])))

SeasonNext ==
  /\ \/ FocusShared
     \/ \E u \in Units, y \in Years : SeasonReviews(u, y)
     \/ \E close, open \in Years : AdvanceSeason(close, open)
     \/ LedgerScript
  /\ Bounded'

SeasonSpec == FocusInit /\ [][SeasonNext]_pvars

(* No season before this one and no script: every cycle starts at the      *)
(* wizard and every balance comes from a review.                           *)
FreshInit == FocusInit /\ \A u \in Units, y \in Years : cycle[u][y] = Nil

FreshSpec == FreshInit /\ [][FocusHandlers /\ Bounded']_pvars
=============================================================================
