--------------------------- MODULE PaymentLedger ----------------------------
(***************************************************************************)
(* The payment proofs of one registration cycle, oldest first, and what is *)
(* computed from them: the money paid so far, the balance still due and    *)
(* whether the cycle counts as paid                                        *)
(* (app/units/registration_cycle_service.py).                              *)
(***************************************************************************)
EXTENDS RegistrationFees, SequencesExt

Pending  == "PENDING"
Approved == "APPROVED"
Rejected == "REJECTED"

(* A row of unit_registration_payment.  late stands for "reviewed_at is    *)
(* after the cycle's completed_at"; files, notes and reviewers are left    *)
(* out.                                                                    *)
Proof == [status  : {Pending, Approved, Rejected},
          total   : Nat,               (* total_amount                     *)
          balance : Nat \union {Nil},  (* balance_amount                   *)
          paid    : Nat \union {Nil},  (* approved_paid_amount             *)
          late    : BOOLEAN]

NewProof(total) == [status |-> Pending, total |-> total, balance |-> Nil,
                    paid |-> Nil, late |-> FALSE]

(* A review sets the status and reviewed_at.                               *)
Turned(p, st, done) == [p EXCEPT !.status = st, !.late = done]

IsApproved(p)    == p.status = Approved
ApprovedOf(ps)   == SelectSeq(ps, IsApproved)
LastApproved(ps) ==                                   (* 0 when there is none *)
  Max({0} \union {i \in 1..Len(ps) : IsApproved(ps[i])})

(* One round of the loop of compute_total_paid_for_approved_payments.      *)
(* before is the balance outstanding before the proof, Nil at the start.   *)
(* The loop also covers the shortcut in front of it: when every proof      *)
(* records what was paid, only the first branch is taken.                  *)
Counted(acc, p, owed) ==
  LET before == IF acc.before # Nil                  THEN acc.before
                ELSE IF p.balance # Nil /\ p.balance > 0 THEN owed
                ELSE p.total
  IN  IF p.paid # Nil
      THEN [sum |-> acc.sum + p.paid, before |-> p.balance]
      ELSE IF p.balance = Nil
      THEN [sum |-> acc.sum + p.total, before |-> before]
      ELSE [sum |-> acc.sum + AtLeast(0, before - p.balance), before |-> p.balance]

(* The loop's state after the first i proofs, of which it takes the        *)
(* approved ones.                                                          *)
CountedTo(ps, owed) ==
  LET counted[i \in 0..Len(ps)] ==
        IF i = 0 THEN [sum |-> 0, before |-> Nil]
        ELSE IF IsApproved(ps[i]) THEN Counted(counted[i - 1], ps[i], owed)
        ELSE counted[i - 1]
  IN  counted

(* compute_total_paid_for_approved_payments.                               *)
TotalPaid(ps, owed) == CountedTo(ps, owed)[Len(ps)].sum

(* build_payment_summary.                                                  *)
BalanceDue(ps, owed)    == AtLeast(0, owed - TotalPaid(ps, owed))
PaymentCredit(ps, owed) == AtLeast(0, TotalPaid(ps, owed) - owed)

(* recalculate_latest_approved_balance.                                    *)
Rebalanced(ps, owed) ==
  IF LastApproved(ps) = 0 THEN ps
  ELSE [ps EXCEPT ![LastApproved(ps)].balance = BalanceDue(ps, owed)]

(* cycle_is_fully_paid, and payment_fully_approved of the admin list.      *)
FullyPaid(ps) ==
  /\ LastApproved(ps) # 0
  /\ ps[LastApproved(ps)].balance \in {Nil, 0}

(* Mutant: an approved proof keeps its balance when the fee changes.       *)
FeeAdjustedWhilePending(ps, owed, delta, done) ==
  IF ps = <<>> \/ Last(ps).status # Pending THEN ps
  ELSE IF delta < 0 THEN [ps EXCEPT ![Len(ps)] = Turned(@, Rejected, done)]
  ELSE [ps EXCEPT ![Len(ps)].total = AdjustedFee(@, delta)]

(* The payment part of adjust_fee_for_member_delta: the fee is now owed,   *)
(* after a change by delta members; done tells whether the cycle has been  *)
(* completed before.                                                       *)
FeeAdjusted(ps, owed, delta, done) ==
  IF LastApproved(ps) # 0 THEN Rebalanced(ps, owed)
  ELSE IF ps = <<>> \/ Last(ps).status # Pending THEN ps
  ELSE IF delta < 0 THEN [ps EXCEPT ![Len(ps)] = Turned(@, Rejected, done)]
  ELSE [ps EXCEPT ![Len(ps)].total = AdjustedFee(@, delta)]

(* Mutant: supersedes reviewed proofs as well.                             *)
SupersededAll(ps, owed, done) ==
  [i \in 1..Len(ps) |->
     IF owed # Nil /\ ps[i].total > owed THEN Turned(ps[i], Rejected, done) ELSE ps[i]]

(* supersede_stale_pending_payments.                                       *)
Superseded(ps, owed, done) ==
  [i \in 1..Len(ps) |->
     IF ps[i].status = Pending /\ owed # Nil /\ ps[i].total > owed
     THEN Turned(ps[i], Rejected, done)
     ELSE ps[i]]

(* Mutant: a pending proof for exactly the fee does not block.             *)
BlockedBelowFee(ps, owed) ==
  \E i \in 1..Len(ps) :
    ps[i].status = Pending /\ (owed = Nil \/ ps[i].total < owed)

(* cycle_has_blocking_pending_payment.                                     *)
Blocked(ps, owed) ==
  \E i \in 1..Len(ps) :
    ps[i].status = Pending /\ (owed = Nil \/ ps[i].total <= owed)

(* Mutant: the limit is the full fee, not what is left of it.              *)
OutstandingInFull(ps, i, owed) == owed

(* approve_registration_payment: the outstanding balance the paid amount   *)
(* may not exceed, computed without the proof under review.                *)
Outstanding(ps, i, owed) ==
  BalanceDue([ps EXCEPT ![i].status = Pending], owed)
=============================================================================
