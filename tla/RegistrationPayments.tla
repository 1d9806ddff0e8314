------------------------ MODULE RegistrationPayments ------------------------
(***************************************************************************)
(* The fee of a registration: proofs a unit uploads, reviews an admin      *)
(* gives, the fee snapshot that follows the roster once the declaration    *)
(* stands, and the completion of the cycle by the admin or by a script.    *)
(* Extends the registration itself: every step of RegistrationCycle is a   *)
(* step here too.                                                          *)
(***************************************************************************)
EXTENDS RegistrationCycle, PaymentLedger

CONSTANTS
  LegacyProofs,  (* proofs from before cycles and paid amounts were kept   *)
  MaxProofs,     (* bounds the uploads per cycle                           *)
  MaxFee         (* bounds what a cycle costs and a proof is for, which    *)
                 (* grow when members are added and archived in turn       *)

VARIABLE
  payments       (* unit_registration_payment by unit and cycle, by        *)
                 (* submitted_at                                           *)

pvars == <<vars, payments>>

ASSUME LegacyAssumption == LegacyProofs \subseteq Proof

PaymentsTypeOK ==
  /\ TypeOK
  /\ payments \in [Units -> [Years -> Seq(Proof)]]

(* scripts/backfill_registration_cycles.py links the proofs it finds to    *)
(* the cycle it creates.                                                   *)
PaymentsInit ==
  /\ Init
  /\ payments \in [Units -> [Years -> {<<>>} \union {<<p>> : p \in LegacyProofs}]]
  /\ \A u \in Units, y \in Years :
       payments[u][y] # <<>> =>
         cycle[u][y] # Nil /\ cycle[u][y].status \in {Declared, Completed}

-----------------------------------------------------------------------------
(* Queries.                                                                *)

Settled(c)  == c.status \in {Declared, Completed}
Snapshot(c) == c.count # Nil /\ c.fee # Nil
FeeOwed(c)  == IF c.fee = Nil THEN 0 ELSE c.fee
OwedFor(c, p) == IF c.fee = Nil THEN p.total ELSE c.fee

CompletedYears(u) == {y \in Years : cycle[u][y] # Nil /\ cycle[u][y].status = Completed}

(* resolve_active_cycle: the season's cycle, else the last completed one.  *)
(* When registration is open the season's cycle is first created, a commit *)
(* of its own: OpenCycle.                                                  *)
IsActive(u, y) ==
  \/ y = season.year /\ Current(u) # Nil
  \/ /\ Current(u) = Nil /\ ~season.enabled
     /\ y \in CompletedYears(u)
     /\ \A z \in CompletedYears(u) : z <= y

(* adjust_fee_for_member_delta acts on the season's cycle, once declared.  *)
Adjustable(u, delta) ==
  delta # 0 /\ MemberFee # 0 /\ Current(u) # Nil /\ Settled(Current(u))

(* Without a snapshot the roster is counted in the database: the sessions  *)
(* do not autoflush, so it is the roster before the handler's own change.  *)
AdjustedCycle(u, delta) ==
  LET c == Current(u) IN
  IF Snapshot(c)
  THEN [c EXCEPT !.count = AdjustedCount(@, delta), !.fee = AdjustedFee(@, delta)]
  ELSE [c EXCEPT !.count = RosterSize(u), !.fee = RegistrationFee(RosterSize(u))]

AdjustedProofs(u, delta) ==
  FeeAdjusted(payments[u][season.year], AdjustedCycle(u, delta).fee, delta, Current(u).completed)

(* reconcile_cycle_fee_after_member_removals of the cycle of year y.  The  *)
(* adjustment it calls looks the season's cycle up again, so nothing       *)
(* happens when y is an earlier season.                                    *)
Drift(u, y) ==
  IF y = season.year /\ Settled(cycle[u][y]) /\ cycle[u][y].count # Nil
  THEN RosterSize(u) - cycle[u][y].count ELSE 0

(* Mutant: the cycle handed in is adjusted, whatever its season.           *)
ReconciledCycleOfAnySeason(u, y) ==
  IF Settled(cycle[u][y]) /\ Snapshot(cycle[u][y])
  THEN [cycle[u][y] EXCEPT !.count = RosterSize(u), !.fee = RegistrationFee(RosterSize(u))]
  ELSE cycle[u][y]

ReconciledCycle(u, y) ==
  IF Adjustable(u, Drift(u, y)) THEN AdjustedCycle(u, Drift(u, y)) ELSE cycle[u][y]

ReconciledProofs(u, y) ==
  IF Adjustable(u, Drift(u, y)) THEN AdjustedProofs(u, Drift(u, y)) ELSE payments[u][y]

(* completed_at moves past every review.                                   *)
NoneLate(ps) == [i \in 1..Len(ps) |-> [ps[i] EXCEPT !.late = FALSE]]

SetRow(u, y, c, ps) ==
  /\ cycle'    = [cycle EXCEPT ![u][y] = c]
  /\ payments' = [payments EXCEPT ![u][y] = ps]

-----------------------------------------------------------------------------
(* The unit.                                                               *)

(* GET /payment: reconciles the snapshot and rebalances the last proof.    *)
GetPayment(u, y) ==
  /\ IsActive(u, y)
  /\ SetRow(u, y, ReconciledCycle(u, y),
            Rebalanced(ReconciledProofs(u, y), FeeOwed(ReconciledCycle(u, y))))
  /\ UNCHANGED <<season, owner, archived, incomplete, council, details>>

(* POST /payment.  A blocked or unreadable upload is refused, which undoes *)
(* the superseding but not the reconciliation committed before it.         *)
SubmitProof(u, y) ==
  LET c  == ReconciledCycle(u, y)
      ps == ReconciledProofs(u, y)
      kept  == Superseded(ps, c.fee, c.completed)
      total == IF c.fee # Nil THEN c.fee ELSE RegistrationFee(RosterSize(u))
  IN
  /\ IsActive(u, y)
  /\ Settled(cycle[u][y])
  /\ ~FullyPaid(payments[u][y])
  /\ \/ SetRow(u, y, c, ps)
     \/ /\ ~Blocked(kept, c.fee)
        /\ Len(ps) < MaxProofs
        /\ SetRow(u, y, c, Append(kept, NewProof(total)))
  /\ UNCHANGED <<season, owner, archived, incomplete, council, details>>

-----------------------------------------------------------------------------
(* The admin.                                                              *)

(* approve_registration_payment: whatever the proof's status.              *)
ApproveProof(u, y, i, amount) ==
  LET c  == cycle[u][y]
      ps == payments[u][y]
      approved == [ps EXCEPT ![i] = [Turned(@, Approved, c.completed) EXCEPT !.paid = amount]]
  IN
  /\ amount <= Outstanding(ps, i, OwedFor(c, ps[i]))
  /\ payments' = [payments EXCEPT ![u][y] = Rebalanced(approved, FeeOwed(c))]
  /\ UNCHANGED vars

(* reject_registration_payment: whatever the proof's status, and no        *)
(* balance is computed again.                                              *)
RejectProof(u, y, i) ==
  /\ payments' = [payments EXCEPT ![u][y][i] = Turned(@, Rejected, cycle[u][y].completed)]
  /\ UNCHANGED vars

(* list_registration_payments and the payments export: the last approved   *)
(* proof of every cycle S left by the filters is rebalanced while it is    *)
(* read, and the session commits what changed when the request ends.       *)
ListPayments(S) ==
  /\ payments' = [u \in Units |-> [y \in Years |->
       IF <<u, y>> \in S THEN Rebalanced(payments[u][y], FeeOwed(cycle[u][y]))
                         ELSE payments[u][y]]]
  /\ UNCHANGED vars

(* admin_complete_registration.                                            *)
AdminCompletable(u) ==
  LET ps == payments[u][season.year] IN
  /\ Current(u) # Nil
  /\ FullyPaid(ps)
  /\ ~(/\ Current(u).status = Completed
       /\ Current(u).completed
       /\ ~ps[LastApproved(ps)].late)

AdminComplete(u) ==
  /\ AdminCompletable(u)
  /\ SetRow(u, season.year, CompletedCycle(u, Current(u)), NoneLate(payments[u][season.year]))
  /\ details' = SyncedDetails(u, season.year)
  /\ UNCHANGED <<season, owner, archived, incomplete, council>>

(* A roster change that carries the fee along, of delta[u] members.        *)
AdjustFees(delta) ==
  /\ cycle' = [u \in Units |->
       IF Adjustable(u, delta[u])
       THEN [cycle[u] EXCEPT ![season.year] = AdjustedCycle(u, delta[u])]
       ELSE cycle[u]]
  /\ payments' = [u \in Units |->
       IF Adjustable(u, delta[u])
       THEN [payments[u] EXCEPT ![season.year] = AdjustedProofs(u, delta[u])]
       ELSE payments[u]]

(* approve_member_add_request, of a pending request.                       *)
ApproveAddMember(u, m) ==
  /\ owner[m] = Nil
  /\ archived[m] = Nil
  /\ owner' = [owner EXCEPT ![m] = u]
  /\ AdjustFees([v \in Units |-> IF v = u THEN 1 ELSE 0])
  /\ UNCHANGED <<season, archived, incomplete, council, details>>

(* Mutant: a bulk removal lowers the fee by one member per unit.           *)
RemoveMembersChargedOnce(M) ==
  /\ M # {}
  /\ \A m \in M : owner[m] # Nil
  /\ owner' = [m \in Members |-> IF m \in M THEN Nil ELSE owner[m]]
  /\ incomplete' = incomplete \ M
  /\ council' = CouncilWithout(M)
  /\ AdjustFees([u \in Units |-> IF M \intersect Roster(u) = {} THEN 0 ELSE -1])
  /\ UNCHANGED <<season, archived, details>>

(* remove_member and bulk_remove_members.                                  *)
RemoveMembers(M) ==
  /\ M # {}
  /\ \A m \in M : owner[m] # Nil
  /\ owner' = [m \in Members |-> IF m \in M THEN Nil ELSE owner[m]]
  /\ incomplete' = incomplete \ M
  /\ council' = CouncilWithout(M)
  /\ AdjustFees([u \in Units |-> -Cardinality(M \intersect Roster(u))])
  /\ UNCHANGED <<season, archived, details>>

BulkCompletePaid(u, y) ==
  /\ BulkComplete(u, y)
  /\ payments' = [payments EXCEPT ![u][y] = NoneLate(@)]

-----------------------------------------------------------------------------
(* scripts/advance_registration_season.py: closes one season for every     *)
(* unit and opens the next or, told to reconcile only, none, in one        *)
(* transaction.                                                            *)

(* Mutant: the cycle being closed counts as an earlier completed season.   *)
ClosedCycleAfterItself(u, close) ==
  [status    |-> Completed,
   path      |-> IF \E z \in CompletedYears(u) : z <= close THEN "renewal" ELSE "fresh",
   count     |-> RosterSize(u),
   fee       |-> RegistrationFee(RosterSize(u)),
   completed |-> TRUE]

ClosedCycle(u, close) ==
  [status    |-> Completed,
   path      |-> IF \E z \in CompletedYears(u) : z < close THEN "renewal" ELSE "fresh",
   count     |-> RosterSize(u),
   fee       |-> RegistrationFee(RosterSize(u)),
   completed |-> TRUE]

(* The last proof is approved as it stands, balance and paid amount        *)
(* included; a review it already had keeps its time.  On a cycle completed *)
(* only now, completed_at is that time, and earlier proofs may have been   *)
(* reviewed since.                                                         *)
ClosedProofs(ps, total, done, since) ==
  IF ps = <<>> THEN <<[NewProof(total) EXCEPT !.status = Approved, !.late = done]>>
  ELSE [i \in 1..Len(ps) |->
          IF i < Len(ps) THEN [ps[i] EXCEPT !.late = @ \/ (~done /\ since)]
          ELSE [ps[i] EXCEPT !.status = Approved,
                             !.total  = total,
                             !.late   = IF ps[i].status = Pending THEN done ELSE @]]

AdvanceSeason(close, open) ==
  LET done(u) == cycle[u][close] # Nil /\ cycle[u][close].completed IN
  /\ open = close + 1 \/ open = season.year
  /\ cycle' = [u \in Units |-> [cycle[u] EXCEPT ![close] = ClosedCycle(u, close)]]
  /\ \E since \in [Units -> BOOLEAN] :
       /\ \A u \in Units : since[u] =>
            payments[u][close] # <<>> /\ Last(payments[u][close]).status = Rejected
       /\ payments' = [u \in Units |->
            [payments[u] EXCEPT ![close] =
               ClosedProofs(@, RegistrationFee(RosterSize(u)), done(u), since[u])]]
  /\ details' = [u \in Units |-> IF details[u] = Nil THEN Nil ELSE close]
  /\ season' = [season EXCEPT !.year = open]
  /\ UNCHANGED <<owner, archived, incomplete, council>>

-----------------------------------------------------------------------------
UnitPays(u, y) == GetPayment(u, y) \/ SubmitProof(u, y)

AdminReviews(u, y) ==
  \E i \in 1..Len(payments[u][y]) :
    \/ \E amount \in 0..OwedFor(cycle[u][y], payments[u][y][i]) : ApproveProof(u, y, i, amount)
    \/ RejectProof(u, y, i)

AdminLists == \E S \in SUBSET (Units \X Years) : ListPayments(S)

RosterChangeWithFee ==
  \/ \E u \in Units, m \in Members : ApproveAddMember(u, m)
  \/ \E M \in SUBSET Members : RemoveMembers(M)

Bounded ==
  \A u \in Units, y \in Years :
    /\ cycle[u][y] # Nil => cycle[u][y].fee = Nil \/ cycle[u][y].fee <= MaxFee
    /\ \A i \in 1..Len(payments[u][y]) : payments[u][y][i].total <= MaxFee

PaymentsStep ==
  \/ \E u \in Units : WizardStep(u) /\ UNCHANGED payments
  \/ \E u \in Units : CouncilorEdit(u) /\ UNCHANGED payments
  \/ AdminRosterChange /\ UNCHANGED payments
  \/ \E y \in Years, open \in BOOLEAN : UpdateSeason(y, open) /\ UNCHANGED payments
  \/ \E u \in Units, y \in Years : BulkCompletePaid(u, y)
  \/ \E u \in Units, y \in Years : UnitPays(u, y)
  \/ \E u \in Units, y \in Years : AdminReviews(u, y)
  \/ AdminLists
  \/ \E u \in Units : AdminComplete(u)
  \/ RosterChangeWithFee
  \/ \E close, open \in Years : AdvanceSeason(close, open)

PaymentsNext == PaymentsStep /\ Bounded'

PaymentsSpec == PaymentsInit /\ [][PaymentsNext]_pvars
-----------------------------------------------------------------------------
(* Properties.                                                             *)

(* submit_payment_proof: "Only one pending submission is allowed per       *)
(* registration cycle at a time."  Holds for requests handled one after    *)
(* the other.                                                              *)
OnePending ==
  \A u \in Units, y \in Years :
    \A i, j \in 1..Len(payments[u][y]) :
      payments[u][y][i].status = Pending /\ payments[u][y][j].status = Pending => i = j

(* What the last approved proof leaves to pay is what the fee and the      *)
(* recorded payments say.                                                  *)
Exact(c, ps) ==
  LastApproved(ps) # 0 => ps[LastApproved(ps)].balance = BalanceDue(ps, FeeOwed(c))

(* Every approval records what was paid.                                   *)
Recorded(ps) == \A i \in 1..Len(ps) : IsApproved(ps[i]) => ps[i].paid # Nil

(* cycle_is_fully_paid trusts the balance stored with the last approved    *)
(* proof.  Once exact, with the fee fixed in a snapshot and every paid     *)
(* amount recorded, that balance stays exact through every later add,      *)
(* removal, review, upload, completion and season change, with two         *)
(* exceptions: a rejection and the closing script do not compute it again. *)
BalanceStaysExact ==
  [][\A u \in Units, y \in Years :
       (/\ cycle[u][y] # Nil
        /\ Snapshot(cycle[u][y])
        /\ Recorded(payments[u][y])
        /\ Exact(cycle[u][y], payments[u][y])
        /\ ~Exact(cycle'[u][y], payments'[u][y]))
       => \/ \E i \in 1..Len(payments[u][y]) : RejectProof(u, y, i)
          \/ \E open \in Years : AdvanceSeason(y, open)]_pvars

(* Uploads are never lost or reordered, only an explicit rejection takes   *)
(* an approval back (not the automatic rejections of adjust_fee_for_       *)
(* member_delta and supersede_stale_pending_payments), and only an         *)
(* approval changes the amount recorded as paid.                           *)
ApprovalStands ==
  [][\A u \in Units, y \in Years : \A i \in 1..Len(payments[u][y]) :
       LET p == payments[u][y][i]  q == payments'[u][y][i] IN
       /\ Len(payments'[u][y]) >= Len(payments[u][y])
       /\ p.status = Approved /\ q.status # Approved => RejectProof(u, y, i)
       /\ p.paid # q.paid => q.status = Approved /\ AdminReviews(u, y)]_pvars

(* The fee follows the roster (adjust_fee_for_member_delta): once          *)
(* declared, the gap between the members counted in the snapshot and the   *)
(* roster widens only through archiving and restoring, which adjust no     *)
(* fee, even where a count is clamped at zero.  Where members are free of  *)
(* charge, no snapshot is adjusted at all.                                 *)
Gap(u) == RosterSize(u) - Current(u).count
Absolute(n) == IF n < 0 THEN -n ELSE n

FeeFollowsRoster ==
  [][\A u \in Units :
       (/\ MemberFee # 0
        /\ Current(u) # Nil
        /\ Settled(Current(u))
        /\ Snapshot(Current(u))
        /\ season'.year = season.year
        /\ Absolute(Gap(u)') > Absolute(Gap(u)))
       => AdminRosterChange]_pvars

(* A unit comes to have paid more than it owes only because its fee fell   *)
(* or a script rewrote the ledger: an approval never records more than is  *)
(* due.                                                                    *)
CreditOnlyFromLowerFee ==
  [][\A u \in Units, y \in Years :
       (/\ cycle[u][y] # Nil
        /\ Snapshot(cycle[u][y])
        /\ Recorded(payments[u][y])
        /\ PaymentCredit(payments'[u][y], FeeOwed(cycle'[u][y]))
              > PaymentCredit(payments[u][y], FeeOwed(cycle[u][y])))
       => \/ cycle'[u][y].fee < cycle[u][y].fee
          \/ \E open \in Years : AdvanceSeason(y, open)]_pvars

(* admin_complete_registration: "Full payment must be approved before      *)
(* registration can be completed."                                         *)
CompletionIsPaid ==
  [][\A u \in Units :
       (AdminComplete(u) /\ Snapshot(Current(u)))
       => TotalPaid(payments[u][season.year], Current(u).fee) >= Current(u).fee]_pvars

(* The cycle of another season than the current one changes only when it   *)
(* is completed in bulk or closed by the script, also while its unit is    *)
(* served the last completed cycle because registration is closed          *)
(* (resolve_active_cycle, reconcile_cycle_fee_after_member_removals).      *)
OtherSeasonsStand ==
  [][\A u \in Units, y \in Years :
       (y # season.year /\ cycle'[u][y] # cycle[u][y])
       => BulkComplete(u, y) \/ \E open \in Years : AdvanceSeason(y, open)]_pvars
=============================================================================
