------------------------ MODULE RegistrationScripts -------------------------
(***************************************************************************)
(* The scripts an operator runs against the registration data beside the   *)
(* season closing of RegistrationPayments: repairs of balances and paid    *)
(* amounts, back-fills of payments and fees, the completion of a past      *)
(* season and the removal of a test unit (scripts/*.py).  Each is one      *)
(* transaction; the years and units they name in their text or on the      *)
(* command line are any here.                                              *)
(***************************************************************************)
EXTENDS RegistrationPayments

(* A fee of zero counts as not set, unlike everywhere else.                *)
RepairFee(n) == (IF UnitFee = 0 THEN 100 ELSE UnitFee)
                + n * (IF MemberFee = 0 THEN 10 ELSE MemberFee)

Repairable(u, y) ==
  cycle[u][y] # Nil /\ Settled(cycle[u][y]) /\ LastApproved(payments[u][y]) # 0

(* What is left to pay on the only approved proof is dropped when as many  *)
(* members were removed as were added since its review.                    *)
RepairedProofs(ps, fee, swapped) ==
  LET qs == Rebalanced(ps, fee)
      i  == LastApproved(ps) IN
  IF swapped /\ Len(ApprovedOf(ps)) = 1 /\ qs[i].balance > 0
  THEN [qs EXCEPT ![i].balance = 0] ELSE qs

(* repair_payment_balances.py, of all units or of one.  Which cycles saw   *)
(* members swapped is not kept, and is chosen.                             *)
RepairBalances(U) ==
  LET fee(u) == RepairFee(RosterSize(u)) IN
  /\ cycle' = [u \in Units |-> [y \in Years |->
       IF u \in U /\ Repairable(u, y)
       THEN [cycle[u][y] EXCEPT !.count = RosterSize(u), !.fee = fee(u)]
       ELSE cycle[u][y]]]
  /\ \E S \in SUBSET (U \X Years) :
       payments' = [u \in Units |-> [y \in Years |->
         IF u \in U /\ Repairable(u, y)
         THEN RepairedProofs(payments[u][y], fee(u), <<u, y>> \in S)
         ELSE payments[u][y]]]
  /\ UNCHANGED <<season, owner, archived, incomplete, council, details>>

-----------------------------------------------------------------------------
(* backfill_approved_paid_amounts.py.                                      *)

(* What an approved proof without a recorded amount is taken to have paid, *)
(* before being what was due when it came; none when nothing was.          *)
InferredPaid(p, before, owed, only) ==
  LET full == IF p.total # 0 THEN p.total ELSE owed IN
  IF only /\ owed > p.total THEN p.total
  ELSE IF p.balance # Nil   THEN AtLeast(0, before - p.balance)
  ELSE IF full = 0          THEN Nil
  ELSE full

Inferred(acc, p, owed, only) ==
  LET paid == InferredPaid(p, acc.before, owed, only)
      left == IF p.balance # Nil THEN p.balance ELSE IF p.paid = Nil THEN 0 ELSE acc.before
  IN  IF ~IsApproved(p) \/ (p.paid = Nil /\ paid = Nil)
      THEN [acc EXCEPT !.rows = Append(@, p)]
      ELSE [before |-> left,
            rows   |-> Append(acc.rows, IF p.paid = Nil THEN [p EXCEPT !.paid = paid] ELSE p)]

InferredProofs(ps, owed) ==
  LET Infer(acc, p) == Inferred(acc, p, owed, Len(ApprovedOf(ps)) = 1)
      rows == FoldLeft(Infer, [before |-> owed, rows |-> <<>>], ps).rows
  IN  IF rows = ps THEN ps ELSE Rebalanced(rows, owed)

InferPaidAmounts(U) ==
  /\ payments' = [u \in Units |-> [y \in Years |->
       IF u \in U /\ Repairable(u, y)
       THEN InferredProofs(payments[u][y], FeeOwed(cycle[u][y]))
       ELSE payments[u][y]]]
  /\ UNCHANGED vars

-----------------------------------------------------------------------------
(* backfill_season_payments.py: every unit gets a cycle of the season and  *)
(* an approved proof without a file.  More than one approved proof of a    *)
(* cycle stops the script, and nothing is kept.                            *)

BackfilledProofs(ps, total, done) ==
  IF LastApproved(ps) # 0 THEN ps
  ELSE IF ps = <<>> THEN <<Turned(NewProof(total), Approved, done)>>
  ELSE [ps EXCEPT ![Len(ps)] = [Turned(@, Approved, done) EXCEPT !.total = total]]

BackfillSeasonPayments(y) ==
  LET row(u) == IF cycle[u][y] = Nil THEN NewCycle(u, y) ELSE cycle[u][y] IN
  /\ \A u \in Units : Len(ApprovedOf(payments[u][y])) <= 1
  /\ cycle' = [u \in Units |-> [cycle[u] EXCEPT ![y] = row(u)]]
  /\ payments' = [u \in Units |-> [payments[u] EXCEPT ![y] =
       BackfilledProofs(@, RegistrationFee(RosterSize(u)), row(u).completed)]]
  /\ UNCHANGED <<season, owner, archived, incomplete, council, details>>

(* backfill_post_registration_member_fees.py: what the roster grew by      *)
(* since the declaration of season y - and is added to the current season. *)
ChargeGrowth(y) ==
  LET grown(u) == IF cycle[u][y] # Nil /\ Settled(cycle[u][y]) /\ cycle[u][y].count # Nil
                  THEN AtLeast(0, RosterSize(u) - cycle[u][y].count) ELSE 0 IN
  /\ AdjustFees([u \in Units |-> grown(u)])
  /\ UNCHANGED <<season, owner, archived, incomplete, council, details>>

(* complete_2024_cycles.py: as the season closing does, but only the       *)
(* cycles that are not completed, and the path stays.                      *)
CompleteSeason(y) ==
  LET open(u) == cycle[u][y] # Nil /\ cycle[u][y].status # Completed
      fee(u)  == RegistrationFee(RosterSize(u)) IN
  /\ cycle' = [u \in Units |-> [cycle[u] EXCEPT ![y] =
       IF open(u) THEN [@ EXCEPT !.status = Completed, !.count = RosterSize(u),
                                 !.fee = fee(u), !.completed = TRUE] ELSE @]]
  /\ \E since \in [Units -> BOOLEAN] :
       payments' = [u \in Units |-> [payments[u] EXCEPT ![y] =
         IF open(u) THEN ClosedProofs(@, fee(u), cycle[u][y].completed, since[u]) ELSE @]]
  /\ UNCHANGED <<season, owner, archived, incomplete, council, details>>

-----------------------------------------------------------------------------
(* fix_active_season_units.py (delete_boyce_estate) and                    *)
(* remove_test_units.py.  An archived row that names the account, which    *)
(* neither deletes, stops them.  The unit may register again.              *)
RemoveUnit(u) ==
  /\ \A m \in Members : archived[m] # u
  /\ cycle'    = [cycle EXCEPT ![u] = [y \in Years |-> Nil]]
  /\ payments' = [payments EXCEPT ![u] = [y \in Years |-> <<>>]]
  /\ owner'    = [m \in Members |-> IF owner[m] = u THEN Nil ELSE owner[m]]
  /\ council'  = [council EXCEPT ![u] = [s \in Slots |-> Nil]]
  /\ details'  = [details EXCEPT ![u] = Nil]
  /\ incomplete' = incomplete \ Roster(u)
  /\ UNCHANGED <<season, archived>>

(* clear_member_residence.py.                                              *)
ClearResidence ==
  /\ incomplete' = incomplete \union {m \in Members : owner[m] # Nil}
  /\ UNCHANGED <<season, cycle, owner, archived, council, details, payments>>

-----------------------------------------------------------------------------
OneOrAll == {Units} \union {{u} : u \in Units}

LedgerScript ==
  \/ \E U \in OneOrAll : RepairBalances(U)
  \/ \E U \in OneOrAll : InferPaidAmounts(U)
  \/ \E y \in Years : BackfillSeasonPayments(y)
  \/ \E y \in Years : ChargeGrowth(y)
  \/ \E y \in Years : CompleteSeason(y)
  \/ \E u \in Units : RemoveUnit(u)

ScriptStep == LedgerScript \/ ClearResidence

ScriptsNext == (PaymentsStep \/ ScriptStep) /\ Bounded'

ScriptsSpec == PaymentsInit /\ [][ScriptsNext]_pvars

-----------------------------------------------------------------------------

(* A script that is handed a season: all of its cycles may change.         *)
WritesSeason(y) ==
  \/ \E open \in Years : AdvanceSeason(y, open)
  \/ BackfillSeasonPayments(y)
  \/ CompleteSeason(y)

(* The cycle of another season than the current one changes only when it   *)
(* is completed in bulk, when a script is handed that season, when         *)
(* balances are repaired or when its unit is removed: neither while the    *)
(* unit is served the last completed cycle because registration is closed  *)
(* (resolve_active_cycle, reconcile_cycle_fee_after_member_removals), nor  *)
(* when the members of that season are charged for, which goes to the      *)
(* current one (adjust_fee_for_member_delta).                              *)
PastSeasonsStand ==
  [][\A u \in Units, y \in Years :
       (y # season.year /\ cycle'[u][y] # cycle[u][y])
       => \/ BulkComplete(u, y)
          \/ WritesSeason(y)
          \/ \E U \in OneOrAll : RepairBalances(U)
          \/ RemoveUnit(u)]_pvars
=============================================================================
