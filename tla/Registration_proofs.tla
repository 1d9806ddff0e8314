------------------------- MODULE Registration_proofs -------------------------
(***************************************************************************)
(* The registration, for every value of the fees and any number of units,  *)
(* members, councilor rows, seasons and proofs: the fee arithmetic and the *)
(* ledger, the cycles and the wizard, the payments, the scripts.           *)
(***************************************************************************)
EXTENDS RegistrationScripts, FiniteSetTheorems, NaturalsInduction, TLAPS

-----------------------------------------------------------------------------
(***************************************************************************)
(* RegistrationFees and PaymentLedger: the fee arithmetic; then what the   *)
(* operations on a ledger leave alone: none of them makes a proof wait for *)
(* review again.                                                           *)
(***************************************************************************)

(* The product of two naturals is a natural: a unit's fee is never         *)
(* negative and never below the unit fee.                                  *)
LEMMA RegistrationFeeType ==
  ASSUME NEW n \in Nat
  PROVE  RegistrationFee(n) \in Nat /\ RegistrationFee(n) >= UnitFee
<1>1. n * MemberFee \in Nat
  BY FeesAssumption
<1>2. QED
  BY <1>1, FeesAssumption DEF RegistrationFee

(* adjust_fee_for_member_delta moves the count and the fee of a snapshot   *)
(* separately, each clamped on its own.  They stay in step: the adjusted   *)
(* fee is what the adjusted count costs, also when more members leave than *)
(* the snapshot ever counted.                                              *)
THEOREM AdjustmentKeepsPrice ==
  ASSUME NEW n \in Nat, NEW d \in Int
  PROVE  AdjustedFee(RegistrationFee(n), d) = RegistrationFee(AdjustedCount(n, d))
<1> DEFINE p == (n + d) * MemberFee
<1>1. /\ n * MemberFee \in Int /\ d * MemberFee \in Int /\ p \in Int
      /\ p = n * MemberFee + d * MemberFee
  BY FeesAssumption
<1>2. AdjustedFee(RegistrationFee(n), d) = AtLeast(UnitFee, UnitFee + p)
  BY <1>1, FeesAssumption DEF AdjustedFee, RegistrationFee
<1>3. CASE n + d > 0
  <2>1. p >= 0
    BY <1>3, FeesAssumption
  <2>2. AtLeast(UnitFee, UnitFee + p) = UnitFee + p
    BY <1>1, <2>1, FeesAssumption DEF AtLeast
  <2>3. AdjustedCount(n, d) = n + d
    BY <1>3 DEF AdjustedCount, AtLeast
  <2>4. QED
    BY <1>2, <2>2, <2>3 DEF RegistrationFee
<1>4. CASE ~(n + d > 0)
  <2>1. p <= 0
    BY <1>4, FeesAssumption
  <2>2. AtLeast(UnitFee, UnitFee + p) = UnitFee
    BY <1>1, <2>1, FeesAssumption DEF AtLeast
  <2>3. AdjustedCount(n, d) = 0
    BY <1>4 DEF AdjustedCount, AtLeast
  <2>4. RegistrationFee(0) = UnitFee
    BY FeesAssumption DEF RegistrationFee
  <2>5. QED
    BY <1>2, <2>2, <2>3, <2>4
<1>5. QED
  BY <1>3, <1>4

(* "remove-then-add swaps net to zero correctly" (the docstring of         *)
(* adjust_fee_for_member_delta): removing k of the n members counted and   *)
(* adding k again leaves count and fee where they were.                    *)
THEOREM SwapNetsToZero ==
  ASSUME NEW n \in Nat, NEW k \in Nat, k <= n
  PROVE  /\ AdjustedCount(AdjustedCount(n, -k), k) = n
         /\ AdjustedFee(AdjustedFee(RegistrationFee(n), -k), k) = RegistrationFee(n)
<1>1. AdjustedCount(n, -k) \in Nat /\ AdjustedCount(AdjustedCount(n, -k), k) = n
  BY DEF AdjustedCount, AtLeast
<1>2. AdjustedFee(RegistrationFee(n), -k) = RegistrationFee(AdjustedCount(n, -k))
  BY AdjustmentKeepsPrice
<1>3. AdjustedFee(RegistrationFee(AdjustedCount(n, -k)), k)
        = RegistrationFee(AdjustedCount(AdjustedCount(n, -k), k))
  BY <1>1, AdjustmentKeepsPrice
<1>4. QED
  BY <1>1, <1>2, <1>3

(* A growing roster never needs fewer councilors, and between one and five *)
(* are always enough (required_councilor_count).                           *)
THEOREM RequirementIsMonotone ==
  ASSUME NEW m \in Nat, NEW n \in Nat, m <= n
  PROVE  /\ RequiredCouncilors(m) \in 1..5
         /\ RequiredCouncilors(m) <= RequiredCouncilors(n)
<1>1. /\ 2 * RosterBand > RosterBand /\ 3 * RosterBand > 2 * RosterBand
      /\ 4 * RosterBand > 3 * RosterBand
  BY FeesAssumption
<1>2. QED
  BY <1>1, FeesAssumption DEF RequiredCouncilors

-----------------------------------------------------------------------------
(* Ledgers.                                                                *)

(* Rows whose amounts and flags are of any kind, and ledgers of them.      *)
Rows(V) == [status : {Pending, Approved, Rejected}, total : Nat, balance : V, paid : V, late : V]

IsLedger(ps) == \E V : ps \in Seq(Rows(V))

OneWaits(ps) ==
  \A i, j \in 1..Len(ps) : ps[i].status = Pending /\ ps[j].status = Pending => i = j

(* qs is ps after reviews, rebalancing and adjustments.                    *)
NoNewPending(ps, qs) ==
  /\ IsLedger(qs)
  /\ Len(qs) = Len(ps)
  /\ \A i \in 1..Len(ps) : qs[i].status = Pending => ps[i].status = Pending

LEMMA ProofIsRow == \E V : Proof \subseteq Rows(V)
<1> DEFINE V == Nat \union {Nil} \union BOOLEAN
<1>1. Proof \subseteq Rows(V)
  BY DEF Proof, Rows
<1>2. QED
  BY <1>1

LEMMA WiderRows ==
  ASSUME NEW V, NEW W, V \subseteq W, NEW ps \in Seq(Rows(V))
  PROVE  ps \in Seq(Rows(W))
<1>1. Rows(V) \subseteq Rows(W)
  BY DEF Rows
<1>2. QED
  BY <1>1

LEMMA NoNewPendingReflexive ==
  ASSUME NEW ps, IsLedger(ps)
  PROVE  NoNewPending(ps, ps)
BY DEF NoNewPending

LEMMA NoNewPendingTransitive ==
  ASSUME NEW ps, NEW qs, NEW rs, NoNewPending(ps, qs), NoNewPending(qs, rs)
  PROVE  NoNewPending(ps, rs)
BY DEF NoNewPending

LEMMA OneStillWaits ==
  ASSUME NEW ps, NEW qs, OneWaits(ps), NoNewPending(ps, qs)
  PROVE  OneWaits(qs)
BY DEF NoNewPending, OneWaits

WithRow(ps, i, p) == [ps EXCEPT ![i] = p]

(* One row is rewritten.                                                   *)
LEMMA RowRewritten ==
  ASSUME NEW ps, IsLedger(ps), NEW i \in 1..Len(ps), NEW p, NEW V, p \in Rows(V),
         p.status = Pending => ps[i].status = Pending
  PROVE  NoNewPending(ps, WithRow(ps, i, p))
<1>1. PICK W : ps \in Seq(Rows(W))
  BY DEF IsLedger
<1> DEFINE U == V \union W
           qs == [ps EXCEPT ![i] = p]
<1>2. ps \in Seq(Rows(U)) /\ p \in Rows(U)
  <2>1. ps \in Seq(Rows(U))
    BY <1>1, WiderRows
  <2>2. p \in Rows(U)
    BY DEF Rows
  <2>3. QED
    BY <2>1, <2>2
<1> HIDE DEF U
<1>3. qs \in Seq(Rows(U)) /\ Len(qs) = Len(ps)
  BY <1>2
<1>4. \A j \in 1..Len(ps) : qs[j] = IF j = i THEN p ELSE ps[j]
  BY <1>2
<1>5. QED
  BY <1>3, <1>4 DEF NoNewPending, IsLedger, WithRow

LEMMA LedgerRows ==
  ASSUME NEW ps, IsLedger(ps)
  PROVE  /\ Len(ps) \in Nat
         /\ \E V : ps \in Seq(Rows(V)) /\ \A i \in 1..Len(ps) : ps[i] \in Rows(V)
<1>1. PICK V : ps \in Seq(Rows(V))
  BY DEF IsLedger
<1>2. Len(ps) \in Nat /\ \A i \in 1..Len(ps) : ps[i] \in Rows(V)
  BY <1>1
<1>3. QED
  BY <1>1, <1>2

(* Every row is rewritten.                                                 *)
LEMMA RowsRewritten ==
  ASSUME NEW ps, IsLedger(ps), NEW V, NEW qs, qs = [i \in 1..Len(ps) |-> qs[i]],
         \A i \in 1..Len(ps) : /\ qs[i] \in Rows(V)
                               /\ qs[i].status = Pending => ps[i].status = Pending
  PROVE  NoNewPending(ps, qs)
<1>1. Len(ps) \in Nat
  BY LedgerRows
<1>2. qs \in Seq(Rows(V)) /\ Len(qs) = Len(ps)
  BY <1>1
<1>3. QED
  BY <1>2 DEF NoNewPending, IsLedger

LEMMA TurnedRow ==
  ASSUME NEW V, NEW p \in Rows(V), NEW st \in {Approved, Rejected}, NEW done
  PROVE  Turned(p, st, done) \in Rows(V \union {done}) /\ Turned(p, st, done).status # Pending
BY DEF Turned, Rows, Pending, Approved, Rejected

LEMMA NewProofRow ==
  ASSUME NEW total \in Nat
  PROVE  NewProof(total) \in Rows({Nil, FALSE})
BY DEF NewProof, Rows

-----------------------------------------------------------------------------
(* The operations.                                                         *)

LEMMA RebalancedKeeps ==
  ASSUME NEW ps, IsLedger(ps), NEW owed
  PROVE  NoNewPending(ps, Rebalanced(ps, owed))
<1> DEFINE i == LastApproved(ps)
           b == BalanceDue(ps, owed)
<1>1. CASE i \in 1..Len(ps) /\ i # 0
  <2>1. PICK V : \A j \in 1..Len(ps) : ps[j] \in Rows(V)
    BY LedgerRows
  <2> DEFINE q == [ps[i] EXCEPT !.balance = b]
  <2>2. q \in Rows(V \union {b}) /\ q.status = ps[i].status
    BY <1>1, <2>1 DEF Rows
  <2>3. Rebalanced(ps, owed) = WithRow(ps, i, q)
    BY <1>1 DEF Rebalanced, WithRow
  <2> HIDE DEF i, b, q
  <2>4. QED
    BY <1>1, <2>2, <2>3, RowRewritten
<1>2. CASE i = 0
  BY <1>2, NoNewPendingReflexive DEF Rebalanced
<1>3. CASE i \notin 1..Len(ps) /\ i # 0
  <2>1. DOMAIN ps = 1..Len(ps) /\ ps = [j \in DOMAIN ps |-> ps[j]]
    BY DEF IsLedger
  <2>2. [ps EXCEPT ![i].balance = b] = ps
    BY <1>3, <2>1
  <2>3. QED
    BY <1>3, <2>2, NoNewPendingReflexive DEF Rebalanced
<1>4. QED
  BY <1>1, <1>2, <1>3

LEMMA FeeAdjustedKeeps ==
  ASSUME NEW ps, IsLedger(ps), NEW owed, NEW delta \in Int, NEW done
  PROVE  NoNewPending(ps, FeeAdjusted(ps, owed, delta, done))
<1> DEFINE n == Len(ps)
<1>1. CASE LastApproved(ps) # 0
  BY <1>1, RebalancedKeeps DEF FeeAdjusted
<1>2. CASE LastApproved(ps) = 0 /\ (ps = <<>> \/ Last(ps).status # Pending)
  BY <1>2, NoNewPendingReflexive DEF FeeAdjusted
<1>3. CASE LastApproved(ps) = 0 /\ ps # <<>> /\ Last(ps).status = Pending
  <2>1. PICK V : ps \in Seq(Rows(V)) /\ \A j \in 1..n : ps[j] \in Rows(V)
    BY LedgerRows
  <2>2. n \in 1..n /\ Last(ps) = ps[n]
    BY <1>3, <2>1 DEF Last
  <2>3. CASE delta < 0
    <3> DEFINE q == Turned(ps[n], Rejected, done)
    <3>1. q \in Rows(V \union {done}) /\ q.status # Pending
      BY <2>1, <2>2, TurnedRow
    <3>2. FeeAdjusted(ps, owed, delta, done) = WithRow(ps, n, q)
      BY <1>3, <2>3 DEF FeeAdjusted, WithRow
    <3> HIDE DEF n, q
    <3>3. QED
      BY <2>2, <3>1, <3>2, RowRewritten DEF n
  <2>4. CASE ~(delta < 0)
    <3> DEFINE t == AdjustedFee(ps[n].total, delta)
               q == [ps[n] EXCEPT !.total = t]
    <3>1. t \in Nat
      <4>1. ps[n].total \in Nat /\ delta * MemberFee \in Int
        BY <2>1, <2>2, FeesAssumption DEF Rows
      <4>2. QED
        BY <4>1, FeesAssumption DEF AdjustedFee, AtLeast
    <3>2. FeeAdjusted(ps, owed, delta, done) = WithRow(ps, n, q)
      BY <1>3, <2>4 DEF FeeAdjusted, WithRow
    <3> HIDE DEF t
    <3>3. q \in Rows(V) /\ q.status = ps[n].status
      BY <2>1, <2>2, <3>1 DEF Rows
    <3> HIDE DEF n, q
    <3>4. QED
      BY <2>2, <3>2, <3>3, RowRewritten DEF n
  <2>5. QED
    BY <2>3, <2>4
<1>4. QED
  BY <1>1, <1>2, <1>3

LEMMA SupersededKeeps ==
  ASSUME NEW ps, IsLedger(ps), NEW owed, NEW done
  PROVE  NoNewPending(ps, Superseded(ps, owed, done))
<1> DEFINE qs == Superseded(ps, owed, done)
<1>1. PICK V : \A j \in 1..Len(ps) : ps[j] \in Rows(V)
  BY LedgerRows
<1>2. qs = [j \in 1..Len(ps) |-> qs[j]]
  BY DEF Superseded
<1>3. ASSUME NEW i \in 1..Len(ps)
      PROVE  /\ qs[i] \in Rows(V \union {done})
             /\ qs[i].status = Pending => ps[i].status = Pending
  <2>1. Turned(ps[i], Rejected, done) \in Rows(V \union {done})
    BY <1>1, TurnedRow
  <2>2. ps[i] \in Rows(V \union {done})
    BY <1>1 DEF Rows
  <2>3. qs[i] = Turned(ps[i], Rejected, done) \/ qs[i] = ps[i]
    BY DEF Superseded
  <2>4. Turned(ps[i], Rejected, done).status # Pending
    BY <1>1, TurnedRow
  <2>5. QED
    BY <2>1, <2>2, <2>3, <2>4
<1> HIDE DEF qs
<1>4. QED
  BY <1>2, <1>3, RowsRewritten DEF qs

(* Superseding rejects the proofs above the fee; when it leaves none that  *)
(* blocks, it leaves none waiting: the two tests of the fee complement     *)
(* each other.                                                             *)
LEMMA NoneLeftWaiting ==
  ASSUME NEW ps, IsLedger(ps), NEW owed \in Nat \union {Nil}, NEW done,
         ~Blocked(Superseded(ps, owed, done), owed)
  PROVE  \A i \in 1..Len(ps) : Superseded(ps, owed, done)[i].status # Pending
<1> DEFINE kept == Superseded(ps, owed, done)
<1>1. IsLedger(kept) /\ Len(kept) = Len(ps)
  BY SupersededKeeps DEF NoNewPending
<1>2. ASSUME NEW i \in 1..Len(kept)
      PROVE  kept[i].status # Pending
  <2>1. PICK W : ps[i] \in Rows(W)
    BY <1>1, LedgerRows
  <2>2. CASE ps[i].status = Pending /\ owed # Nil /\ ps[i].total > owed
    <3>1. kept[i] = Turned(ps[i], Rejected, done)
      BY <1>1, <2>2 DEF Superseded
    <3>2. QED
      BY <2>1, <3>1, TurnedRow
  <2>3. CASE ~(ps[i].status = Pending /\ owed # Nil /\ ps[i].total > owed)
    <3>1. kept[i] = ps[i]
      BY <1>1, <2>3 DEF Superseded
    <3>2. ~(kept[i].status = Pending /\ (owed = Nil \/ kept[i].total <= owed))
      BY DEF Blocked
    <3>3. ps[i].total \in Nat
      BY <2>1 DEF Rows
    <3>4. QED
      BY <2>3, <3>1, <3>2, <3>3
  <2>4. QED
    BY <2>2, <2>3
<1>3. QED
  BY <1>1, <1>2

(* A refused upload aside, a new proof finds no other waiting.             *)
LEMMA UploadWaitsAlone ==
  ASSUME NEW ps, IsLedger(ps), NEW owed \in Nat \union {Nil}, NEW done, NEW total \in Nat,
         ~Blocked(Superseded(ps, owed, done), owed)
  PROVE  LET qs == Append(Superseded(ps, owed, done), NewProof(total))
         IN  IsLedger(qs) /\ OneWaits(qs)
<1> DEFINE kept == Superseded(ps, owed, done)
           qs == Append(kept, NewProof(total))
<1>1. IsLedger(kept) /\ Len(kept) = Len(ps)
  BY SupersededKeeps DEF NoNewPending
<1>2. PICK V : kept \in Seq(Rows(V))
  BY <1>1 DEF IsLedger
<1>3. \A i \in 1..Len(kept) : kept[i].status # Pending
  BY <1>1, NoneLeftWaiting
<1> HIDE DEF kept
<1> DEFINE W == V \union {Nil, FALSE}
<1>4. kept \in Seq(Rows(W))
  BY <1>2, WiderRows
<1>5. NewProof(total) \in Rows(W)
  BY DEF NewProof, Rows
<1> HIDE DEF W
<1>6. qs \in Seq(Rows(W)) /\ Len(qs) = Len(kept) + 1 /\ Len(kept) \in Nat
  BY <1>4, <1>5
<1>7. \A i \in 1..Len(qs) : i # Len(qs) => qs[i] = kept[i] /\ i \in 1..Len(kept)
  BY <1>4, <1>5, <1>6
<1>8. OneWaits(qs)
  <2>1. SUFFICES ASSUME NEW i \in 1..Len(qs), qs[i].status = Pending
                 PROVE  i = Len(qs)
    BY DEF OneWaits
  <2>2. QED
    BY <1>3, <1>7, <2>1
<1>9. QED
  BY <1>6, <1>8 DEF IsLedger, kept

-----------------------------------------------------------------------------
(***************************************************************************)
(* RegistrationCycle.                                                      *)
(***************************************************************************)

(* Lemmas about the operators the actions are built from.                  *)

(* A roster is finite, so it can be counted and priced.                    *)
LEMMA RosterCounted ==
  ASSUME NEW u
  PROVE  /\ RosterSize(u) \in Nat
         /\ RegistrationFee(RosterSize(u)) \in Nat
<1>1. Roster(u) \subseteq Members
  BY DEF Roster
<1>2. IsFiniteSet(Roster(u))
  BY <1>1, RegistryAssumption, FS_Subset
<1>3. RosterSize(u) \in Nat
  BY <1>2, FS_CardinalityType DEF RosterSize
<1>4. QED
  BY <1>3, RegistrationFeeType

(* A cycle that exists is a row of the table.                              *)
LEMMA CycleRow ==
  ASSUME TypeOK, NEW u \in Units, NEW y \in Years, cycle[u][y] # Nil
  PROVE  cycle[u][y] \in Cycle
BY DEF TypeOK

(* Completing a cycle keeps it a row, whether or not it had a snapshot.    *)
LEMMA CompletedRow ==
  ASSUME NEW u, NEW c \in Cycle
  PROVE  CompletedCycle(u, c) \in Cycle
<1>1. c.count \in Nat \union {Nil} /\ c.fee \in Nat \union {Nil}
  BY DEF Cycle
<1>2. SubmittedCount(u, c) \in Nat /\ SubmittedFee(u, c) \in Nat
  BY <1>1, RosterCounted DEF SubmittedCount, SubmittedFee
<1>3. QED
  BY <1>2 DEF CompletedCycle, Cycle, Status

(* A snapshot that is whole and priced stays so when the cycle completes.  *)
LEMMA CompletedPriced ==
  ASSUME NEW u, NEW c \in Cycle,
         \/ c.count = Nil /\ c.fee = Nil
         \/ c.count # Nil /\ c.fee = RegistrationFee(c.count)
  PROVE  LET d == CompletedCycle(u, c) IN
         d.count # Nil /\ d.fee = RegistrationFee(d.count)
<1>1. c.count \in Nat \union {Nil} /\ c.fee \in Nat \union {Nil}
  BY DEF Cycle
<1>2. SubmittedCount(u, c) # Nil /\ SubmittedFee(u, c) = RegistrationFee(SubmittedCount(u, c))
  <2>1. CASE c.count = Nil
    BY <2>1, RosterCounted, FeesAssumption DEF SubmittedCount, SubmittedFee
  <2>2. CASE c.count # Nil
    <3>1. c.fee = RegistrationFee(c.count) /\ c.fee # Nil
      BY <1>1, <2>2, RegistrationFeeType, FeesAssumption
    <3>2. QED
      BY <2>2, <3>1 DEF SubmittedCount, SubmittedFee
  <2>3. QED
    BY <2>1, <2>2
<1>3. CompletedCycle(u, c).count = SubmittedCount(u, c) /\ CompletedCycle(u, c).fee = SubmittedFee(u, c)
  BY DEF CompletedCycle, Cycle
<1>4. QED
  BY <1>2, <1>3

(* Removing members from the councils leaves well-formed councils.         *)
LEMMA CouncilWithoutType ==
  ASSUME TypeOK, NEW M
  PROVE  CouncilWithout(M) \in [Units -> [Slots -> Members \union {Nil}]]
BY DEF TypeOK, CouncilWithout

-----------------------------------------------------------------------------
(* Types.                                                                  *)

LEMMA InitType == Init => TypeOK
<1>1. \A st \in Status : Backfilled(st) \in Cycle
  BY DEF Backfilled, Cycle
<1>2. QED
  BY <1>1 DEF Init, TypeOK

(* A write of one cycle row keeps the cycle table well-formed.             *)
LEMMA CycleWrite ==
  ASSUME TypeOK, NEW u \in Units, NEW y \in Years, NEW c \in Cycle
  PROVE  [cycle EXCEPT ![u][y] = c] \in [Units -> [Years -> Cycle \union {Nil}]]
BY DEF TypeOK

LEMMA StatusWrite ==
  ASSUME TypeOK, NEW u \in Units, InProgress(u), NEW st \in Status, SetStatus(u, st)
  PROVE  cycle' \in [Units -> [Years -> Cycle \union {Nil}]]
<1>1. season.year \in Years
  BY DEF TypeOK
<1>2. Current(u) \in Cycle
  BY <1>1, CycleRow DEF InProgress, Current
<1>3. [Current(u) EXCEPT !.status = st] \in Cycle
  BY <1>2 DEF Cycle
<1>4. cycle' = [cycle EXCEPT ![u][season.year] = [Current(u) EXCEPT !.status = st]]
  BY <1>1 DEF SetStatus, Current, TypeOK
<1>5. QED
  BY <1>1, <1>3, <1>4, CycleWrite

LEMMA NextType == TypeOK /\ [Next]_vars => TypeOK'
<1> SUFFICES ASSUME TypeOK, [Next]_vars PROVE TypeOK'
  OBVIOUS
<1> season.year \in Years /\ season \in [year : Years, enabled : BOOLEAN]
  BY DEF TypeOK
<1>1. ASSUME NEW u \in Units, OpenCycle(u) PROVE TypeOK'
  <2>1. NewCycle(u, season.year) \in Cycle
    BY DEF NewCycle, PathType, Cycle, Status
  <2>2. QED
    BY <1>1, <2>1, CycleWrite DEF OpenCycle, TypeOK
<1>2. ASSUME NEW u \in Units, SaveDetails(u) PROVE TypeOK'
  BY <1>2, StatusWrite DEF SaveDetails, TypeOK, Status
<1>3. ASSUME NEW u \in Units, ConfirmDetails(u) PROVE TypeOK'
  BY <1>3, StatusWrite DEF ConfirmDetails, SyncedDetails, TypeOK, Status
<1>4. ASSUME NEW u \in Units, NEW m \in Members, AddMember(u, m) PROVE TypeOK'
  BY <1>4 DEF AddMember, TypeOK
<1>5. ASSUME NEW u \in Units, NEW m \in Members, UpdateMember(u, m) PROVE TypeOK'
  BY <1>5 DEF UpdateMember, TypeOK
<1>6. ASSUME NEW u \in Units, NEW m \in Members, DeleteMember(u, m) PROVE TypeOK'
  BY <1>6, CouncilWithoutType DEF DeleteMember, TypeOK
<1>7. ASSUME NEW u \in Units, SubmitMembers(u) PROVE TypeOK'
  BY <1>7, StatusWrite DEF SubmitMembers, TypeOK, Status
<1>8. ASSUME NEW u \in Units, ConfirmOfficials(u) PROVE TypeOK'
  BY <1>8, StatusWrite DEF ConfirmOfficials, TypeOK, Status
<1>9. ASSUME NEW u \in Units, ConfirmCouncilors(u) PROVE TypeOK'
  BY <1>9, StatusWrite DEF ConfirmCouncilors, TypeOK, Status
<1>10. ASSUME NEW u \in Units, Declare(u) PROVE TypeOK'
  <2>1. Current(u) \in Cycle
    BY <1>10, CycleRow DEF Declare, InProgress, Current
  <2>2. [Current(u) EXCEPT !.status = Declared,
                           !.count  = RosterSize(u),
                           !.fee    = RegistrationFee(RosterSize(u))] \in Cycle
    BY <2>1, RosterCounted DEF Cycle, Status
  <2>3. QED
    BY <1>10, <2>2, CycleWrite DEF Declare, Current, TypeOK
<1>11. ASSUME NEW u \in Units, Reopened(u) PROVE cycle' = cycle
  BY <1>11 DEF Reopened, ReopenCouncilors, TypeOK
<1>12. ASSUME NEW u \in Units, CouncilorEdit(u) PROVE TypeOK'
  <2>1. ASSUME NEW s \in Slots, NEW m \in Members, AddCouncilor(u, s, m) PROVE TypeOK'
    BY <1>11, <2>1 DEF AddCouncilor, TypeOK
  <2>2. ASSUME NEW s \in Slots, DeleteCouncilor(u, s) PROVE TypeOK'
    BY <1>11, <2>2 DEF DeleteCouncilor, TypeOK
  <2>3. ASSUME NEW s \in Slots, NEW m \in Members, UpdateCouncilor(u, s, m) PROVE TypeOK'
    BY <1>11, <2>3 DEF UpdateCouncilor, TypeOK
  <2>4. QED
    BY <1>12, <2>1, <2>2, <2>3 DEF CouncilorEdit
<1>13. ASSUME NEW M \in SUBSET Members, ArchiveMembers(M) PROVE TypeOK'
  BY <1>13, CouncilWithoutType DEF ArchiveMembers, TypeOK
<1>14. ASSUME NEW m \in Members, RestoreMember(m) PROVE TypeOK'
  BY <1>14 DEF RestoreMember, TypeOK
<1>15. ASSUME NEW y \in Years, NEW open \in BOOLEAN, UpdateSeason(y, open) PROVE TypeOK'
  BY <1>15 DEF UpdateSeason, TypeOK
<1>16. ASSUME NEW u \in Units, NEW y \in Years, BulkComplete(u, y) PROVE TypeOK'
  <2>1. CompletedCycle(u, cycle[u][y]) \in Cycle
    BY <1>16, CycleRow, CompletedRow DEF BulkComplete
  <2>2. cycle' = [cycle EXCEPT ![u][y] = CompletedCycle(u, cycle[u][y])]
    BY <1>16 DEF BulkComplete, TypeOK
  <2>3. QED
    BY <1>16, <2>1, <2>2, CycleWrite DEF BulkComplete, SyncedDetails, TypeOK
<1>17. CASE UNCHANGED vars
  BY <1>17 DEF vars, TypeOK
<1>18. QED
  BY <1>1, <1>2, <1>3, <1>4, <1>5, <1>6, <1>7, <1>8, <1>9, <1>10, <1>12, <1>13,
     <1>14, <1>15, <1>16, <1>17
  DEF Next, WizardStep, AdminRosterChange

(* Every reachable state is well-formed.                                   *)
THEOREM TypeCorrect == Spec => []TypeOK
BY InitType, NextType, PTL DEF Spec

-----------------------------------------------------------------------------
(* What one step can do to a cycle row.                                    *)

DeclaredRow(u, c) ==
  [c EXCEPT !.status = Declared,
            !.count  = RosterSize(u),
            !.fee    = RegistrationFee(RosterSize(u))]

RowEvolves(u, y) ==
  \/ cycle'[u][y] = cycle[u][y]
  \/ cycle[u][y] = Nil /\ cycle'[u][y] = NewCycle(u, y)
  \/ /\ cycle[u][y] # Nil
     /\ cycle[u][y].status \notin {Declared, Completed}
     /\ \/ \E st \in Status \ {Completed} : cycle'[u][y] = [cycle[u][y] EXCEPT !.status = st]
        \/ cycle'[u][y] = DeclaredRow(u, cycle[u][y])
  \/ cycle[u][y] # Nil /\ cycle'[u][y] = CompletedCycle(u, cycle[u][y])

LEMMA CycleEvolution ==
  TypeOK /\ [Next]_vars => \A u \in Units, y \in Years : RowEvolves(u, y)
<1> SUFFICES ASSUME TypeOK, [Next]_vars, NEW v \in Units, NEW z \in Years
             PROVE  RowEvolves(v, z)
  OBVIOUS
<1>a. season.year \in Years
  BY DEF TypeOK
<1>b. ASSUME cycle' = cycle PROVE RowEvolves(v, z)
  BY <1>b DEF RowEvolves
<1>1. ASSUME NEW u \in Units, OpenCycle(u) PROVE RowEvolves(v, z)
  BY <1>1, <1>a DEF OpenCycle, Current, RowEvolves, TypeOK
<1>2. ASSUME NEW u \in Units, InProgress(u), NEW st \in Status \ {Completed}, SetStatus(u, st)
      PROVE  RowEvolves(v, z)
  BY <1>2, <1>a DEF InProgress, Current, SetStatus, RowEvolves, TypeOK
<1>3. ASSUME NEW u \in Units, Declare(u) PROVE RowEvolves(v, z)
  BY <1>3, <1>a DEF Declare, InProgress, Current, DeclaredRow, RowEvolves, TypeOK
<1>4. ASSUME NEW u \in Units, CouncilorEdit(u) PROVE cycle' = cycle
  BY <1>4 DEF CouncilorEdit, AddCouncilor, DeleteCouncilor, UpdateCouncilor, Reopened,
              ReopenCouncilors, TypeOK
<1>5. ASSUME NEW u \in Units, NEW y \in Years, BulkComplete(u, y) PROVE RowEvolves(v, z)
  BY <1>5 DEF BulkComplete, RowEvolves, TypeOK
<1>6. ASSUME NEW u \in Units, WizardStep(u) PROVE RowEvolves(v, z)
  <2>1. CASE \E st \in Status \ {Completed} : InProgress(u) /\ SetStatus(u, st)
    BY <1>2, <2>1
  <2>2. CASE SaveDetails(u) \/ ConfirmDetails(u) \/ SubmitMembers(u) \/ ConfirmOfficials(u)
              \/ ConfirmCouncilors(u)
    BY <2>1, <2>2 DEF SaveDetails, ConfirmDetails, SubmitMembers, ConfirmOfficials,
                      ConfirmCouncilors, Status, UnitDetailsSaved, MembersCompleted,
                      OfficialsCompleted, CouncilorsCompleted, Completed
  <2>3. CASE \E m \in Members : AddMember(u, m) \/ UpdateMember(u, m) \/ DeleteMember(u, m)
    BY <1>b, <2>3 DEF AddMember, UpdateMember, DeleteMember
  <2>4. QED
    BY <1>1, <1>3, <1>6, <2>2, <2>3 DEF WizardStep
<1>7. CASE AdminRosterChange
  BY <1>7, <1>b DEF AdminRosterChange, ArchiveMembers, RestoreMember
<1>8. CASE \E y \in Years, open \in BOOLEAN : UpdateSeason(y, open)
  BY <1>8, <1>b DEF UpdateSeason
<1>9. CASE UNCHANGED vars
  BY <1>9, <1>b DEF vars
<1>10. QED
  BY <1>b, <1>4, <1>5, <1>6, <1>7, <1>8, <1>9 DEF Next

-----------------------------------------------------------------------------
(* A completed cycle stays completed.                                      *)

LEMMA RowKeepsCompletion ==
  ASSUME TypeOK, NEW u \in Units, NEW y \in Years, RowEvolves(u, y),
         cycle[u][y] # Nil, cycle[u][y].status = Completed
  PROVE  cycle'[u][y] # Nil /\ cycle'[u][y].status = Completed
<1>1. cycle[u][y] \in Cycle
  BY CycleRow
<1>2. CompletedCycle(u, cycle[u][y]) # Nil
  BY <1>1, CompletedRow, RegistryAssumption
<1>3. CompletedCycle(u, cycle[u][y]).status = Completed
  BY <1>1 DEF CompletedCycle, Cycle
<1>4. QED
  BY <1>2, <1>3 DEF RowEvolves

LEMMA CompletedStays ==
  ASSUME TypeOK, [Next]_vars, NEW u \in Units, NEW y \in Years,
         cycle[u][y] # Nil, cycle[u][y].status = Completed
  PROVE  cycle'[u][y] # Nil /\ cycle'[u][y].status = Completed
BY CycleEvolution, RowKeepsCompletion

(* No handler takes a completed registration back to the wizard, whatever  *)
(* the season is switched to (complete_cycle, require_cycle_in_progress).  *)
THEOREM CompletionIsFinal == Spec => CompletedIsFinal
<1>1. TypeOK /\ [Next]_vars =>
        [\A u \in Units, y \in Years :
           (cycle[u][y] # Nil /\ cycle[u][y].status = Completed) =>
             (cycle'[u][y] # Nil /\ cycle'[u][y].status = Completed)]_vars
  BY CompletedStays
<1>2. QED
  BY <1>1, TypeCorrect, PTL DEF Spec, CompletedIsFinal

-----------------------------------------------------------------------------
(* Snapshots.                                                              *)

LEMMA InitPriced == Init => SnapshotPriced
<1>1. \A st \in Status : Backfilled(st).count = Nil /\ Backfilled(st).fee = Nil
  BY DEF Backfilled
<1>2. QED
  BY <1>1 DEF Init, SnapshotPriced

Priced(c) ==
  \/ c.count = Nil /\ c.fee = Nil
  \/ c.count # Nil /\ c.fee = RegistrationFee(c.count)

LEMMA RowKeepsPrice ==
  ASSUME TypeOK, NEW u \in Units, NEW y \in Years, RowEvolves(u, y),
         cycle[u][y] # Nil => Priced(cycle[u][y]),
         cycle'[u][y] # Nil
  PROVE  Priced(cycle'[u][y])
<1> DEFINE c == cycle[u][y]
<1>1. c # Nil => c \in Cycle
  BY CycleRow
<1>2. CASE cycle'[u][y] = c
  BY <1>2
<1>3. CASE cycle'[u][y] = NewCycle(u, y)
  BY <1>3 DEF NewCycle, Priced
<1>4. CASE c # Nil /\ \E st \in Status \ {Completed} : cycle'[u][y] = [c EXCEPT !.status = st]
  BY <1>1, <1>4 DEF Cycle, Priced
<1>5. CASE c # Nil /\ cycle'[u][y] = DeclaredRow(u, c)
  <2>1. /\ cycle'[u][y].count = RosterSize(u)
        /\ cycle'[u][y].fee = RegistrationFee(RosterSize(u))
    BY <1>1, <1>5 DEF DeclaredRow, Cycle
  <2>2. QED
    BY <2>1, RosterCounted, FeesAssumption DEF Priced
<1>6. CASE c # Nil /\ cycle'[u][y] = CompletedCycle(u, c)
  BY <1>1, <1>6, CompletedPriced DEF Priced
<1>7. QED
  BY <1>2, <1>3, <1>4, <1>5, <1>6 DEF RowEvolves

LEMMA NextPriced == TypeOK /\ SnapshotPriced /\ [Next]_vars => SnapshotPriced'
BY CycleEvolution, RowKeepsPrice DEF SnapshotPriced, Priced

(* The count and the fee a declaration or a completion stores are always   *)
(* set together and always agree (submit_declaration, complete_cycle).     *)
THEOREM SnapshotsArePriced == Spec => []SnapshotPriced
BY InitPriced, NextPriced, TypeCorrect, PTL DEF Spec

-----------------------------------------------------------------------------
(* The renewal path.                                                       *)

LEMMA InitRenewal == Init => RenewalFollowsCompletion
<1>1. \A st \in Status : Backfilled(st).path = "fresh"
  BY DEF Backfilled
<1>2. QED
  BY <1>1 DEF Init, RenewalFollowsCompletion

(* A row is on the renewal path because it was, or because it was created  *)
(* after a completed previous season.                                      *)
LEMMA RowKeepsPath ==
  ASSUME TypeOK, NEW u \in Units, NEW y \in Years, RowEvolves(u, y),
         cycle'[u][y] # Nil, cycle'[u][y].path = "renewal"
  PROVE  \/ cycle[u][y] # Nil /\ cycle[u][y].path = "renewal"
         \/ \E z \in Years : z < y /\ cycle[u][z] # Nil /\ cycle[u][z].status = Completed
<1>1. cycle[u][y] # Nil => cycle[u][y] \in Cycle
  BY CycleRow
<1>2. CASE cycle[u][y] = Nil
  <2>1. cycle'[u][y] = NewCycle(u, y)
    BY <1>2 DEF RowEvolves
  <2>2. /\ y - 1 \in Years
        /\ cycle[u][y - 1] # Nil
        /\ cycle[u][y - 1].status = Completed
    BY <2>1 DEF NewCycle, PathType
  <2>3. y - 1 < y
    BY RegistryAssumption
  <2>4. QED
    BY <2>2, <2>3
<1>3. CASE cycle[u][y] # Nil
  <2>1. cycle'[u][y].path = cycle[u][y].path
    BY <1>1, <1>3 DEF RowEvolves, DeclaredRow, CompletedCycle, Cycle
  <2>2. QED
    BY <1>3, <2>1
<1>4. QED
  BY <1>2, <1>3

LEMMA NextRenewal == TypeOK /\ RenewalFollowsCompletion /\ [Next]_vars => RenewalFollowsCompletion'
<1> SUFFICES ASSUME TypeOK, RenewalFollowsCompletion, [Next]_vars,
                    NEW u \in Units, NEW y \in Years,
                    cycle'[u][y] # Nil, cycle'[u][y].path = "renewal"
             PROVE  \E z \in Years :
                      z < y /\ cycle'[u][z] # Nil /\ cycle'[u][z].status = Completed
  BY DEF RenewalFollowsCompletion
<1>1. \E z \in Years : z < y /\ cycle[u][z] # Nil /\ cycle[u][z].status = Completed
  <2>1. RowEvolves(u, y)
    BY CycleEvolution
  <2>2. QED
    BY <2>1, RowKeepsPath DEF RenewalFollowsCompletion
<1>2. QED
  BY <1>1, CompletedStays

(* A renewal always stands on an earlier completed season                  *)
(* (determine_path_type); the step that creates it and the finality of the *)
(* completion are both needed.                                             *)
THEOREM RenewalsFollowCompletion == Spec => []RenewalFollowsCompletion
BY InitRenewal, NextRenewal, TypeCorrect, PTL DEF Spec

-----------------------------------------------------------------------------
(* Councilors.                                                             *)

(* The inductive strengthening: an archived member is in no unit, so that  *)
(* restoring one cannot take a councilor away from another unit.           *)
ArchivedAway == \A m \in Members : archived[m] # Nil => owner[m] = Nil

CouncilInv == CouncilorsAreOwnMembers /\ ArchivedAway

CouncilorFrom(u, s, V) == council[u][s] # Nil => owner[council[u][s]] \in V

LEMMA InitCouncilors == Init => CouncilInv
BY DEF Init, CouncilorsAreOwnMembers, CouncilInv, ArchivedAway

(* A member who joins was in no unit, and is not the councilor.            *)
LEMMA JoiningKeepsCouncilor ==
  ASSUME TypeOK, NEW u \in Units, NEW s \in Slots,
         NEW V \in SUBSET Units, CouncilorFrom(u, s, V),
         NEW v \in Units, NEW m \in Members, owner[m] = Nil,
         owner' = [owner EXCEPT ![m] = v], council' = council
  PROVE  CouncilorFrom(u, s, V)'
<1>1. council[u][s] # Nil => council[u][s] \in Members /\ council[u][s] # m
  BY RegistryAssumption DEF TypeOK, CouncilorFrom
<1>2. QED
  BY <1>1 DEF TypeOK, CouncilorFrom

LEMMA LeavingKeepsCouncilor ==
  ASSUME TypeOK, NEW u \in Units, NEW s \in Slots,
         NEW V \in SUBSET Units, CouncilorFrom(u, s, V),
         NEW M \in SUBSET Members, council' = CouncilWithout(M),
         \A m \in Members \ M : owner'[m] = owner[m]
  PROVE  CouncilorFrom(u, s, V)'
<1>1. council'[u][s] = IF council[u][s] \in M THEN Nil ELSE council[u][s]
  BY DEF CouncilWithout
<1>2. council[u][s] # Nil => council[u][s] \in Members
  BY DEF TypeOK
<1>3. QED
  BY <1>1, <1>2 DEF CouncilorFrom

(* One councilor row: whatever the other rows hold, a councilor from one   *)
(* of the units V stays so, or is cleared.                                 *)
LEMMA CouncilorKept ==
  ASSUME TypeOK, ArchivedAway, [Next]_vars, NEW u \in Units, NEW s \in Slots,
         NEW V \in SUBSET Units, u \in V, CouncilorFrom(u, s, V)
  PROVE  CouncilorFrom(u, s, V)'
<1>1. ASSUME owner' = owner, council' = council PROVE CouncilorFrom(u, s, V)'
  BY <1>1 DEF CouncilorFrom
<1>2. ASSUME NEW v \in Units, NEW m \in Members, AddMember(v, m) PROVE CouncilorFrom(u, s, V)'
  BY <1>2, JoiningKeepsCouncilor DEF AddMember
<1>3. ASSUME NEW v \in Units, NEW m \in Members, DeleteMember(v, m) PROVE CouncilorFrom(u, s, V)'
  <2>1. council' = CouncilWithout({m}) /\ \A n \in Members \ {m} : owner'[n] = owner[n]
    BY <1>3 DEF DeleteMember, TypeOK
  <2>2. QED
    BY <2>1, LeavingKeepsCouncilor
<1>4. ASSUME NEW v \in Units, WizardStep(v) PROVE CouncilorFrom(u, s, V)'
  BY <1>1, <1>2, <1>3, <1>4
  DEF WizardStep, OpenCycle, SaveDetails, ConfirmDetails, UpdateMember, SubmitMembers,
      ConfirmOfficials, ConfirmCouncilors, Declare
<1>5. ASSUME NEW v \in Units, CouncilorEdit(v) PROVE CouncilorFrom(u, s, V)'
  <2>1. ASSUME NEW t \in Slots, NEW m \in Members,
               AddCouncilor(v, t, m) \/ UpdateCouncilor(v, t, m)
        PROVE  CouncilorFrom(u, s, V)'
    <3>1. owner[m] = v /\ owner' = owner /\ council' = [council EXCEPT ![v][t] = m]
      BY <2>1 DEF AddCouncilor, UpdateCouncilor
    <3>2. council'[u][s] = IF u = v /\ s = t THEN m ELSE council[u][s]
      BY <3>1 DEF TypeOK
    <3>3. QED
      BY <3>1, <3>2 DEF CouncilorFrom
  <2>2. ASSUME NEW t \in Slots, DeleteCouncilor(v, t) PROVE CouncilorFrom(u, s, V)'
    BY <2>2 DEF DeleteCouncilor, CouncilorFrom, TypeOK
  <2>3. QED
    BY <1>5, <2>1, <2>2 DEF CouncilorEdit
<1>6. ASSUME NEW M \in SUBSET Members, ArchiveMembers(M) PROVE CouncilorFrom(u, s, V)'
  BY <1>6, LeavingKeepsCouncilor DEF ArchiveMembers
<1>7. ASSUME NEW m \in Members, RestoreMember(m) PROVE CouncilorFrom(u, s, V)'
  <2>1. archived[m] \in Units /\ owner[m] = Nil
    BY <1>7 DEF RestoreMember, ArchivedAway, TypeOK
  <2>2. QED
    BY <1>7, <2>1, JoiningKeepsCouncilor DEF RestoreMember
<1>8. CASE \E y \in Years, open \in BOOLEAN : UpdateSeason(y, open)
  BY <1>1, <1>8 DEF UpdateSeason
<1>9. CASE \E v \in Units, y \in Years : BulkComplete(v, y)
  BY <1>1, <1>9 DEF BulkComplete
<1>10. CASE UNCHANGED vars
  BY <1>1, <1>10 DEF vars
<1>11. QED
  BY <1>4, <1>5, <1>6, <1>7, <1>8, <1>9, <1>10 DEF Next, AdminRosterChange

LEMMA NextArchivedAway == TypeOK /\ ArchivedAway /\ [Next]_vars => ArchivedAway'
<1> SUFFICES ASSUME TypeOK, ArchivedAway, [Next]_vars PROVE ArchivedAway'
  OBVIOUS
<1>1. ASSUME owner' = owner, archived' = archived PROVE ArchivedAway'
  BY <1>1 DEF ArchivedAway
<1>2. ASSUME NEW u \in Units, NEW m \in Members, AddMember(u, m) \/ DeleteMember(u, m)
      PROVE  ArchivedAway'
  BY <1>2 DEF AddMember, DeleteMember, ArchivedAway, TypeOK
<1>3. ASSUME NEW M \in SUBSET Members, ArchiveMembers(M) PROVE ArchivedAway'
  BY <1>3 DEF ArchiveMembers, ArchivedAway
<1>4. ASSUME NEW m \in Members, RestoreMember(m) PROVE ArchivedAway'
  BY <1>4 DEF RestoreMember, ArchivedAway, TypeOK
<1>5. ASSUME NEW u \in Units, WizardStep(u) \/ CouncilorEdit(u) PROVE ArchivedAway'
  BY <1>1, <1>2, <1>5
  DEF WizardStep, OpenCycle, SaveDetails, ConfirmDetails, UpdateMember, SubmitMembers,
      ConfirmOfficials, ConfirmCouncilors, Declare, CouncilorEdit, AddCouncilor,
      UpdateCouncilor, DeleteCouncilor
<1>6. CASE \/ \E y \in Years, open \in BOOLEAN : UpdateSeason(y, open)
           \/ \E u \in Units, y \in Years : BulkComplete(u, y)
           \/ UNCHANGED vars
  BY <1>1, <1>6 DEF UpdateSeason, BulkComplete, vars
<1>7. QED
  BY <1>3, <1>4, <1>5, <1>6 DEF Next, AdminRosterChange

LEMMA NextCouncilors == TypeOK /\ CouncilInv /\ [Next]_vars => CouncilInv'
<1> SUFFICES ASSUME TypeOK, CouncilInv, [Next]_vars PROVE CouncilInv'
  OBVIOUS
<1>1. ASSUME NEW u \in Units, NEW s \in Slots
      PROVE  (council[u][s] # Nil => owner[council[u][s]] = u)'
  <2>1. CouncilorFrom(u, s, {u})
    BY DEF CouncilInv, CouncilorsAreOwnMembers, CouncilorFrom
  <2>2. CouncilorFrom(u, s, {u})'
    BY <2>1, CouncilorKept DEF CouncilInv
  <2>3. QED
    BY <2>2 DEF CouncilorFrom
<1>2. QED
  BY <1>1, NextArchivedAway DEF CouncilInv, CouncilorsAreOwnMembers

(* No councilor row survives the departure of its member.                  *)
THEOREM CouncilorsAlwaysMembers == Spec => []CouncilorsAreOwnMembers
<1>1. Spec => []CouncilInv
  BY InitCouncilors, NextCouncilors, TypeCorrect, PTL DEF Spec
<1>2. CouncilInv => CouncilorsAreOwnMembers
  BY DEF CouncilInv
<1>3. QED
  BY <1>1, <1>2, PTL

LEMMA RequirementKept ==
  ASSUME NEW u \in Units, Roster(u)' = Roster(u),
         \A s \in Slots : council'[u][s] = council[u][s]
  PROVE  RequirementMet(u)' <=> RequirementMet(u)
<1>1. {s \in Slots : council[u][s] # Nil}' = {s \in Slots : council[u][s] # Nil}
  OBVIOUS
<1>2. CouncilorCount(u)' = CouncilorCount(u)
  BY <1>1 DEF CouncilorCount
<1>3. RosterSize(u)' = RosterSize(u)
  BY DEF RosterSize
<1>4. QED
  BY <1>2, <1>3 DEF RequirementMet

LEMMA RequirementStep ==
  ASSUME TypeOK, CouncilInv, [Next]_vars, NEW u \in Units, Current(u) # Nil,
         Current(u).status \in {Declared, Completed}, RequirementMet(u), ~RequirementMet(u)'
  PROVE  CouncilorEdit(u) \/ AdminRosterChange
<1>1. CASE owner' = owner /\ council' = council
  <2>1. Roster(u)' = Roster(u)
    BY <1>1 DEF Roster
  <2>2. QED
    BY <1>1, <2>1, RequirementKept
<1>2. ASSUME NEW v \in Units, WizardStep(v)  PROVE FALSE
  <2>1. CASE owner' = owner /\ council' = council
    <3>1. Roster(u)' = Roster(u)
      BY <2>1 DEF Roster
    <3>2. QED
      BY <2>1, <3>1, RequirementKept
  <2>2. ASSUME NEW m \in Members, AddMember(v, m)  PROVE FALSE
    <3>1. v # u /\ owner[m] = Nil /\ owner' = [owner EXCEPT ![m] = v] /\ council' = council
      BY <2>2 DEF AddMember, InProgress
    <3>2. Roster(u)' = Roster(u)
      BY <3>1, RegistryAssumption DEF Roster, TypeOK
    <3>3. QED
      BY <3>1, <3>2, RequirementKept
  <2>3. ASSUME NEW m \in Members, DeleteMember(v, m)  PROVE FALSE
    <3>1. /\ v # u /\ owner[m] = v /\ owner' = [owner EXCEPT ![m] = Nil]
          /\ council' = CouncilWithout({m})
      BY <2>3 DEF DeleteMember, InProgress
    <3>2. Roster(u)' = Roster(u)
      BY <3>1, RegistryAssumption DEF Roster, TypeOK
    <3>3. ASSUME NEW s \in Slots  PROVE council'[u][s] = council[u][s]
      <4>1. council[u][s] # m
        BY <3>1, RegistryAssumption DEF CouncilInv, CouncilorsAreOwnMembers
      <4>2. QED
        BY <3>1, <4>1 DEF CouncilWithout
    <3>4. QED
      BY <3>2, <3>3, RequirementKept
  <2>4. QED
    BY <1>2, <2>1, <2>2, <2>3
    DEF WizardStep, OpenCycle, SaveDetails, ConfirmDetails, UpdateMember, SubmitMembers,
        ConfirmOfficials, ConfirmCouncilors, Declare
<1>3. ASSUME NEW v \in Units, CouncilorEdit(v), v # u  PROVE FALSE
  <2>1. owner' = owner
    BY <1>3 DEF CouncilorEdit, AddCouncilor, DeleteCouncilor, UpdateCouncilor
  <2>2. Roster(u)' = Roster(u)
    BY <2>1 DEF Roster
  <2>3. \E s, m : council' = [council EXCEPT ![v][s] = m]
    BY <1>3 DEF CouncilorEdit, AddCouncilor, DeleteCouncilor, UpdateCouncilor
  <2>4. council'[u] = council[u]
    BY <1>3, <2>3 DEF TypeOK
  <2>5. QED
    BY <2>2, <2>4, RequirementKept
<1>4. CASE (\E y \in Years, open \in BOOLEAN : UpdateSeason(y, open))
           \/ (\E v \in Units, y \in Years : BulkComplete(v, y)) \/ UNCHANGED vars
  BY <1>1, <1>4 DEF UpdateSeason, BulkComplete, vars
<1>5. QED
  BY <1>2, <1>3, <1>4 DEF Next

(* Once a unit has declared, its councilors stop matching its roster only  *)
(* by an edit of them or by archiving and restoring: the deletions of      *)
(* other units and the season's changes cannot do it.                      *)
THEOREM RequirementsHold == Spec => RequirementLostOnlyByEdits
<1>1. TypeOK /\ CouncilInv /\ [Next]_vars =>
        [\A u \in Units :
           (/\ Current(u) # Nil
            /\ Current(u).status \in {Declared, Completed}
            /\ RequirementMet(u)
            /\ ~RequirementMet(u)')
           => CouncilorEdit(u) \/ AdminRosterChange]_vars
  BY RequirementStep
<1>2. Spec => []CouncilInv
  BY InitCouncilors, NextCouncilors, TypeCorrect, PTL DEF Spec
<1>3. QED
  BY <1>1, <1>2, TypeCorrect, PTL DEF Spec, RequirementLostOnlyByEdits

-----------------------------------------------------------------------------
(***************************************************************************)
(* RegistrationPayments and RegistrationScripts: the invariants survive    *)
(* fee adjustments, reconciliations, reviews, completions, the closing of  *)
(* seasons and the scripts.                                                *)
(***************************************************************************)

(* What one step can do to a cycle row.                                    *)

LEMMA RosterDelta ==
  ASSUME NEW u, NEW M
  PROVE  -Cardinality(M \intersect Roster(u)) \in Int
<1>1. IsFiniteSet(M \intersect Roster(u))
  BY RegistryAssumption, FS_Subset DEF Roster
<1>2. QED
  BY <1>1, FS_CardinalityType

(* An adjusted cycle is a row, with its status, path and completion kept   *)
(* and a whole snapshot.                                                   *)
LEMMA AdjustedRow ==
  ASSUME NEW u, Current(u) \in Cycle, NEW d \in Int
  PROVE  /\ AdjustedCycle(u, d) \in Cycle
         /\ AdjustedCycle(u, d).status = Current(u).status
         /\ AdjustedCycle(u, d).path = Current(u).path
<1>1. CASE Snapshot(Current(u))
  <2>1. Current(u).count \in Nat /\ Current(u).fee \in Nat
    BY <1>1 DEF Snapshot, Cycle
  <2>2. AdjustedCount(Current(u).count, d) \in Nat
    BY <2>1 DEF AdjustedCount, AtLeast
  <2>3. d * MemberFee \in Int
    BY FeesAssumption
  <2>4. AdjustedFee(Current(u).fee, d) \in Nat
    BY <2>1, <2>3, FeesAssumption DEF AdjustedFee, AtLeast
  <2>5. QED
    BY <1>1, <2>2, <2>4 DEF AdjustedCycle, Cycle
<1>2. CASE ~Snapshot(Current(u))
  BY <1>2, RosterCounted DEF AdjustedCycle, Cycle
<1>3. QED
  BY <1>1, <1>2

(* The separate clamps of adjust_fee_for_member_delta keep the snapshot    *)
(* priced.                                                                 *)
LEMMA AdjustedPriced ==
  ASSUME NEW u, Current(u) \in Cycle, NEW d \in Int,
         Snapshot(Current(u)) => Current(u).fee = RegistrationFee(Current(u).count)
  PROVE  /\ AdjustedCycle(u, d).count # Nil
         /\ AdjustedCycle(u, d).fee = RegistrationFee(AdjustedCycle(u, d).count)
<1>1. CASE Snapshot(Current(u))
  <2>1. Current(u).count \in Nat
    BY <1>1 DEF Snapshot, Cycle
  <2>2. /\ AdjustedCycle(u, d).count = AdjustedCount(Current(u).count, d)
        /\ AdjustedCycle(u, d).fee = AdjustedFee(RegistrationFee(Current(u).count), d)
    BY <1>1 DEF AdjustedCycle, Cycle
  <2>3. AdjustedCount(Current(u).count, d) \in Nat
    BY <2>1 DEF AdjustedCount, AtLeast
  <2>4. QED
    BY <2>1, <2>2, <2>3, AdjustmentKeepsPrice, FeesAssumption
<1>2. CASE ~Snapshot(Current(u))
  <2>1. /\ AdjustedCycle(u, d).count = RosterSize(u)
        /\ AdjustedCycle(u, d).fee = RegistrationFee(RosterSize(u))
    BY <1>2 DEF AdjustedCycle, Cycle
  <2>2. QED
    BY <2>1, RosterCounted, FeesAssumption
<1>3. QED
  BY <1>1, <1>2

LEMMA ClosedRow ==
  ASSUME NEW u, NEW y
  PROVE  ClosedCycle(u, y) \in Cycle /\ ClosedCycle(u, y).status = Completed
BY RosterCounted DEF ClosedCycle, Cycle, Status

RowAdjusts(u, y) ==
  /\ y = season.year
  /\ cycle[u][y] # Nil
  /\ Settled(cycle[u][y])
  /\ \E d \in Int : cycle'[u][y] = AdjustedCycle(u, d)

PaymentRowEvolves(u, y) ==
  \/ RowEvolves(u, y)
  \/ RowAdjusts(u, y)
  \/ cycle'[u][y] = ClosedCycle(u, y)

(* The reconciliation either leaves the row or adjusts it.                 *)
LEMMA ReconciledRow ==
  ASSUME TypeOK, NEW u \in Units, NEW y \in Years, cycle[u][y] # Nil
  PROVE  \/ ReconciledCycle(u, y) = cycle[u][y]
         \/ /\ y = season.year
            /\ Settled(cycle[u][y])
            /\ \E d \in Int : ReconciledCycle(u, y) = AdjustedCycle(u, d)
<1>1. cycle[u][y].count \in Nat \union {Nil}
  BY CycleRow DEF Cycle
<1>2. Drift(u, y) \in Int
  BY <1>1, RosterCounted DEF Drift
<1>3. Adjustable(u, Drift(u, y)) => y = season.year /\ Settled(cycle[u][y])
  BY DEF Adjustable, Drift
<1>4. QED
  BY <1>2, <1>3 DEF ReconciledCycle

LEMMA ActiveRow ==
  ASSUME TypeOK, NEW u \in Units, NEW y \in Years, IsActive(u, y)
  PROVE  cycle[u][y] # Nil
BY DEF IsActive, CompletedYears, Current

LEMMA SetRowEvolves ==
  ASSUME TypeOK, NEW u \in Units, NEW y \in Years, NEW c, NEW ps,
         cycle[u][y] # Nil,
         \/ c = cycle[u][y]
         \/ c = CompletedCycle(u, cycle[u][y])
         \/ y = season.year /\ Settled(cycle[u][y]) /\ \E d \in Int : c = AdjustedCycle(u, d),
         SetRow(u, y, c, ps)
  PROVE  \A v \in Units, z \in Years : PaymentRowEvolves(v, z)
<1>1. ASSUME NEW v \in Units, NEW z \in Years PROVE PaymentRowEvolves(v, z)
  <2>1. CASE v = u /\ z = y
    <3>1. cycle'[u][y] = c
      BY DEF SetRow, TypeOK
    <3>2. QED
      BY <2>1, <3>1 DEF PaymentRowEvolves, RowEvolves, RowAdjusts
  <2>2. CASE ~(v = u /\ z = y)
    <3>1. cycle'[v][z] = cycle[v][z]
      BY <2>2 DEF SetRow, TypeOK
    <3>2. QED
      BY <3>1 DEF PaymentRowEvolves, RowEvolves
  <2>3. QED
    BY <2>1, <2>2
<1>2. QED
  BY <1>1

(* An adjustment of fees adjusts the season's rows.                        *)
LEMMA AdjustFeesEvolves ==
  ASSUME TypeOK, NEW D, \A u \in Units : D[u] \in Int, AdjustFees(D)
  PROVE  \A u \in Units, y \in Years : PaymentRowEvolves(u, y)
<1>1. ASSUME NEW u \in Units, NEW y \in Years PROVE PaymentRowEvolves(u, y)
  <2>1. CASE Adjustable(u, D[u]) /\ y = season.year
    <3>1. cycle'[u][y] = AdjustedCycle(u, D[u]) /\ cycle[u][y] # Nil /\ Settled(cycle[u][y])
      BY <2>1 DEF AdjustFees, Adjustable, Current, TypeOK
    <3>2. QED
      BY <2>1, <3>1 DEF PaymentRowEvolves, RowAdjusts
  <2>2. CASE ~(Adjustable(u, D[u]) /\ y = season.year)
    <3>1. cycle'[u][y] = cycle[u][y]
      BY <2>2 DEF AdjustFees, TypeOK
    <3>2. QED
      BY <3>1 DEF PaymentRowEvolves, RowEvolves
  <2>3. QED
    BY <2>1, <2>2
<1>2. QED
  BY <1>1

(* The steps of the registration itself are steps of RegistrationCycle.    *)
RegistrationStep ==
  \/ \E u \in Units : WizardStep(u)
  \/ \E u \in Units : CouncilorEdit(u)
  \/ AdminRosterChange
  \/ \E y \in Years, open \in BOOLEAN : UpdateSeason(y, open)
  \/ \E u \in Units, y \in Years : BulkComplete(u, y)

(* The steps the payments add.                                             *)
PaymentStep ==
  \/ \E u \in Units, y \in Years : UnitPays(u, y)
  \/ \E u \in Units, y \in Years : AdminReviews(u, y)
  \/ \E u \in Units : AdminComplete(u)
  \/ RosterChangeWithFee
  \/ \E close, open \in Years : AdvanceSeason(close, open)

LEMMA PaymentsCases ==
  [PaymentsNext]_pvars => [Next]_vars \/ PaymentStep
BY DEF PaymentsNext, PaymentsStep, PaymentStep, Next, BulkCompletePaid, AdminLists,
       ListPayments, pvars

LEMMA PaymentStepEvolves ==
  TypeOK /\ PaymentStep => \A u \in Units, y \in Years : PaymentRowEvolves(u, y)
<1> SUFFICES ASSUME TypeOK, PaymentStep
             PROVE  \A u \in Units, y \in Years : PaymentRowEvolves(u, y)
  OBVIOUS
<1>1. ASSUME NEW u \in Units, NEW y \in Years, UnitPays(u, y)
      PROVE  \A v \in Units, z \in Years : PaymentRowEvolves(v, z)
  <2>1. IsActive(u, y) /\ \E ps : SetRow(u, y, ReconciledCycle(u, y), ps)
    BY <1>1 DEF UnitPays, GetPayment, SubmitProof
  <2>2. QED
    BY <2>1, ActiveRow, ReconciledRow, SetRowEvolves
<1>2. ASSUME NEW u \in Units, NEW y \in Years, AdminReviews(u, y)
      PROVE  \A v \in Units, z \in Years : PaymentRowEvolves(v, z)
  <2>1. cycle' = cycle
    BY <1>2 DEF AdminReviews, ApproveProof, RejectProof, vars
  <2>2. QED
    BY <2>1 DEF PaymentRowEvolves, RowEvolves
<1>3. ASSUME NEW u \in Units, AdminComplete(u)
      PROVE  \A v \in Units, z \in Years : PaymentRowEvolves(v, z)
  <2>1. season.year \in Years /\ Current(u) # Nil
    BY <1>3 DEF AdminComplete, AdminCompletable, TypeOK
  <2>2. \E ps : SetRow(u, season.year, CompletedCycle(u, cycle[u][season.year]), ps)
    BY <1>3 DEF AdminComplete, Current
  <2>3. QED
    BY <2>1, <2>2, SetRowEvolves DEF Current
<1>4. ASSUME NEW u \in Units, NEW m \in Members, ApproveAddMember(u, m)
      PROVE  \A v \in Units, z \in Years : PaymentRowEvolves(v, z)
  BY <1>4, AdjustFeesEvolves DEF ApproveAddMember
<1>5. ASSUME NEW M \in SUBSET Members, RemoveMembers(M)
      PROVE  \A v \in Units, z \in Years : PaymentRowEvolves(v, z)
  BY <1>5, RosterDelta, AdjustFeesEvolves DEF RemoveMembers
<1>6. ASSUME NEW close \in Years, NEW open \in Years, AdvanceSeason(close, open)
      PROVE  \A v \in Units, z \in Years : PaymentRowEvolves(v, z)
  <2>1. \A v \in Units, z \in Years :
          cycle'[v][z] = IF z = close THEN ClosedCycle(v, close) ELSE cycle[v][z]
    BY <1>6 DEF AdvanceSeason, TypeOK
  <2>2. QED
    BY <2>1 DEF PaymentRowEvolves, RowEvolves
<1>7. QED
  BY <1>1, <1>2, <1>3, <1>4, <1>5, <1>6 DEF PaymentStep, RosterChangeWithFee

-----------------------------------------------------------------------------
(* Types and finality.                                                     *)

(* A row some step has written is a row.                                   *)
LEMMA EvolvedRow ==
  ASSUME TypeOK, NEW u \in Units, NEW y \in Years,
         RowAdjusts(u, y) \/ cycle'[u][y] = ClosedCycle(u, y)
  PROVE  cycle'[u][y] \in Cycle
<1>1. CASE RowAdjusts(u, y)
  <2>1. Current(u) \in Cycle
    BY <1>1, CycleRow DEF RowAdjusts, Current
  <2>2. QED
    BY <1>1, <2>1, AdjustedRow DEF RowAdjusts
<1>2. QED
  BY <1>1, ClosedRow

(* The cycle table after a payment step, row by row.                       *)
LEMMA PaymentStepTable ==
  ASSUME TypeOK, PaymentStep
  PROVE  cycle' \in [Units -> [Years -> Cycle \union {Nil}]]
<1>1. ASSUME NEW u \in Units, NEW y \in Years, NEW c \in Cycle, NEW ps, SetRow(u, y, c, ps)
      PROVE  cycle' \in [Units -> [Years -> Cycle \union {Nil}]]
  BY <1>1, CycleWrite DEF SetRow
<1>2. ASSUME NEW D, \A u \in Units : D[u] \in Int, AdjustFees(D)
      PROVE  cycle' \in [Units -> [Years -> Cycle \union {Nil}]]
  <2>1. ASSUME NEW u \in Units, Adjustable(u, D[u])
        PROVE  [cycle[u] EXCEPT ![season.year] = AdjustedCycle(u, D[u])]
                 \in [Years -> Cycle \union {Nil}]
    <3>1. Current(u) \in Cycle
      BY <2>1, CycleRow DEF Adjustable, Current, TypeOK
    <3>2. AdjustedCycle(u, D[u]) \in Cycle
      BY <1>2, <3>1, AdjustedRow
    <3>3. QED
      BY <3>2 DEF TypeOK
  <2>2. QED
    BY <1>2, <2>1 DEF AdjustFees, TypeOK
<1>3. ASSUME NEW u \in Units, NEW y \in Years, UnitPays(u, y)
      PROVE  cycle' \in [Units -> [Years -> Cycle \union {Nil}]]
  <2>1. cycle[u][y] \in Cycle
    BY <1>3, ActiveRow, CycleRow DEF UnitPays, GetPayment, SubmitProof
  <2>2. ReconciledCycle(u, y) \in Cycle
    BY <2>1, ReconciledRow, AdjustedRow, RegistryAssumption DEF Current
  <2>3. QED
    BY <1>1, <1>3, <2>2 DEF UnitPays, GetPayment, SubmitProof
<1>4. ASSUME NEW u \in Units, AdminComplete(u)
      PROVE  cycle' \in [Units -> [Years -> Cycle \union {Nil}]]
  <2>1. season.year \in Years /\ Current(u) \in Cycle
    BY <1>4, CycleRow DEF AdminComplete, AdminCompletable, Current, TypeOK
  <2>2. QED
    BY <1>1, <1>4, <2>1, CompletedRow DEF AdminComplete
<1>5. ASSUME NEW close \in Years, NEW open \in Years, AdvanceSeason(close, open)
      PROVE  cycle' \in [Units -> [Years -> Cycle \union {Nil}]]
  <2>1. \A u \in Units :
          [cycle[u] EXCEPT ![close] = ClosedCycle(u, close)] \in [Years -> Cycle \union {Nil}]
    BY ClosedRow DEF TypeOK
  <2>2. QED
    BY <1>5, <2>1 DEF AdvanceSeason
<1>6. ASSUME NEW u \in Units, NEW y \in Years, AdminReviews(u, y)
      PROVE  cycle' \in [Units -> [Years -> Cycle \union {Nil}]]
  BY <1>6 DEF AdminReviews, ApproveProof, RejectProof, vars, TypeOK
<1>7. ASSUME NEW u \in Units, NEW m \in Members, ApproveAddMember(u, m)
      PROVE  cycle' \in [Units -> [Years -> Cycle \union {Nil}]]
  BY <1>2, <1>7 DEF ApproveAddMember
<1>8. ASSUME NEW M \in SUBSET Members, RemoveMembers(M)
      PROVE  cycle' \in [Units -> [Years -> Cycle \union {Nil}]]
  BY <1>2, <1>8, RosterDelta DEF RemoveMembers
<1>9. QED
  BY <1>3, <1>4, <1>5, <1>6, <1>7, <1>8 DEF PaymentStep, RosterChangeWithFee

LEMMA PaymentStepType == TypeOK /\ PaymentStep => TypeOK'
<1> SUFFICES ASSUME TypeOK, PaymentStep PROVE TypeOK'
  OBVIOUS
<1>1. cycle' \in [Units -> [Years -> Cycle \union {Nil}]]
  BY PaymentStepTable
<1>2. ASSUME NEW u \in Units, NEW y \in Years, UnitPays(u, y) \/ AdminReviews(u, y)
      PROVE  TypeOK'
  BY <1>1, <1>2 DEF UnitPays, GetPayment, SubmitProof, AdminReviews, ApproveProof, RejectProof,
                    vars, TypeOK
<1>3. ASSUME NEW u \in Units, AdminComplete(u) PROVE TypeOK'
  BY <1>1, <1>3 DEF AdminComplete, SyncedDetails, TypeOK
<1>4. ASSUME NEW u \in Units, NEW m \in Members, ApproveAddMember(u, m) PROVE TypeOK'
  BY <1>1, <1>4 DEF ApproveAddMember, TypeOK
<1>5. ASSUME NEW M \in SUBSET Members, RemoveMembers(M) PROVE TypeOK'
  BY <1>1, <1>5, CouncilWithoutType DEF RemoveMembers, TypeOK
<1>6. ASSUME NEW close \in Years, NEW open \in Years, AdvanceSeason(close, open) PROVE TypeOK'
  BY <1>1, <1>6 DEF AdvanceSeason, TypeOK
<1>7. QED
  BY <1>2, <1>3, <1>4, <1>5, <1>6 DEF PaymentStep, RosterChangeWithFee

(* The rows of the registration keep their types under payments too.       *)
THEOREM PaymentsTypeCorrect == PaymentsSpec => []TypeOK
<1>1. PaymentsInit => TypeOK
  BY InitType DEF PaymentsInit
<1>2. TypeOK /\ [PaymentsNext]_pvars => TypeOK'
  BY NextType, PaymentStepType, PaymentsCases
<1>3. QED
  BY <1>1, <1>2, PTL DEF PaymentsSpec

LEMMA CompletedStaysUnderPayments ==
  ASSUME TypeOK, [PaymentsNext]_pvars, NEW u \in Units, NEW y \in Years,
         cycle[u][y] # Nil, cycle[u][y].status = Completed
  PROVE  cycle'[u][y] # Nil /\ cycle'[u][y].status = Completed
<1>1. CASE [Next]_vars
  BY <1>1, CompletedStays
<1>2. CASE PaymentStep
  <2>1. PaymentRowEvolves(u, y)
    BY <1>2, PaymentStepEvolves
  <2>2. CASE RowEvolves(u, y)
    BY <2>2, RowKeepsCompletion
  <2>3. CASE RowAdjusts(u, y)
    <3>1. Current(u) \in Cycle /\ Current(u) = cycle[u][y]
      BY <2>3, CycleRow DEF RowAdjusts, Current
    <3>2. cycle'[u][y].status = Completed
      BY <2>3, <3>1, AdjustedRow DEF RowAdjusts
    <3>3. QED
      BY <2>3, <3>2, EvolvedRow, RegistryAssumption
  <2>4. CASE cycle'[u][y] = ClosedCycle(u, y)
    BY <2>4, ClosedRow, RegistryAssumption
  <2>5. QED
    BY <2>1, <2>2, <2>3, <2>4 DEF PaymentRowEvolves
<1>3. QED
  BY <1>1, <1>2, PaymentsCases

(* Completion is final under payments, reviews and the closing script.     *)
THEOREM CompletionIsFinalUnderPayments == PaymentsSpec => CompletedIsFinal
<1>1. TypeOK /\ [PaymentsNext]_pvars =>
        [\A u \in Units, y \in Years :
           (cycle[u][y] # Nil /\ cycle[u][y].status = Completed) =>
             (cycle'[u][y] # Nil /\ cycle'[u][y].status = Completed)]_vars
  BY CompletedStaysUnderPayments
<1>2. QED
  BY <1>1, PaymentsTypeCorrect, PTL DEF PaymentsSpec, CompletedIsFinal

-----------------------------------------------------------------------------
(* Snapshots.                                                              *)

LEMMA PaymentsNextPriced == TypeOK /\ SnapshotPriced /\ [PaymentsNext]_pvars => SnapshotPriced'
<1> SUFFICES ASSUME TypeOK, SnapshotPriced, PaymentStep,
                    NEW u \in Units, NEW y \in Years, cycle'[u][y] # Nil
             PROVE  Priced(cycle'[u][y])
  BY NextPriced, PaymentsCases DEF SnapshotPriced, Priced
<1>1. cycle[u][y] # Nil => Priced(cycle[u][y])
  BY DEF SnapshotPriced, Priced
<1>2. CASE RowEvolves(u, y)
  BY <1>1, <1>2, RowKeepsPrice
<1>3. CASE RowAdjusts(u, y)
  <2>1. Current(u) \in Cycle /\ Current(u) = cycle[u][y]
    BY <1>3, CycleRow DEF RowAdjusts, Current
  <2>2. Snapshot(Current(u)) => Current(u).fee = RegistrationFee(Current(u).count)
    BY <1>1, <1>3, <2>1 DEF RowAdjusts, Snapshot, Priced
  <2>3. QED
    BY <1>3, <2>1, <2>2, AdjustedPriced DEF RowAdjusts, Priced
<1>4. CASE cycle'[u][y] = ClosedCycle(u, y)
  BY <1>4, RosterCounted, FeesAssumption DEF ClosedCycle, Priced
<1>5. QED
  BY <1>2, <1>3, <1>4, PaymentStepEvolves DEF PaymentRowEvolves

(* However members come and go after the declaration, the count and the    *)
(* fee of the snapshot never drift apart, although                         *)
(* adjust_fee_for_member_delta moves and clamps each on its own.           *)
THEOREM SnapshotsStayPriced == PaymentsSpec => []SnapshotPriced
<1>1. PaymentsInit => SnapshotPriced
  BY InitPriced DEF PaymentsInit
<1>2. QED
  BY <1>1, PaymentsNextPriced, PaymentsTypeCorrect, PTL DEF PaymentsSpec

-----------------------------------------------------------------------------
(* The renewal path.                                                       *)

LEMMA PaymentsNextRenewal ==
  TypeOK /\ RenewalFollowsCompletion /\ [PaymentsNext]_pvars => RenewalFollowsCompletion'
<1> SUFFICES ASSUME TypeOK, RenewalFollowsCompletion, [PaymentsNext]_pvars, PaymentStep,
                    NEW u \in Units, NEW y \in Years,
                    cycle'[u][y] # Nil, cycle'[u][y].path = "renewal"
             PROVE  \E z \in Years :
                      z < y /\ cycle'[u][z] # Nil /\ cycle'[u][z].status = Completed
  BY NextRenewal, PaymentsCases DEF RenewalFollowsCompletion
<1>1. \E z \in Years : z < y /\ cycle[u][z] # Nil /\ cycle[u][z].status = Completed
  <2>1. CASE RowEvolves(u, y)
    BY <2>1, RowKeepsPath DEF RenewalFollowsCompletion
  <2>2. CASE RowAdjusts(u, y)
    <3>1. Current(u) \in Cycle /\ Current(u) = cycle[u][y] /\ cycle[u][y] # Nil
      BY <2>2, CycleRow DEF RowAdjusts, Current
    <3>2. cycle[u][y].path = "renewal"
      BY <2>2, <3>1, AdjustedRow DEF RowAdjusts
    <3>3. QED
      BY <3>1, <3>2 DEF RenewalFollowsCompletion
  <2>3. CASE cycle'[u][y] = ClosedCycle(u, y)
    <3>1. \E z \in CompletedYears(u) : z < y
      BY <2>3 DEF ClosedCycle
    <3>2. QED
      BY <3>1 DEF CompletedYears
  <2>4. QED
    BY <2>1, <2>2, <2>3, PaymentStepEvolves DEF PaymentRowEvolves
<1>2. QED
  BY <1>1, CompletedStaysUnderPayments

(* A renewal stands on an earlier completed season, also when the closing  *)
(* script created or rewrote the cycle (resolve_path_type).                *)
THEOREM RenewalsFollowCompletionUnderPayments == PaymentsSpec => []RenewalFollowsCompletion
<1>1. PaymentsInit => RenewalFollowsCompletion
  BY InitRenewal DEF PaymentsInit
<1>2. QED
  BY <1>1, PaymentsNextRenewal, PaymentsTypeCorrect, PTL DEF PaymentsSpec

-----------------------------------------------------------------------------
(* Councilors.                                                             *)

LEMMA PayingLeavesRoster ==
  ASSUME NEW u \in Units, NEW y \in Years, UnitPays(u, y) \/ AdminReviews(u, y)
  PROVE  owner' = owner /\ archived' = archived /\ council' = council
<1>1. CASE UnitPays(u, y)
  BY <1>1 DEF UnitPays, GetPayment, SubmitProof
<1>2. CASE AdminReviews(u, y)
  BY <1>2 DEF AdminReviews, ApproveProof, RejectProof, vars
<1>3. QED
  BY <1>1, <1>2

LEMMA PaymentsCouncilorKept ==
  ASSUME TypeOK, ArchivedAway, [PaymentsNext]_pvars, NEW u \in Units, NEW s \in Slots,
         NEW V \in SUBSET Units, u \in V, CouncilorFrom(u, s, V)
  PROVE  CouncilorFrom(u, s, V)'
<1> SUFFICES ASSUME PaymentStep PROVE CouncilorFrom(u, s, V)'
  BY CouncilorKept, PaymentsCases
<1>1. ASSUME owner' = owner, council' = council PROVE CouncilorFrom(u, s, V)'
  BY <1>1 DEF CouncilorFrom
<1>2. ASSUME NEW v \in Units, NEW m \in Members, ApproveAddMember(v, m)
      PROVE  CouncilorFrom(u, s, V)'
  BY <1>2, JoiningKeepsCouncilor DEF ApproveAddMember
<1>3. ASSUME NEW M \in SUBSET Members, RemoveMembers(M) PROVE CouncilorFrom(u, s, V)'
  BY <1>3, LeavingKeepsCouncilor DEF RemoveMembers
<1>4. CASE \E v \in Units, y \in Years : UnitPays(v, y) \/ AdminReviews(v, y)
  BY <1>1, <1>4, PayingLeavesRoster
<1>5. CASE \E v \in Units : AdminComplete(v)
  BY <1>1, <1>5 DEF AdminComplete
<1>6. CASE \E close, open \in Years : AdvanceSeason(close, open)
  BY <1>1, <1>6 DEF AdvanceSeason
<1>7. QED
  BY <1>2, <1>3, <1>4, <1>5, <1>6 DEF PaymentStep, RosterChangeWithFee

LEMMA PaymentsArchivedAway == TypeOK /\ ArchivedAway /\ [PaymentsNext]_pvars => ArchivedAway'
<1> SUFFICES ASSUME TypeOK, ArchivedAway, PaymentStep PROVE ArchivedAway'
  BY NextArchivedAway, PaymentsCases
<1>1. ASSUME owner' = owner, archived' = archived PROVE ArchivedAway'
  BY <1>1 DEF ArchivedAway
<1>2. CASE RosterChangeWithFee
  BY <1>2 DEF RosterChangeWithFee, ApproveAddMember, RemoveMembers, ArchivedAway, TypeOK
<1>3. CASE \E u \in Units, y \in Years : UnitPays(u, y) \/ AdminReviews(u, y)
  BY <1>1, <1>3, PayingLeavesRoster
<1>4. CASE \/ \E u \in Units : AdminComplete(u)
           \/ \E close, open \in Years : AdvanceSeason(close, open)
  BY <1>1, <1>4 DEF AdminComplete, AdvanceSeason
<1>5. QED
  BY <1>2, <1>3, <1>4 DEF PaymentStep

LEMMA PaymentsNextCouncilors == TypeOK /\ CouncilInv /\ [PaymentsNext]_pvars => CouncilInv'
<1> SUFFICES ASSUME TypeOK, CouncilInv, [PaymentsNext]_pvars PROVE CouncilInv'
  OBVIOUS
<1>1. ASSUME NEW u \in Units, NEW s \in Slots
      PROVE  (council[u][s] # Nil => owner[council[u][s]] = u)'
  <2>1. CouncilorFrom(u, s, {u})
    BY DEF CouncilInv, CouncilorsAreOwnMembers, CouncilorFrom
  <2>2. CouncilorFrom(u, s, {u})'
    BY <2>1, PaymentsCouncilorKept DEF CouncilInv
  <2>3. QED
    BY <2>2 DEF CouncilorFrom
<1>2. QED
  BY <1>1, PaymentsArchivedAway DEF CouncilInv, CouncilorsAreOwnMembers

(* No councilor row survives an admin removal of its member either         *)
(* (remove_member_dependencies, remove_unit_member).                       *)
THEOREM CouncilorsAlwaysMembersUnderPayments == PaymentsSpec => []CouncilorsAreOwnMembers
<1>1. PaymentsInit => CouncilInv
  BY InitCouncilors DEF PaymentsInit
<1>2. PaymentsSpec => []CouncilInv
  BY <1>1, PaymentsNextCouncilors, PaymentsTypeCorrect, PTL DEF PaymentsSpec
<1>3. CouncilInv => CouncilorsAreOwnMembers
  BY DEF CouncilInv
<1>4. QED
  BY <1>2, <1>3, PTL

-----------------------------------------------------------------------------
(* Other seasons.                                                          *)

LEMMA OtherSeasonStep ==
  ASSUME TypeOK, [PaymentsNext]_pvars, NEW u \in Units, NEW y \in Years,
         y # season.year, cycle'[u][y] # cycle[u][y]
  PROVE  BulkComplete(u, y) \/ \E open \in Years : AdvanceSeason(y, open)
<1>a. season.year \in Years
  BY DEF TypeOK
<1>b. ASSUME NEW v \in Units, NEW c, cycle' = [cycle EXCEPT ![v][season.year] = c] PROVE FALSE
  BY <1>a, <1>b DEF TypeOK
<1>1. ASSUME NEW v \in Units, WizardStep(v) PROVE FALSE
  <2>1. cycle' = cycle \/ \E c : cycle' = [cycle EXCEPT ![v][season.year] = c]
    <3>1. ASSUME NEW st, SetStatus(v, st)
          PROVE  cycle' = [cycle EXCEPT ![v][season.year] = [cycle[v][season.year] EXCEPT !.status = st]]
      BY <1>a, <3>1 DEF SetStatus, TypeOK
    <3>2. QED
      BY <1>1, <3>1 DEF WizardStep, OpenCycle, SaveDetails, ConfirmDetails, AddMember, UpdateMember,
           DeleteMember, SubmitMembers, ConfirmOfficials, ConfirmCouncilors, Declare
  <2>2. QED
    BY <1>b, <2>1
<1>2. ASSUME NEW v \in Units, CouncilorEdit(v) PROVE FALSE
  <2>1. Reopened(v)
    BY <1>2 DEF CouncilorEdit, AddCouncilor, DeleteCouncilor, UpdateCouncilor
  <2>2. QED
    BY <1>b, <2>1 DEF Reopened
<1>3. CASE AdminRosterChange \/ \E z \in Years, open \in BOOLEAN : UpdateSeason(z, open)
  BY <1>3 DEF AdminRosterChange, ArchiveMembers, RestoreMember, UpdateSeason
<1>4. ASSUME NEW v \in Units, NEW z \in Years, BulkComplete(v, z) PROVE BulkComplete(u, y)
  BY <1>4 DEF BulkComplete, TypeOK
<1>5. ASSUME NEW v \in Units, NEW z \in Years, UnitPays(v, z) PROVE FALSE
  <2>1. IsActive(v, z) /\ cycle' = [cycle EXCEPT ![v][z] = ReconciledCycle(v, z)]
    BY <1>5 DEF UnitPays, GetPayment, SubmitProof, SetRow
  <2>2. z # season.year => ReconciledCycle(v, z) = cycle[v][z]
    BY DEF ReconciledCycle, Adjustable, Drift
  <2>3. QED
    BY <1>b, <2>1, <2>2 DEF TypeOK
<1>6. CASE \E v \in Units, z \in Years : AdminReviews(v, z)
  BY <1>6 DEF AdminReviews, ApproveProof, RejectProof, vars
<1>7. CASE \E v \in Units : AdminComplete(v)
  BY <1>b, <1>7 DEF AdminComplete, SetRow
<1>8. ASSUME NEW D, AdjustFees(D) PROVE FALSE
  BY <1>8 DEF AdjustFees, TypeOK
<1>9. CASE RosterChangeWithFee
  BY <1>8, <1>9 DEF RosterChangeWithFee, ApproveAddMember, RemoveMembers
<1>10. ASSUME NEW close \in Years, NEW open \in Years, AdvanceSeason(close, open)
       PROVE  AdvanceSeason(y, open)
  <2>1. cycle' = [v \in Units |-> [cycle[v] EXCEPT ![close] = ClosedCycle(v, close)]]
    BY <1>10 DEF AdvanceSeason
  <2>2. close = y
    BY <2>1 DEF TypeOK
  <2>3. QED
    BY <1>10, <2>2
<1>11. CASE AdminLists \/ UNCHANGED pvars
  <2>1. UNCHANGED vars
    BY <1>11 DEF AdminLists, ListPayments, pvars
  <2>2. QED
    BY <2>1 DEF vars
<1>12. QED
  BY <1>1, <1>2, <1>3, <1>4, <1>5, <1>6, <1>7, <1>9, <1>10, <1>11
  DEF PaymentsNext, PaymentsStep, BulkCompletePaid

(* While registration is closed a unit is served its last completed cycle; *)
(* neither looking at its payments nor paying changes that cycle           *)
(* (reconcile_cycle_fee_after_member_removals adjusts only the season's).  *)
THEOREM OtherSeasonsAreStable == PaymentsSpec => OtherSeasonsStand
<1>1. TypeOK /\ [PaymentsNext]_pvars =>
        [\A u \in Units, y \in Years :
           (y # season.year /\ cycle'[u][y] # cycle[u][y])
           => BulkComplete(u, y) \/ \E open \in Years : AdvanceSeason(y, open)]_pvars
  BY OtherSeasonStep
<1>2. QED
  BY <1>1, PaymentsTypeCorrect, PTL DEF PaymentsSpec, OtherSeasonsStand

-----------------------------------------------------------------------------
(* The scripts besides the season closing.                                 *)

(* How a script leaves a row: untouched, new, with another snapshot,       *)
(* completed with one, adjusted in the current season, or gone with all of *)
(* its unit.                                                               *)
ScriptRow(u, y) ==
  \/ cycle'[u][y] = cycle[u][y]
  \/ cycle[u][y] = Nil /\ cycle'[u][y] = NewCycle(u, y)
  \/ /\ cycle[u][y] # Nil
     /\ \E n, f \in Nat : cycle'[u][y] = [cycle[u][y] EXCEPT !.count = n, !.fee = f]
  \/ /\ cycle[u][y] # Nil
     /\ \E n, f \in Nat :
          cycle'[u][y] = [cycle[u][y] EXCEPT !.status = Completed, !.count = n, !.fee = f,
                                             !.completed = TRUE]
  \/ RowAdjusts(u, y)
  \/ \A z \in Years : cycle'[u][z] = Nil

LEMMA RepairFeeType == ASSUME NEW n \in Nat PROVE RepairFee(n) \in Nat
BY FeesAssumption DEF RepairFee

LEMMA ScriptRows ==
  ASSUME TypeOK, ScriptStep
  PROVE  \A u \in Units, y \in Years : ScriptRow(u, y)
<1>1. ASSUME NEW U, RepairBalances(U), NEW u \in Units, NEW y \in Years PROVE ScriptRow(u, y)
  <2>1. RosterSize(u) \in Nat /\ RepairFee(RosterSize(u)) \in Nat
    BY RosterCounted, RepairFeeType
  <2>2. QED
    BY <1>1, <2>1 DEF RepairBalances, Repairable, ScriptRow
<1>2. ASSUME NEW U, InferPaidAmounts(U), NEW u \in Units, NEW y \in Years PROVE ScriptRow(u, y)
  BY <1>2 DEF InferPaidAmounts, vars, ScriptRow
<1>3. ASSUME NEW x \in Years, BackfillSeasonPayments(x), NEW u \in Units, NEW y \in Years
      PROVE  ScriptRow(u, y)
  BY <1>3 DEF BackfillSeasonPayments, TypeOK, ScriptRow
<1>4. ASSUME NEW x \in Years, ChargeGrowth(x), NEW u \in Units, NEW y \in Years
      PROVE  ScriptRow(u, y)
  <2>1. PICK D : AdjustFees(D) /\ \A v \in Units : D[v] \in Int
    <3> DEFINE grown(v) == IF cycle[v][x] # Nil /\ Settled(cycle[v][x]) /\ cycle[v][x].count # Nil
                           THEN AtLeast(0, RosterSize(v) - cycle[v][x].count) ELSE 0
    <3>1. \A v \in Units : grown(v) \in Int
      BY RosterCounted, CycleRow DEF Cycle, AtLeast
    <3>2. QED
      BY <1>4, <3>1 DEF ChargeGrowth
  <2>2. CASE Adjustable(u, D[u]) /\ y = season.year
    BY <2>1, <2>2 DEF AdjustFees, Adjustable, Current, RowAdjusts, ScriptRow, TypeOK
  <2>3. CASE ~(Adjustable(u, D[u]) /\ y = season.year)
    BY <2>1, <2>3 DEF AdjustFees, ScriptRow, TypeOK
  <2>4. QED
    BY <2>2, <2>3
<1>5. ASSUME NEW x \in Years, CompleteSeason(x), NEW u \in Units, NEW y \in Years
      PROVE  ScriptRow(u, y)
  <2>1. RosterSize(u) \in Nat /\ RegistrationFee(RosterSize(u)) \in Nat
    BY RosterCounted
  <2>2. cycle'[u][y] = cycle[u][y] \/
          /\ cycle[u][y] # Nil
          /\ cycle'[u][y] = [cycle[u][y] EXCEPT !.status = Completed, !.count = RosterSize(u),
                                   !.fee = RegistrationFee(RosterSize(u)), !.completed = TRUE]
    BY <1>5 DEF CompleteSeason, TypeOK
  <2>3. QED
    BY <2>1, <2>2 DEF ScriptRow
<1>6. ASSUME NEW v \in Units, RemoveUnit(v), NEW u \in Units, NEW y \in Years PROVE ScriptRow(u, y)
  BY <1>6 DEF RemoveUnit, TypeOK, ScriptRow
<1>7. ASSUME ClearResidence, NEW u \in Units, NEW y \in Years PROVE ScriptRow(u, y)
  BY <1>7 DEF ClearResidence, ScriptRow
<1>8. QED
  BY <1>1, <1>2, <1>3, <1>4, <1>5, <1>6, <1>7 DEF ScriptStep, LedgerScript

LEMMA ScriptRowTyped ==
  ASSUME TypeOK, NEW u \in Units, NEW y \in Years, ScriptRow(u, y)
  PROVE  cycle'[u][y] \in Cycle \union {Nil}
<1>1. CASE RowAdjusts(u, y)
  BY <1>1, EvolvedRow
<1>2. NewCycle(u, y) \in Cycle
  BY DEF NewCycle, PathType, Cycle, Status
<1>3. ASSUME cycle[u][y] # Nil, NEW n \in Nat, NEW f \in Nat
      PROVE  /\ [cycle[u][y] EXCEPT !.count = n, !.fee = f] \in Cycle
             /\ [cycle[u][y] EXCEPT !.status = Completed, !.count = n, !.fee = f,
                                    !.completed = TRUE] \in Cycle
  BY <1>3, CycleRow DEF Cycle, Status
<1>4. cycle[u][y] \in Cycle \union {Nil}
  BY DEF TypeOK
<1>5. QED
  BY <1>1, <1>2, <1>3, <1>4 DEF ScriptRow

LEMMA ScriptStepType == TypeOK /\ ScriptStep => TypeOK'
<1> SUFFICES ASSUME TypeOK, ScriptStep PROVE TypeOK'
  OBVIOUS
<1>1. \A u \in Units, y \in Years : cycle'[u][y] \in Cycle \union {Nil}
  BY ScriptRows, ScriptRowTyped
<1> DEFINE Table == /\ cycle' = [u \in Units |-> cycle'[u]]
                    /\ \A u \in Units : cycle'[u] = [y \in Years |-> cycle'[u][y]]
<1>2. cycle' \in [Units -> [Years -> Cycle \union {Nil}]]
  <2>1. ASSUME NEW U, RepairBalances(U) PROVE Table
    BY <2>1 DEF RepairBalances
  <2>2. ASSUME NEW y \in Years, BackfillSeasonPayments(y) PROVE Table
    BY <2>2 DEF BackfillSeasonPayments, TypeOK
  <2>3. ASSUME NEW D, AdjustFees(D) PROVE Table
    BY <2>3 DEF AdjustFees, TypeOK
  <2>4. ASSUME NEW y \in Years, CompleteSeason(y) PROVE Table
    BY <2>4 DEF CompleteSeason, TypeOK
  <2>5. ASSUME NEW u \in Units, RemoveUnit(u) PROVE Table
    BY <2>5 DEF RemoveUnit, TypeOK
  <2>6. ASSUME cycle' = cycle PROVE Table
    BY <2>6 DEF TypeOK
  <2>7. Table
    BY <2>1, <2>2, <2>3, <2>4, <2>5, <2>6 DEF ScriptStep, LedgerScript, InferPaidAmounts,
       ChargeGrowth, ClearResidence, vars
  <2>8. \A u \in Units : cycle'[u] \in [Years -> Cycle \union {Nil}]
    BY <1>1, <2>7
  <2>9. QED
    BY <2>7, <2>8
<1>3. ASSUME NEW u \in Units, RemoveUnit(u) PROVE TypeOK'
  BY <1>2, <1>3 DEF RemoveUnit, TypeOK
<1>4. CASE ClearResidence
  BY <1>2, <1>4 DEF ClearResidence, TypeOK
<1>5. CASE UNCHANGED <<season, owner, archived, incomplete, council, details>>
  BY <1>2, <1>5 DEF TypeOK
<1>6. QED
  BY <1>3, <1>4, <1>5 DEF ScriptStep, LedgerScript, RepairBalances, InferPaidAmounts,
     BackfillSeasonPayments, ChargeGrowth, CompleteSeason, vars

LEMMA ScriptsCases ==
  [ScriptsNext]_pvars => [PaymentsNext]_pvars \/ ScriptStep
BY DEF ScriptsNext, PaymentsNext

(* The rows of the registration keep their types under every script.       *)
THEOREM ScriptsTypeCorrect == ScriptsSpec => []TypeOK
<1>1. PaymentsInit => TypeOK
  BY InitType DEF PaymentsInit
<1>2. TypeOK /\ [ScriptsNext]_pvars => TypeOK'
  BY NextType, PaymentStepType, PaymentsCases, ScriptsCases, ScriptStepType
<1>3. QED
  BY <1>1, <1>2, PTL DEF ScriptsSpec

LEMMA ScriptPastSeason ==
  ASSUME TypeOK, ScriptStep, NEW u \in Units, NEW y \in Years,
         y # season.year, cycle'[u][y] # cycle[u][y]
  PROVE  WritesSeason(y) \/ (\E U \in OneOrAll : RepairBalances(U)) \/ RemoveUnit(u)
<1>1. ASSUME NEW x \in Years, BackfillSeasonPayments(x) PROVE BackfillSeasonPayments(y)
  <2>1. x = y
    BY <1>1 DEF BackfillSeasonPayments, TypeOK
  <2>2. QED
    BY <1>1, <2>1
<1>2. ASSUME NEW x \in Years, CompleteSeason(x) PROVE CompleteSeason(y)
  <2>1. x = y
    BY <1>2 DEF CompleteSeason, TypeOK
  <2>2. QED
    BY <1>2, <2>1
<1>3. ASSUME NEW x \in Years, ChargeGrowth(x) PROVE FALSE
  BY <1>3 DEF ChargeGrowth, AdjustFees, TypeOK
<1>4. ASSUME NEW v \in Units, RemoveUnit(v) PROVE RemoveUnit(u)
  <2>1. u = v
    BY <1>4 DEF RemoveUnit, TypeOK
  <2>2. QED
    BY <1>4, <2>1
<1>5. ASSUME NEW U, InferPaidAmounts(U) PROVE FALSE
  BY <1>5 DEF InferPaidAmounts, vars
<1>6. CASE ClearResidence
  BY <1>6 DEF ClearResidence
<1>7. QED
  BY <1>1, <1>2, <1>3, <1>4, <1>5, <1>6 DEF ScriptStep, LedgerScript, WritesSeason

(* With the scripts too, a cycle of an earlier season changes only when it *)
(* is completed in bulk, when its season is handed to a script, when       *)
(* balances are repaired or when the unit is removed: charging for that    *)
(* season's new members (adjust_fee_for_member_delta) never does.          *)
THEOREM PastSeasonsAreStable == ScriptsSpec => PastSeasonsStand
<1>1. TypeOK /\ [ScriptsNext]_pvars =>
        [\A u \in Units, y \in Years :
           (y # season.year /\ cycle'[u][y] # cycle[u][y])
           => \/ BulkComplete(u, y)
              \/ WritesSeason(y)
              \/ \E U \in OneOrAll : RepairBalances(U)
              \/ RemoveUnit(u)]_pvars
  BY OtherSeasonStep, ScriptsCases, ScriptPastSeason DEF WritesSeason
<1>2. QED
  BY <1>1, ScriptsTypeCorrect, PTL DEF ScriptsSpec, PastSeasonsStand

-----------------------------------------------------------------------------
LEMMA ScriptsNextRenewal ==
  TypeOK /\ RenewalFollowsCompletion /\ ScriptStep => RenewalFollowsCompletion'
<1> SUFFICES ASSUME TypeOK, RenewalFollowsCompletion, ScriptStep,
                    NEW u \in Units, NEW y \in Years,
                    cycle'[u][y] # Nil, cycle'[u][y].path = "renewal"
             PROVE  \E z \in Years :
                      z < y /\ cycle'[u][z] # Nil /\ cycle'[u][z].status = Completed
  BY DEF RenewalFollowsCompletion
<1>1. ~\A z \in Years : cycle'[u][z] = Nil
  OBVIOUS
<1>2. ScriptRow(u, y)
  BY ScriptRows
<1>3. \E z \in Years : z < y /\ cycle[u][z] # Nil /\ cycle[u][z].status = Completed
  <2>1. CASE cycle[u][y] = Nil /\ cycle'[u][y] = NewCycle(u, y)
    BY <2>1, RegistryAssumption DEF NewCycle, PathType
  <2>2. CASE RowAdjusts(u, y)
    <3>1. cycle[u][y] \in Cycle /\ Current(u) = cycle[u][y]
      BY <2>2, CycleRow DEF RowAdjusts, Current
    <3>2. cycle[u][y].path = "renewal"
      BY <2>2, <3>1, AdjustedRow DEF RowAdjusts
    <3>3. QED
      BY <2>2, <3>2 DEF RowAdjusts, RenewalFollowsCompletion
  <2>3. CASE cycle[u][y] # Nil /\ ~RowAdjusts(u, y)
    <3>1. cycle[u][y].path = "renewal"
      <4>1. cycle[u][y] \in Cycle
        BY <2>3, CycleRow
      <4>2. ASSUME NEW n \in Nat, NEW f \in Nat,
                   \/ cycle'[u][y] = [cycle[u][y] EXCEPT !.count = n, !.fee = f]
                   \/ cycle'[u][y] = [cycle[u][y] EXCEPT !.status = Completed, !.count = n,
                                                        !.fee = f, !.completed = TRUE]
            PROVE  cycle[u][y].path = cycle'[u][y].path
        BY <4>1, <4>2 DEF Cycle
      <4>3. QED
        BY <1>1, <1>2, <2>3, <4>2 DEF ScriptRow
    <3>2. QED
      BY <2>3, <3>1 DEF RenewalFollowsCompletion
  <2>4. QED
    BY <1>2, <2>1, <2>2, <2>3 DEF ScriptRow, RowAdjusts
<1>4. PICK z \in Years : z < y /\ cycle[u][z] # Nil /\ cycle[u][z].status = Completed
  BY <1>3
<1>5. ScriptRow(u, z)
  BY ScriptRows
<1>6. cycle'[u][z] # Nil /\ cycle'[u][z].status = Completed
  <2>1. CASE RowAdjusts(u, z)
    <3>1. cycle[u][z] \in Cycle /\ Current(u) = cycle[u][z]
      BY <2>1, CycleRow DEF RowAdjusts, Current
    <3>2. cycle'[u][z] \in Cycle /\ cycle'[u][z].status = Completed
      BY <1>4, <2>1, <3>1, AdjustedRow DEF RowAdjusts
    <3>3. QED
      BY <3>2, RegistryAssumption
  <2>2. CASE ~RowAdjusts(u, z)
    <3>1. cycle[u][z] \in Cycle
      BY <1>4, CycleRow
    <3>2. cycle'[u][z] \in Cycle /\ cycle'[u][z].status = Completed
      <4>1. ASSUME NEW n \in Nat, NEW f \in Nat,
                   \/ cycle'[u][z] = [cycle[u][z] EXCEPT !.count = n, !.fee = f]
                   \/ cycle'[u][z] = [cycle[u][z] EXCEPT !.status = Completed, !.count = n,
                                                        !.fee = f, !.completed = TRUE]
            PROVE  cycle'[u][z] \in Cycle /\ cycle'[u][z].status = Completed
        BY <1>4, <3>1, <4>1 DEF Cycle, Status
      <4>2. CASE cycle'[u][z] = cycle[u][z]
        BY <1>4, <3>1, <4>2
      <4>3. QED
        BY <1>1, <1>4, <1>5, <2>2, <4>1, <4>2 DEF ScriptRow
    <3>3. QED
      BY <3>2, RegistryAssumption
  <2>3. QED
    BY <2>1, <2>2
<1>7. QED
  BY <1>4, <1>6

(* A renewal stands on an earlier completed season under the scripts too:  *)
(* those that create, complete or reprice a cycle, and the one that        *)
(* removes a unit with all of its seasons.                                 *)
THEOREM RenewalsFollowCompletionUnderScripts == ScriptsSpec => []RenewalFollowsCompletion
<1>1. PaymentsInit => RenewalFollowsCompletion
  BY InitRenewal DEF PaymentsInit
<1>2. TypeOK /\ RenewalFollowsCompletion /\ [ScriptsNext]_pvars => RenewalFollowsCompletion'
  BY PaymentsNextRenewal, ScriptsNextRenewal, ScriptsCases
<1>3. QED
  BY <1>1, <1>2, ScriptsTypeCorrect, PTL DEF ScriptsSpec

-----------------------------------------------------------------------------
(* One proof waits at a time.                                              *)

(* A step reviews, rebalances or closes a ledger, or appends to one that   *)
(* had nothing waiting.                                                    *)
LedgerEvolves(ps, qs) == NoNewPending(ps, qs) \/ (IsLedger(qs) /\ OneWaits(qs))

LedgerInv ==
  /\ payments = [u \in Units |-> [y \in Years |-> payments[u][y]]]
  /\ \A u \in Units, y \in Years : IsLedger(payments[u][y]) /\ OneWaits(payments[u][y])

(* What an approval writes before it rebalances.                           *)
ApprovedAs(ps, i, done, amount) ==
  [ps EXCEPT ![i] = [Turned(@, Approved, done) EXCEPT !.paid = amount]]

LEMMA ApprovedKeeps ==
  ASSUME NEW ps, IsLedger(ps), NEW i \in 1..Len(ps), NEW done, NEW amount
  PROVE  NoNewPending(ps, ApprovedAs(ps, i, done, amount))
<1>1. PICK V : \A j \in 1..Len(ps) : ps[j] \in Rows(V)
  BY LedgerRows
<1> DEFINE t == Turned(ps[i], Approved, done)
           q == [t EXCEPT !.paid = amount]
           W == (V \union {done}) \union {amount}
<1>2. t \in Rows(V \union {done}) /\ t.status # Pending
  BY <1>1, TurnedRow
<1> HIDE DEF t
<1>3. q \in Rows(W) /\ q.status # Pending
  BY <1>2 DEF Rows
<1>4. ApprovedAs(ps, i, done, amount) = WithRow(ps, i, q)
  BY DEF ApprovedAs, WithRow, t
<1> HIDE DEF q, W
<1>5. NoNewPending(ps, WithRow(ps, i, q))
  BY <1>3, RowRewritten
<1>6. QED
  BY <1>4, <1>5

LEMMA RejectedKeeps ==
  ASSUME NEW ps, IsLedger(ps), NEW i \in 1..Len(ps), NEW done
  PROVE  NoNewPending(ps, [ps EXCEPT ![i] = Turned(@, Rejected, done)])
<1>1. PICK V : \A j \in 1..Len(ps) : ps[j] \in Rows(V)
  BY LedgerRows
<1> DEFINE t == Turned(ps[i], Rejected, done)
<1>2. t \in Rows(V \union {done}) /\ t.status # Pending
  BY <1>1, TurnedRow
<1>3. [ps EXCEPT ![i] = Turned(@, Rejected, done)] = WithRow(ps, i, t)
  BY DEF WithRow
<1> HIDE DEF t
<1>4. QED
  BY <1>2, <1>3, RowRewritten

LEMMA NoneLateKeeps ==
  ASSUME NEW ps, IsLedger(ps)
  PROVE  NoNewPending(ps, NoneLate(ps))
<1>1. PICK V : \A j \in 1..Len(ps) : ps[j] \in Rows(V)
  BY LedgerRows
<1> DEFINE qs == NoneLate(ps)
<1>2. qs = [j \in 1..Len(ps) |-> qs[j]]
  BY DEF NoneLate
<1>3. ASSUME NEW j \in 1..Len(ps)
      PROVE  qs[j] \in Rows(V \union {FALSE}) /\ qs[j].status = ps[j].status
  BY <1>1 DEF NoneLate, Rows
<1> HIDE DEF qs
<1>4. QED
  BY <1>2, <1>3, RowsRewritten DEF qs

LEMMA ClosedEvolves ==
  ASSUME NEW ps, IsLedger(ps), NEW total \in Nat, NEW done, NEW since
  PROVE  LedgerEvolves(ps, ClosedProofs(ps, total, done, since))
<1> DEFINE qs == ClosedProofs(ps, total, done, since)
<1>1. CASE ps = <<>>
  <2> DEFINE p == [NewProof(total) EXCEPT !.status = Approved, !.late = done]
             W == {Nil, FALSE} \union {done}
  <2>1. p \in Rows(W)
    BY DEF NewProof, Rows
  <2>2. qs = <<p>>
    BY <1>1 DEF ClosedProofs
  <2> HIDE DEF p, W
  <2>3. qs \in Seq(Rows(W)) /\ Len(qs) = 1
    BY <2>1, <2>2
  <2>4. QED
    BY <2>3 DEF LedgerEvolves, IsLedger, OneWaits
<1>2. CASE ps # <<>>
  <2>1. PICK V : \A j \in 1..Len(ps) : ps[j] \in Rows(V)
    BY LedgerRows
  <2>2. qs = [j \in 1..Len(ps) |-> qs[j]]
    BY <1>2 DEF ClosedProofs
  <2> DEFINE W == (V \union BOOLEAN) \union {done}
  <2>3. ASSUME NEW j \in 1..Len(ps), j < Len(ps)
        PROVE  qs[j] \in Rows(W) /\ qs[j].status = ps[j].status
    <3> DEFINE late == ps[j].late \/ (~done /\ since)
    <3>1. late \in BOOLEAN
      OBVIOUS
    <3>2. qs[j] = [ps[j] EXCEPT !.late = late]
      BY <1>2, <2>3 DEF ClosedProofs
    <3> HIDE DEF late
    <3>3. QED
      BY <2>1, <3>1, <3>2 DEF Rows
  <2>4. ASSUME NEW j \in 1..Len(ps), ~(j < Len(ps))
        PROVE  qs[j] \in Rows(W) /\ qs[j].status # Pending
    <3> DEFINE late == IF ps[j].status = Pending THEN done ELSE ps[j].late
    <3>1. late \in W
      BY <2>1 DEF Rows
    <3>2. qs[j] = [ps[j] EXCEPT !.status = Approved, !.total = total, !.late = late]
      BY <1>2, <2>4 DEF ClosedProofs
    <3> HIDE DEF late, qs
    <3>3. ps[j] \in Rows(W)
      BY <2>1 DEF Rows
    <3> HIDE DEF W
    <3>4. QED
      BY <3>1, <3>2, <3>3 DEF Rows, Pending, Approved
  <2> HIDE DEF qs, W
  <2>5. \A j \in 1..Len(ps) : /\ qs[j] \in Rows(W)
                              /\ qs[j].status = Pending => ps[j].status = Pending
    BY <2>3, <2>4
  <2>6. QED
    BY <2>2, <2>5, RowsRewritten DEF LedgerEvolves, qs
<1>3. QED
  BY <1>1, <1>2

LEMMA EvolvedLedger ==
  ASSUME NEW ps, NEW qs, IsLedger(ps), OneWaits(ps), LedgerEvolves(ps, qs)
  PROVE  IsLedger(qs) /\ OneWaits(qs)
BY OneStillWaits DEF LedgerEvolves, NoNewPending

LEMMA LedgerStays ==
  ASSUME LedgerInv, NEW u \in Units, NEW y \in Years
  PROVE  LedgerEvolves(payments[u][y], payments[u][y])
BY NoNewPendingReflexive DEF LedgerInv, LedgerEvolves

(* One ledger is written.                                                  *)
LEMMA LedgerWrite ==
  ASSUME LedgerInv, NEW u \in Units, NEW y \in Years, NEW qs,
         LedgerEvolves(payments[u][y], qs),
         payments' = [payments EXCEPT ![u][y] = qs]
  PROVE  LedgerInv'
<1>1. payments' = [v \in Units |-> [z \in Years |-> payments'[v][z]]]
  BY DEF LedgerInv
<1>2. ASSUME NEW v \in Units, NEW z \in Years
      PROVE  IsLedger(payments'[v][z]) /\ OneWaits(payments'[v][z])
  <2>1. payments'[v][z] = IF v = u /\ z = y THEN qs ELSE payments[v][z]
    BY DEF LedgerInv
  <2>2. IsLedger(payments[v][z]) /\ OneWaits(payments[v][z])
    BY DEF LedgerInv
  <2>3. QED
    BY <2>1, <2>2, EvolvedLedger
<1>3. QED
  BY <1>1, <1>2 DEF LedgerInv

(* Every ledger is written.                                                *)
LEMMA LedgersWritten ==
  ASSUME LedgerInv,
         payments' = [u \in Units |-> [y \in Years |-> payments'[u][y]]],
         \A u \in Units, y \in Years : LedgerEvolves(payments[u][y], payments'[u][y])
  PROVE  LedgerInv'
<1>1. ASSUME NEW v \in Units, NEW z \in Years
      PROVE  IsLedger(payments'[v][z]) /\ OneWaits(payments'[v][z])
  BY EvolvedLedger DEF LedgerInv
<1>2. QED
  BY <1>1 DEF LedgerInv

LEMMA LegacyLedgers == PaymentsInit => LedgerInv
<1> SUFFICES ASSUME PaymentsInit PROVE LedgerInv
  OBVIOUS
<1>1. payments = [u \in Units |-> [y \in Years |-> payments[u][y]]]
  BY DEF PaymentsInit
<1>2. ASSUME NEW u \in Units, NEW y \in Years
      PROVE  IsLedger(payments[u][y]) /\ OneWaits(payments[u][y])
  <2>1. PICK V : Proof \subseteq Rows(V)
    BY ProofIsRow
  <2>2. payments[u][y] = <<>> \/ \E p \in LegacyProofs : payments[u][y] = <<p>>
    BY DEF PaymentsInit
  <2>3. payments[u][y] \in Seq(Rows(V)) /\ (Len(payments[u][y]) = 0 \/ Len(payments[u][y]) = 1)
    <3>1. CASE payments[u][y] = <<>>
      BY <3>1
    <3>2. ASSUME NEW p \in LegacyProofs, payments[u][y] = <<p>>
          PROVE  payments[u][y] \in Seq(Rows(V)) /\ Len(payments[u][y]) = 1
      <4>1. p \in Rows(V)
        BY <2>1, LegacyAssumption
      <4>2. QED
        BY <3>2, <4>1
    <3>3. QED
      BY <2>2, <3>1, <3>2
  <2>4. QED
    BY <2>3 DEF IsLedger, OneWaits
<1>3. QED
  BY <1>1, <1>2 DEF LedgerInv

(* What a unit's own step does to its ledger.                              *)
LEMMA ReconciledLedger ==
  ASSUME TypeOK, LedgerInv, NEW u \in Units, NEW y \in Years, cycle[u][y] # Nil
  PROVE  NoNewPending(payments[u][y], ReconciledProofs(u, y))
<1>1. IsLedger(payments[u][y])
  BY DEF LedgerInv
<1>2. CASE Adjustable(u, Drift(u, y))
  <2>1. y = season.year
    BY <1>2 DEF Adjustable, Drift
  <2>2. Drift(u, y) \in Int
    BY CycleRow, RosterCounted DEF Cycle, Drift
  <2>3. QED
    BY <1>1, <1>2, <2>1, <2>2, FeeAdjustedKeeps DEF ReconciledProofs, AdjustedProofs
<1>3. CASE ~Adjustable(u, Drift(u, y))
  BY <1>1, <1>3, NoNewPendingReflexive DEF ReconciledProofs
<1>4. QED
  BY <1>2, <1>3

LEMMA ReconciledIsRow ==
  ASSUME TypeOK, NEW u \in Units, NEW y \in Years, cycle[u][y] # Nil
  PROVE  ReconciledCycle(u, y) \in Cycle
BY CycleRow, ReconciledRow, AdjustedRow, RegistryAssumption DEF Current

LEMMA UnitPaysLedger ==
  ASSUME TypeOK, LedgerInv, NEW u \in Units, NEW y \in Years, UnitPays(u, y)
  PROVE  LedgerInv'
<1> DEFINE ps == payments[u][y]
           rs == ReconciledProofs(u, y)
           c  == ReconciledCycle(u, y)
           kept  == Superseded(rs, c.fee, c.completed)
           total == IF c.fee # Nil THEN c.fee ELSE RegistrationFee(RosterSize(u))
<1>1. cycle[u][y] # Nil
  BY ActiveRow DEF UnitPays, GetPayment, SubmitProof
<1>2. NoNewPending(ps, rs) /\ IsLedger(rs)
  BY <1>1, ReconciledLedger DEF NoNewPending
<1>3. CASE GetPayment(u, y)
  <2> DEFINE qs == Rebalanced(rs, FeeOwed(c))
  <2>1. LedgerEvolves(ps, qs)
    BY <1>2, RebalancedKeeps, NoNewPendingTransitive DEF LedgerEvolves
  <2>2. payments' = [payments EXCEPT ![u][y] = qs]
    BY <1>3 DEF GetPayment, SetRow
  <2> HIDE DEF qs
  <2>3. QED
    BY <2>1, <2>2, LedgerWrite
<1>4. CASE payments' = [payments EXCEPT ![u][y] = rs]
  BY <1>2, <1>4, LedgerWrite DEF LedgerEvolves
<1>5. CASE /\ ~Blocked(kept, c.fee)
           /\ payments' = [payments EXCEPT ![u][y] = Append(kept, NewProof(total))]
  <2>1. c.fee \in Nat \union {Nil}
    BY <1>1, ReconciledIsRow DEF Cycle
  <2>2. total \in Nat
    BY <2>1, RosterCounted
  <2> DEFINE qs == Append(kept, NewProof(total))
  <2>3. IsLedger(qs) /\ OneWaits(qs)
    BY <1>2, <1>5, <2>1, <2>2, UploadWaitsAlone
  <2>4. payments' = [payments EXCEPT ![u][y] = qs]
    BY <1>5
  <2> HIDE DEF qs
  <2>5. QED
    BY <2>3, <2>4, LedgerWrite DEF LedgerEvolves
<1>6. QED
  BY <1>3, <1>4, <1>5 DEF UnitPays, SubmitProof, SetRow

LEMMA AdminReviewsLedger ==
  ASSUME LedgerInv, NEW u \in Units, NEW y \in Years, AdminReviews(u, y)
  PROVE  LedgerInv'
<1> DEFINE ps == payments[u][y]
<1>1. IsLedger(ps)
  BY DEF LedgerInv
<1>2. ASSUME NEW i \in 1..Len(ps), NEW amount, ApproveProof(u, y, i, amount)
      PROVE  LedgerInv'
  <2> DEFINE as == ApprovedAs(ps, i, cycle[u][y].completed, amount)
             qs == Rebalanced(as, FeeOwed(cycle[u][y]))
  <2>1. NoNewPending(ps, as)
    <3> HIDE DEF ps
    <3>1. QED
      BY <1>1, ApprovedKeeps
  <2>2. payments' = [payments EXCEPT ![u][y] = qs]
    BY <1>2 DEF ApproveProof, ApprovedAs
  <2> HIDE DEF as
  <2>3. NoNewPending(as, qs)
    <3>1. IsLedger(as)
      BY <2>1 DEF NoNewPending
    <3>2. QED
      BY <3>1, RebalancedKeeps
  <2> HIDE DEF qs
  <2>4. LedgerEvolves(ps, qs)
    BY <2>1, <2>3, NoNewPendingTransitive DEF LedgerEvolves
  <2>5. QED
    BY <2>2, <2>4, LedgerWrite
<1>3. ASSUME NEW i \in 1..Len(ps), RejectProof(u, y, i)
      PROVE  LedgerInv'
  <2> DEFINE qs == [ps EXCEPT ![i] = Turned(@, Rejected, cycle[u][y].completed)]
  <2>1. LedgerEvolves(ps, qs)
    BY <1>1, RejectedKeeps DEF LedgerEvolves
  <2>2. payments' = [payments EXCEPT ![u][y] = qs]
    BY <1>3 DEF RejectProof, LedgerInv
  <2> HIDE DEF qs
  <2>3. QED
    BY <2>1, <2>2, LedgerWrite
<1>4. QED
  BY <1>2, <1>3 DEF AdminReviews

LEMMA AdjustFeesLedgers ==
  ASSUME TypeOK, LedgerInv, NEW D, \A u \in Units : D[u] \in Int, AdjustFees(D)
  PROVE  LedgerInv'
<1>1. payments' = [u \in Units |-> [y \in Years |-> payments'[u][y]]]
  BY DEF AdjustFees, LedgerInv
<1>2. ASSUME NEW u \in Units, NEW y \in Years
      PROVE  LedgerEvolves(payments[u][y], payments'[u][y])
  <2>1. CASE Adjustable(u, D[u]) /\ y = season.year
    <3>1. payments'[u][y] = AdjustedProofs(u, D[u])
      BY <2>1 DEF AdjustFees, LedgerInv
    <3>2. IsLedger(payments[u][y])
      BY DEF LedgerInv
    <3>3. QED
      BY <2>1, <3>1, <3>2, FeeAdjustedKeeps DEF AdjustedProofs, LedgerEvolves
  <2>2. CASE ~(Adjustable(u, D[u]) /\ y = season.year)
    <3>1. payments'[u][y] = payments[u][y]
      BY <2>2 DEF AdjustFees, LedgerInv
    <3>2. QED
      BY <3>1, LedgerStays
  <2>3. QED
    BY <2>1, <2>2
<1>3. QED
  BY <1>1, <1>2, LedgersWritten

LEMMA AdvanceSeasonLedgers ==
  ASSUME LedgerInv, NEW close \in Years, NEW open \in Years, AdvanceSeason(close, open)
  PROVE  LedgerInv'
<1>1. PICK since :
        payments' = [u \in Units |->
          [payments[u] EXCEPT ![close] =
             ClosedProofs(@, RegistrationFee(RosterSize(u)),
                          cycle[u][close] # Nil /\ cycle[u][close].completed, since[u])]]
  BY DEF AdvanceSeason
<1>2. payments' = [u \in Units |-> [y \in Years |-> payments'[u][y]]]
  BY <1>1 DEF LedgerInv
<1>3. ASSUME NEW u \in Units, NEW y \in Years
      PROVE  LedgerEvolves(payments[u][y], payments'[u][y])
  <2>1. CASE y = close
    <3>1. payments'[u][y] =
            ClosedProofs(payments[u][y], RegistrationFee(RosterSize(u)),
                         cycle[u][close] # Nil /\ cycle[u][close].completed, since[u])
      BY <1>1, <2>1 DEF LedgerInv
    <3>2. IsLedger(payments[u][y])
      BY DEF LedgerInv
    <3>3. QED
      BY <3>1, <3>2, RosterCounted, ClosedEvolves
  <2>2. CASE y # close
    <3>1. payments'[u][y] = payments[u][y]
      BY <1>1, <2>2 DEF LedgerInv
    <3>2. QED
      BY <3>1, LedgerStays
  <2>3. QED
    BY <2>1, <2>2
<1>4. QED
  BY <1>2, <1>3, LedgersWritten

LEMMA ListedLedgers ==
  ASSUME LedgerInv, NEW S, ListPayments(S)
  PROVE  LedgerInv'
<1>1. payments' = [u \in Units |-> [y \in Years |-> payments'[u][y]]]
  BY DEF ListPayments
<1>2. ASSUME NEW u \in Units, NEW y \in Years
      PROVE  LedgerEvolves(payments[u][y], payments'[u][y])
  <2>1. \/ payments'[u][y] = Rebalanced(payments[u][y], FeeOwed(cycle[u][y]))
        \/ payments'[u][y] = payments[u][y]
    BY DEF ListPayments
  <2>2. IsLedger(payments[u][y])
    BY DEF LedgerInv
  <2>3. QED
    BY <2>1, <2>2, LedgerStays, RebalancedKeeps DEF LedgerEvolves
<1>3. QED
  BY <1>1, <1>2, LedgersWritten

LEMMA CompletionLedger ==
  ASSUME LedgerInv, NEW u \in Units, NEW y \in Years,
         payments' = [payments EXCEPT ![u][y] = NoneLate(payments[u][y])]
  PROVE  LedgerInv'
<1>1. IsLedger(payments[u][y])
  BY DEF LedgerInv
<1>2. LedgerEvolves(payments[u][y], NoneLate(payments[u][y]))
  BY <1>1, NoneLateKeeps DEF LedgerEvolves
<1>3. QED
  BY <1>2, LedgerWrite

LEMMA PaymentsNextLedgers == TypeOK /\ LedgerInv /\ [PaymentsNext]_pvars => LedgerInv'
<1> SUFFICES ASSUME TypeOK, LedgerInv, [PaymentsNext]_pvars PROVE LedgerInv'
  OBVIOUS
<1>1. CASE UNCHANGED payments
  BY <1>1 DEF LedgerInv
<1>2. ASSUME NEW u \in Units, NEW y \in Years, BulkCompletePaid(u, y) PROVE LedgerInv'
  BY <1>2, CompletionLedger DEF BulkCompletePaid
<1>3. ASSUME NEW u \in Units, AdminComplete(u) PROVE LedgerInv'
  BY <1>3, CompletionLedger DEF AdminComplete, SetRow, TypeOK
<1>4. ASSUME NEW u \in Units, NEW m \in Members, ApproveAddMember(u, m) PROVE LedgerInv'
  BY <1>4, AdjustFeesLedgers DEF ApproveAddMember
<1>5. ASSUME NEW M \in SUBSET Members, RemoveMembers(M) PROVE LedgerInv'
  BY <1>5, RosterDelta, AdjustFeesLedgers DEF RemoveMembers
<1>6. QED
  BY <1>1, <1>2, <1>3, <1>4, <1>5, UnitPaysLedger, AdminReviewsLedger, ListedLedgers,
     AdvanceSeasonLedgers
  DEF PaymentsNext, PaymentsStep, RosterChangeWithFee, AdminLists, pvars

(* No cycle ever has two proofs waiting for review, whatever is uploaded,  *)
(* superseded, reviewed, adjusted or closed, in any order: the promise of  *)
(* submit_payment_proof for requests handled one after the other.          *)
THEOREM OneProofWaits == PaymentsSpec => []OnePending
<1>1. PaymentsSpec => []LedgerInv
  BY LegacyLedgers, PaymentsNextLedgers, PaymentsTypeCorrect, PTL DEF PaymentsSpec
<1>2. LedgerInv => OnePending
  BY DEF LedgerInv, OneWaits, OnePending
<1>3. QED
  BY <1>1, <1>2, PTL

-----------------------------------------------------------------------------
(***************************************************************************)
(* The money.  What the ledgers of a unit add up to is computed by a loop  *)
(* over their proofs; what that loop computes is compared, round by round, *)
(* before and after a step.                                                *)
(***************************************************************************)

(* Every set of natural numbers has a first one: what follows about the    *)
(* loop over the proofs is proved by looking at the first round to fail.   *)
LEMMA FirstOf ==
  ASSUME NEW I, I \subseteq Nat, I # {}
  PROVE  \E i \in I : \A j \in I : i <= j
<1>1. \E x \in I : \A y \in I : ~(<<y, x>> \in OpToRel(<, Nat))
  BY NatLessThanWellFounded, WFMin
<1>2. PICK x \in I : \A y \in I : ~(<<y, x>> \in OpToRel(<, Nat))
  BY <1>1
<1>3. ASSUME NEW y \in I  PROVE x <= y
  <2>1. x \in Nat /\ y \in Nat
    OBVIOUS
  <2>2. ~(y < x)
    BY <1>2, <2>1 DEF OpToRel
  <2>3. QED
    BY <2>1, <2>2
<1>4. QED
  BY <1>3

LEMMA LastOf ==
  ASSUME NEW n \in Nat, NEW I, I \subseteq 0 .. n, I # {}
  PROVE  \E i \in I : \A j \in I : j <= i
<1> DEFINE below == {n - i : i \in I}
<1>1. \A i \in I : i \in Nat /\ n - i \in Nat
  OBVIOUS
<1>2. below \subseteq Nat /\ below # {}
  BY <1>1
<1> HIDE DEF below
<1>3. PICK x \in below : \A y \in below : x <= y
  BY <1>2, FirstOf
<1>4. PICK i \in I : x = n - i
  BY DEF below
<1>5. ASSUME NEW j \in I  PROVE j <= i
  <2>1. n - j \in below
    BY DEF below
  <2>2. n - i <= n - j
    BY <1>3, <1>4, <2>1
  <2>3. QED
    BY <1>1, <2>2
<1>6. QED
  BY <1>5

(* The last approved proof, when there is one.                             *)
LEMMA LastApprovedIs ==
  ASSUME NEW ps, Len(ps) \in Nat
  PROVE  /\ LastApproved(ps) \in 0 .. Len(ps)
         /\ LastApproved(ps) # 0 => IsApproved(ps[LastApproved(ps)])
         /\ \A i \in 1 .. Len(ps) : IsApproved(ps[i]) => i <= LastApproved(ps)
<1> DEFINE I == {0} \union {i \in 1 .. Len(ps) : IsApproved(ps[i])}
<1>1. I \subseteq 0 .. Len(ps) /\ I # {}
  OBVIOUS
<1>2. LastApproved(ps) = Max(I)
  BY DEF LastApproved
<1>3. \A i \in 1 .. Len(ps) : IsApproved(ps[i]) => i \in I
  OBVIOUS
<1>4. \A i \in I : i # 0 => IsApproved(ps[i])
  OBVIOUS
<1> HIDE DEF I
<1>5. \E i \in I : \A j \in I : i >= j
  <2>1. PICK i \in I : \A j \in I : j <= i
    BY <1>1, LastOf
  <2>2. \A j \in I : i \in Int /\ j \in Int
    BY <1>1
  <2>3. QED
    BY <2>1, <2>2
<1>6. Max(I) \in I /\ \A j \in I : Max(I) >= j
  BY <1>5 DEF Max
<1>7. QED
  BY <1>1, <1>2, <1>3, <1>4, <1>6

-----------------------------------------------------------------------------
(* The loop that counts what was paid.                                     *)

NothingPaid == [sum |-> 0, before |-> Nil]
Round(acc, p, owed) == IF IsApproved(p) THEN Counted(acc, p, owed) ELSE acc

(* The loop is what its rounds make of nothing, one after the other.       *)
CountsRounds(c, ps, owed, n) ==
  c = [i \in 0 .. n |-> IF i = 0 THEN NothingPaid ELSE Round(c[i - 1], ps[i], owed)]

LEMMA RoundsExist ==
  ASSUME NEW ps, NEW owed, NEW k \in Nat
  PROVE  \E c : CountsRounds(c, ps, owed, k)
<1> DEFINE stuck == {n \in Nat : ~\E c : CountsRounds(c, ps, owed, n)}
<1> SUFFICES ASSUME stuck # {}  PROVE FALSE
  OBVIOUS
<1>1. PICK n \in stuck : \A m \in stuck : n <= m
  <2>1. stuck \subseteq Nat
    OBVIOUS
  <2>2. QED
    BY <2>1, FirstOf
<1>2. n \in Nat /\ ~\E c : CountsRounds(c, ps, owed, n)
  OBVIOUS
<1>3. n # 0
  <2> DEFINE c == [i \in 0 .. 0 |-> NothingPaid]
  <2>1. CountsRounds(c, ps, owed, 0)
    BY DEF CountsRounds
  <2> HIDE DEF c
  <2>2. QED
    BY <1>2, <2>1
<1>4. n - 1 \in Nat /\ n - 1 \notin stuck
  BY <1>1, <1>2, <1>3
<1>5. PICK c : CountsRounds(c, ps, owed, n - 1)
  BY <1>4
<1> HIDE DEF stuck
<1> DEFINE d == [i \in 0 .. n |-> IF i = 0 THEN NothingPaid ELSE Round(c[i - 1], ps[i], owed)]
<1>6. \A i \in 0 .. n - 1 : d[i] = c[i]
  BY <1>2, <1>5 DEF CountsRounds
<1>7. \A i \in 1 .. n : i - 1 \in 0 .. n - 1
  BY <1>2
<1>8. CountsRounds(d, ps, owed, n)
  <2>1. ASSUME NEW i \in 0 .. n, i # 0  PROVE d[i - 1] = c[i - 1]
    <3>1. i - 1 \in 0 .. n - 1
      BY <1>2, <2>1
    <3> HIDE DEF d
    <3>2. QED
      BY <1>6, <3>1
  <2>2. d = [i \in 0 .. n |-> IF i = 0 THEN NothingPaid ELSE Round(d[i - 1], ps[i], owed)]
    BY <2>1
  <2> HIDE DEF d
  <2>3. QED
    BY <2>2 DEF CountsRounds
<1> HIDE DEF d
<1>9. QED
  BY <1>2, <1>8

LEMMA LoopCounts ==
  ASSUME NEW ps, NEW owed, Len(ps) \in Nat
  PROVE  /\ CountedTo(ps, owed)[0] = NothingPaid
         /\ \A i \in 1 .. Len(ps) :
              CountedTo(ps, owed)[i] = Round(CountedTo(ps, owed)[i - 1], ps[i], owed)
<1> PICK n \in Nat : n = Len(ps)
  OBVIOUS
<1> PICK c : c = CountedTo(ps, owed)
  OBVIOUS
<1>1. c = CHOOSE d : CountsRounds(d, ps, owed, n)
  BY DEF CountedTo, CountsRounds, Round, NothingPaid
<1>2. CountsRounds(c, ps, owed, n)
  BY <1>1, RoundsExist
<1>3. c[0] = NothingPaid /\ \A i \in 1 .. n : c[i] = Round(c[i - 1], ps[i], owed)
  BY <1>2 DEF CountsRounds
<1>4. QED
  BY <1>3

Account == [sum : Nat, before : Nat \union {Nil}]

LEMMA RoundTyped ==
  ASSUME NEW acc \in Account, NEW p \in Proof, NEW owed \in Nat
  PROVE  Round(acc, p, owed) \in Account
<1>1. /\ acc.sum \in Nat /\ acc.before \in Nat \union {Nil}
      /\ p.total \in Nat /\ p.balance \in Nat \union {Nil} /\ p.paid \in Nat \union {Nil}
  BY DEF Account, Proof
<1>2. \A x \in Int : AtLeast(0, x) \in Nat
  BY DEF AtLeast
<1> DEFINE before == IF acc.before # Nil THEN acc.before
                     ELSE IF p.balance # Nil /\ p.balance > 0 THEN owed ELSE p.total
<1>3. before \in Nat
  BY <1>1
<1>4. Counted(acc, p, owed) =
        IF p.paid # Nil THEN [sum |-> acc.sum + p.paid, before |-> p.balance]
        ELSE IF p.balance = Nil THEN [sum |-> acc.sum + p.total, before |-> before]
        ELSE [sum |-> acc.sum + AtLeast(0, before - p.balance), before |-> p.balance]
  BY DEF Counted
<1> HIDE DEF before
<1>5. CASE p.paid # Nil
  BY <1>1, <1>4, <1>5 DEF Account, Round
<1>6. CASE p.paid = Nil /\ p.balance = Nil
  BY <1>1, <1>3, <1>4, <1>6 DEF Account, Round
<1>7. CASE p.paid = Nil /\ p.balance # Nil
  <2>1. AtLeast(0, before - p.balance) \in Nat
    BY <1>1, <1>2, <1>3, <1>7
  <2>2. QED
    BY <1>1, <1>4, <1>7, <2>1 DEF Account, Round
<1>8. QED
  BY <1>5, <1>6, <1>7

LEMMA RowOf ==
  ASSUME NEW S, NEW ps \in Seq(S)
  PROVE  Len(ps) \in Nat /\ \A i \in 1 .. Len(ps) : ps[i] \in S
OBVIOUS

LEMMA AccountsTyped ==
  ASSUME NEW ps \in Seq(Proof), NEW owed \in Nat
  PROVE  \A i \in 0 .. Len(ps) : CountedTo(ps, owed)[i] \in Account
<1> PICK c : c = CountedTo(ps, owed)
  OBVIOUS
<1> PICK n \in Nat : n = Len(ps)
  OBVIOUS
<1>1. c[0] = NothingPaid /\ \A i \in 1 .. n : c[i] = Round(c[i - 1], ps[i], owed)
  BY LoopCounts
<1> DEFINE wrong == {i \in 0 .. n : c[i] \notin Account}
<1> SUFFICES ASSUME wrong # {}  PROVE FALSE
  OBVIOUS
<1>2. PICK i \in wrong : \A j \in wrong : i <= j
  <2>1. wrong \subseteq Nat
    OBVIOUS
  <2>2. QED
    BY <2>1, FirstOf
<1>3. i \in 0 .. n /\ c[i] \notin Account
  OBVIOUS
<1>4. NothingPaid \in Account
  BY DEF NothingPaid, Account
<1>5. i \in 1 .. n /\ i - 1 \in 0 .. n
  BY <1>1, <1>3, <1>4
<1>6. c[i - 1] \in Account
  BY <1>2, <1>5
<1> HIDE DEF wrong
<1>7. ps[i] \in Proof
  BY <1>5
<1>8. QED
  BY <1>1, <1>3, <1>5, <1>6, <1>7, RoundTyped

(* What was paid and what is due are amounts.                              *)
LEMMA DueTyped ==
  ASSUME NEW ps \in Seq(Proof), NEW owed \in Nat
  PROVE  TotalPaid(ps, owed) \in Nat /\ BalanceDue(ps, owed) \in Nat
<1>1. TotalPaid(ps, owed) \in Nat
  <2>1. Len(ps) \in 0 .. Len(ps)
    OBVIOUS
  <2>2. CountedTo(ps, owed)[Len(ps)] \in Account
    BY <2>1, AccountsTyped
  <2>3. QED
    BY <2>2 DEF Account, TotalPaid
<1>2. QED
  BY <1>1 DEF BalanceDue, AtLeast

(* When every approval records what was paid, the loop adds that up, and   *)
(* neither the balances nor the fee count.                                 *)
Amount(p) == IF IsApproved(p) THEN p.paid ELSE 0

LEMMA RecordedRounds ==
  ASSUME NEW ps \in Seq(Proof), Recorded(ps), NEW owed \in Nat, NEW i \in 1 .. Len(ps)
  PROVE  /\ Amount(ps[i]) \in Nat
         /\ CountedTo(ps, owed)[i].sum = CountedTo(ps, owed)[i - 1].sum + Amount(ps[i])
         /\ CountedTo(ps, owed)[i - 1].sum \in Nat
<1>1. ps[i] \in Proof
  OBVIOUS
<1>2. IsApproved(ps[i]) => ps[i].paid \in Nat /\ ps[i].paid # Nil
  BY <1>1 DEF Recorded, Proof
<1>3. CountedTo(ps, owed)[i - 1].sum \in Nat
  <2>1. i - 1 \in 0 .. Len(ps)
    OBVIOUS
  <2>2. QED
    BY <2>1, AccountsTyped DEF Account
<1>4. CountedTo(ps, owed)[i] = Round(CountedTo(ps, owed)[i - 1], ps[i], owed)
  BY LoopCounts, RowOf
<1>5. QED
  BY <1>2, <1>3, <1>4 DEF Round, Counted, Amount

(* Up to the k-th, the proofs count alike but for the j-th.                *)
AlikeBut(ps, qs, j, k) ==
  /\ j \in Nat \ {0}
  /\ k \in Nat /\ k <= Len(ps) /\ k <= Len(qs)
  /\ \A i \in 1 .. k : i # j => Amount(qs[i]) = Amount(ps[i])

LEMMA TotalsCompared ==
  ASSUME NEW ps \in Seq(Proof), Recorded(ps), NEW qs \in Seq(Proof), Recorded(qs),
         NEW owed \in Nat, NEW fee \in Nat, NEW j, NEW k, AlikeBut(ps, qs, j, k)
  PROVE  /\ j > k  => CountedTo(qs, fee)[k].sum = CountedTo(ps, owed)[k].sum
         /\ j <= k => CountedTo(qs, fee)[k].sum
                         = CountedTo(ps, owed)[k].sum + Amount(qs[j]) - Amount(ps[j])
<1> DEFINE s(i) == CountedTo(ps, owed)[i].sum
           t(i) == CountedTo(qs, fee)[i].sum
           Right(i) == /\ j > i => t(i) = s(i)
                       /\ j <= i => t(i) = s(i) + Amount(qs[j]) - Amount(ps[j])
           wrong == {i \in 0 .. k : ~Right(i)}
<1>a. /\ j \in Nat \ {0} /\ k \in Nat /\ k <= Len(ps) /\ k <= Len(qs)
      /\ \A i \in 1 .. k : i # j => Amount(qs[i]) = Amount(ps[i])
  BY DEF AlikeBut
<1>1. Len(ps) \in Nat /\ Len(qs) \in Nat
  OBVIOUS
<1>2. s(0) = 0 /\ t(0) = 0
  BY <1>1, LoopCounts DEF NothingPaid
<1>3. ASSUME NEW i \in 1 .. k
      PROVE  /\ s(i) = s(i - 1) + Amount(ps[i]) /\ s(i - 1) \in Nat
             /\ t(i) = t(i - 1) + Amount(qs[i]) /\ t(i - 1) \in Nat
             /\ Amount(ps[i]) \in Nat /\ Amount(qs[i]) \in Nat
  <2>1. i \in 1 .. Len(ps) /\ i \in 1 .. Len(qs)
    BY <1>1, <1>a
  <2>2. QED
    BY <2>1, RecordedRounds
<1> HIDE DEF s, t
<1> SUFFICES ASSUME wrong # {}  PROVE FALSE
  BY <1>a DEF s, t
<1>4. PICK i \in wrong : \A m \in wrong : i <= m
  <2>1. wrong \subseteq Nat
    BY <1>a
  <2>2. QED
    BY <2>1, FirstOf
<1>5. i \in 0 .. k /\ ~Right(i)
  OBVIOUS
<1>6. i # 0
  BY <1>2, <1>5, <1>a
<1>7. i \in 1 .. k /\ i - 1 \in 0 .. k /\ i - 1 \notin wrong
  BY <1>4, <1>5, <1>6, <1>a
<1>8. Right(i - 1)
  BY <1>7
<1> HIDE DEF wrong
<1> PICK x \in Nat : x = Amount(ps[i])
  BY <1>3, <1>7
<1> PICK y \in Nat : y = Amount(qs[i])
  BY <1>3, <1>7
<1>9. i # j => y = x
  BY <1>7, <1>a
<1>10. /\ s(i - 1) \in Nat /\ s(i) = s(i - 1) + x
       /\ t(i - 1) \in Nat /\ t(i) = t(i - 1) + y
  BY <1>3, <1>7
<1>11. CASE i < j
  BY <1>5, <1>7, <1>8, <1>9, <1>10, <1>11, <1>a
<1>12. CASE i = j
  BY <1>5, <1>7, <1>8, <1>10, <1>12, <1>a
<1>13. CASE i > j
  <2>1. Amount(ps[j]) \in Nat /\ Amount(qs[j]) \in Nat
    <3>1. j \in 1 .. k
      BY <1>13, <1>7, <1>a
    <3>2. QED
      BY <1>3, <3>1
  <2>2. QED
    BY <1>5, <1>7, <1>8, <1>9, <1>10, <1>13, <2>1, <1>a
<1>14. QED
  BY <1>7, <1>11, <1>12, <1>13, <1>a

-----------------------------------------------------------------------------
(* Ledgers that continue one another.                                      *)

(* qs has the proofs of ps, approved or not and paid as before, and after  *)
(* them only proofs that are not approved.                                 *)
Continues(ps, qs) ==
  /\ qs \in Seq(Proof)
  /\ Len(ps) <= Len(qs)
  /\ \A i \in 1 .. Len(ps) : /\ IsApproved(qs[i]) <=> IsApproved(ps[i])
                             /\ qs[i].paid = ps[i].paid
  /\ \A i \in 1 .. Len(qs) : i > Len(ps) => ~IsApproved(qs[i])

SameBalances(ps, qs) ==
  \A i \in 1 .. Len(ps) : IsApproved(ps[i]) => qs[i].balance = ps[i].balance

LEMMA ContinuesReflexive ==
  ASSUME NEW ps \in Seq(Proof)
  PROVE  Continues(ps, ps) /\ SameBalances(ps, ps)
BY DEF Continues, SameBalances

LEMMA ContinuesTransitive ==
  ASSUME NEW ps \in Seq(Proof), NEW qs, NEW rs, Continues(ps, qs), Continues(qs, rs)
  PROVE  /\ Continues(ps, rs)
         /\ SameBalances(ps, qs) /\ SameBalances(qs, rs) => SameBalances(ps, rs)
<1>1. /\ qs \in Seq(Proof) /\ rs \in Seq(Proof) /\ Len(ps) \in Nat /\ Len(qs) \in Nat
      /\ Len(rs) \in Nat /\ Len(ps) <= Len(qs) /\ Len(qs) <= Len(rs)
  BY DEF Continues
<1>2. \A i \in 1 .. Len(ps) : i \in 1 .. Len(qs)
  BY <1>1
<1>3. \A i \in 1 .. Len(rs) : i > Len(ps) => i > Len(qs) \/ i \in 1 .. Len(qs)
  BY <1>1
<1>4. QED
  BY <1>1, <1>2, <1>3 DEF Continues, SameBalances

LEMMA ContinuesRecorded ==
  ASSUME NEW ps \in Seq(Proof), NEW qs, Continues(ps, qs)
  PROVE  /\ qs \in Seq(Proof)
         /\ Recorded(ps) <=> Recorded(qs)
         /\ LastApproved(ps) = LastApproved(qs)
<1>1. qs \in Seq(Proof) /\ Len(ps) \in Nat /\ Len(qs) \in Nat /\ Len(ps) <= Len(qs)
  BY DEF Continues
<1>2. \A i \in 1 .. Len(ps) : i \in 1 .. Len(qs)
  BY <1>1
<1>3. \A i \in 1 .. Len(qs) : IsApproved(qs[i]) => i \in 1 .. Len(ps)
  BY <1>1 DEF Continues
<1>4. Recorded(ps) <=> Recorded(qs)
  BY <1>2, <1>3 DEF Recorded, Continues
<1>5. {i \in 1 .. Len(ps) : IsApproved(ps[i])} = {i \in 1 .. Len(qs) : IsApproved(qs[i])}
  BY <1>2, <1>3 DEF Continues
<1>6. QED
  BY <1>1, <1>4, <1>5 DEF LastApproved

(* A continued ledger has the same money in it.                            *)
LEMMA ContinuesTotal ==
  ASSUME NEW ps \in Seq(Proof), NEW qs, Continues(ps, qs), Recorded(ps),
         NEW owed \in Nat, NEW fee \in Nat
  PROVE  TotalPaid(qs, fee) = TotalPaid(ps, owed)
<1> PICK n \in Nat : n = Len(ps)
  OBVIOUS
<1> PICK m \in Nat : m = Len(qs)
  BY DEF Continues
<1>1. qs \in Seq(Proof) /\ Recorded(qs) /\ n <= m
  BY ContinuesRecorded DEF Continues
<1>2. \A i \in 1 .. n : Amount(qs[i]) = Amount(ps[i])
  BY DEF Continues, Amount
<1>3. CountedTo(qs, fee)[n].sum = CountedTo(ps, owed)[n].sum
  <2>1. AlikeBut(ps, qs, n + 1, n) /\ n + 1 > n
    BY <1>1, <1>2 DEF AlikeBut
  <2>2. QED
    BY <1>1, <2>1, TotalsCompared
<1>4. \A i \in n .. m : CountedTo(qs, fee)[i].sum = CountedTo(qs, fee)[n].sum
  <2> PICK c : c = CountedTo(qs, fee)
    OBVIOUS
  <2> DEFINE wrong == {i \in n .. m : c[i].sum # c[n].sum}
  <2> SUFFICES ASSUME wrong # {}  PROVE FALSE
    OBVIOUS
  <2>1. PICK i \in wrong : \A j \in wrong : i <= j
    <3>1. wrong \subseteq Nat
      OBVIOUS
    <3>2. QED
      BY <3>1, FirstOf
  <2>2. i \in n .. m /\ c[i].sum # c[n].sum
    OBVIOUS
  <2>3. i \in 1 .. m /\ i > n /\ i - 1 \in n .. m /\ i - 1 \notin wrong
    BY <2>1, <2>2
  <2>4. c[i - 1].sum = c[n].sum
    BY <2>3
  <2> HIDE DEF wrong
  <2>5. c[i] = Round(c[i - 1], qs[i], fee) /\ ~IsApproved(qs[i])
    BY <2>3, LoopCounts DEF Continues
  <2>6. QED
    BY <2>2, <2>4, <2>5 DEF Round
<1>5. QED
  BY <1>1, <1>3, <1>4 DEF TotalPaid

LEMMA ContinuesExact ==
  ASSUME NEW ps \in Seq(Proof), NEW qs, Continues(ps, qs), SameBalances(ps, qs),
         Recorded(ps), NEW c, NEW d, FeeOwed(c) \in Nat, FeeOwed(d) = FeeOwed(c),
         Exact(c, ps)
  PROVE  Exact(d, qs)
<1> DEFINE i == LastApproved(ps)
<1>1. i = LastApproved(qs)
  BY ContinuesRecorded
<1>2. BalanceDue(qs, FeeOwed(d)) = BalanceDue(ps, FeeOwed(c))
  BY ContinuesTotal DEF BalanceDue
<1>3. Len(ps) \in Nat
  OBVIOUS
<1>4. i # 0 => i \in 1 .. Len(ps) /\ IsApproved(ps[i])
  BY <1>3, LastApprovedIs
<1> HIDE DEF i
<1>5. i # 0 => qs[i].balance = ps[i].balance
  BY <1>4 DEF SameBalances
<1>6. QED
  BY <1>1, <1>2, <1>5 DEF Exact, i

LEMMA RebalancedContinues ==
  ASSUME NEW ps \in Seq(Proof), NEW owed \in Nat
  PROVE  /\ Continues(ps, Rebalanced(ps, owed))
         /\ \A c : FeeOwed(c) = owed /\ Recorded(ps) => Exact(c, Rebalanced(ps, owed))
<1> DEFINE i == LastApproved(ps)
           b == BalanceDue(ps, owed)
           qs == Rebalanced(ps, owed)
<1>1. CASE i = 0
  <2>1. qs = ps
    BY <1>1 DEF Rebalanced
  <2>2. QED
    BY <1>1, <2>1, ContinuesReflexive DEF Exact
<1>2. CASE i # 0
  <2>1. Len(ps) \in Nat
    OBVIOUS
  <2>2. i \in 1 .. Len(ps) /\ IsApproved(ps[i])
    BY <1>2, <2>1, LastApprovedIs
  <2>3. b \in Nat
    BY DueTyped
  <2>4. qs = [ps EXCEPT ![i].balance = b]
    BY <1>2 DEF Rebalanced
  <2> DEFINE p == [ps[i] EXCEPT !.balance = b]
  <2> HIDE DEF i, b, qs
  <2>5. ps[i] \in Proof
    BY <2>2
  <2>6. p \in Proof /\ p.status = ps[i].status /\ p.paid = ps[i].paid /\ p.balance = b
    BY <2>3, <2>5 DEF Proof
  <2>7. qs = [ps EXCEPT ![i] = p]
    BY <2>4
  <2> HIDE DEF p
  <2>8. /\ qs \in Seq(Proof) /\ Len(qs) = Len(ps)
        /\ \A j \in 1 .. Len(ps) : qs[j] = IF j = i THEN p ELSE ps[j]
    BY <2>2, <2>6, <2>7
  <2>9. Continues(ps, qs)
    BY <2>1, <2>6, <2>8 DEF Continues, IsApproved
  <2>10. qs[i].balance = b
    BY <2>2, <2>6, <2>8
  <2>11. ASSUME Recorded(ps)  PROVE BalanceDue(qs, owed) = b
    BY <2>9, <2>11, ContinuesTotal DEF BalanceDue, b
  <2>12. LastApproved(qs) = i
    BY <2>9, ContinuesRecorded DEF i
  <2>13. QED
    BY <2>9, <2>10, <2>11, <2>12 DEF Exact, qs
<1>3. QED
  BY <1>1, <1>2

(* The automatic rejection and the change of the total of a waiting proof. *)
LEMMA RowContinues ==
  ASSUME NEW ps \in Seq(Proof), NEW i \in 1 .. Len(ps), NEW p \in Proof,
         IsApproved(p) <=> IsApproved(ps[i]), p.paid = ps[i].paid,
         IsApproved(p) => p.balance = ps[i].balance
  PROVE  Continues(ps, [ps EXCEPT ![i] = p]) /\ SameBalances(ps, [ps EXCEPT ![i] = p])
<1> DEFINE qs == [ps EXCEPT ![i] = p]
<1>1. qs \in Seq(Proof) /\ Len(qs) = Len(ps) /\ Len(ps) \in Nat
  OBVIOUS
<1>2. \A j \in 1 .. Len(ps) : qs[j] = IF j = i THEN p ELSE ps[j]
  OBVIOUS
<1> HIDE DEF qs
<1>3. QED
  BY <1>1, <1>2 DEF Continues, SameBalances, qs

LEMMA TurnedProof ==
  ASSUME NEW p \in Proof, NEW st \in {Pending, Approved, Rejected}, NEW done \in BOOLEAN
  PROVE  /\ Turned(p, st, done) \in Proof
         /\ Turned(p, st, done).status = st
         /\ Turned(p, st, done).paid = p.paid
         /\ Turned(p, st, done).balance = p.balance
BY DEF Turned, Proof

LEMMA FeeAdjustedContinues ==
  ASSUME NEW ps \in Seq(Proof), NEW owed \in Nat, NEW delta \in Int, NEW done \in BOOLEAN
  PROVE  /\ Continues(ps, FeeAdjusted(ps, owed, delta, done))
         /\ \A c : FeeOwed(c) = owed /\ Recorded(ps) => Exact(c, FeeAdjusted(ps, owed, delta, done))
<1> DEFINE n == Len(ps)
           qs == FeeAdjusted(ps, owed, delta, done)
<1>1. CASE LastApproved(ps) # 0
  BY <1>1, RebalancedContinues DEF FeeAdjusted
<1>2. ASSUME LastApproved(ps) = 0, Continues(ps, qs)  PROVE \A c : Exact(c, qs)
  BY <1>2, ContinuesRecorded DEF Exact
<1>3. CASE LastApproved(ps) = 0 /\ (ps = <<>> \/ Last(ps).status # Pending)
  <2>1. qs = ps
    BY <1>3 DEF FeeAdjusted
  <2>2. QED
    BY <1>2, <1>3, <2>1, ContinuesReflexive
<1>4. CASE LastApproved(ps) = 0 /\ ps # <<>> /\ Last(ps).status = Pending
  <2>1. n \in 1 .. n /\ ps[n] \in Proof /\ Last(ps) = ps[n] /\ ps[n].status = Pending
    BY <1>4 DEF Last
  <2>2. ~IsApproved(ps[n])
    BY <2>1 DEF IsApproved, Pending, Approved
  <2>3. CASE delta < 0
    <3> DEFINE p == Turned(ps[n], Rejected, done)
    <3>1. p \in Proof /\ p.status = Rejected /\ p.paid = ps[n].paid
      BY <2>1, TurnedProof
    <3>2. qs = [ps EXCEPT ![n] = p]
      BY <1>4, <2>3 DEF FeeAdjusted
    <3> HIDE DEF p, qs
    <3>3. ~IsApproved(p)
      BY <3>1 DEF IsApproved, Approved, Rejected
    <3>4. Continues(ps, qs)
      BY <2>1, <2>2, <3>1, <3>2, <3>3, RowContinues
    <3>5. QED
      BY <1>2, <1>4, <3>4 DEF qs
  <2>4. CASE ~(delta < 0)
    <3> DEFINE t == AdjustedFee(ps[n].total, delta)
               p == [ps[n] EXCEPT !.total = t]
    <3>1. t \in Nat
      <4>1. ps[n].total \in Nat /\ delta * MemberFee \in Int
        BY <2>1, FeesAssumption DEF Proof
      <4>2. QED
        BY <4>1, FeesAssumption DEF AdjustedFee, AtLeast
    <3>2. qs = [ps EXCEPT ![n] = p]
      BY <1>4, <2>4 DEF FeeAdjusted
    <3> HIDE DEF t, qs
    <3>3. p \in Proof /\ p.paid = ps[n].paid /\ p.status = ps[n].status
      BY <2>1, <3>1 DEF Proof
    <3> HIDE DEF p
    <3>4. ~IsApproved(p)
      BY <2>2, <3>3 DEF IsApproved
    <3>5. Continues(ps, qs)
      BY <2>1, <2>2, <3>2, <3>3, <3>4, RowContinues
    <3>6. QED
      BY <1>2, <1>4, <3>5 DEF qs
  <2>5. QED
    BY <2>3, <2>4
<1>5. QED
  BY <1>1, <1>3, <1>4

(* Every row is rewritten, and no approval, payment or balance with it.    *)
LEMMA RowsContinue ==
  ASSUME NEW ps \in Seq(Proof), NEW qs, qs = [i \in 1 .. Len(ps) |-> qs[i]],
         \A i \in 1 .. Len(ps) : /\ qs[i] \in Proof
                                 /\ IsApproved(qs[i]) <=> IsApproved(ps[i])
                                 /\ qs[i].paid = ps[i].paid
                                 /\ qs[i].balance = ps[i].balance
  PROVE  Continues(ps, qs) /\ SameBalances(ps, qs)
<1>1. Len(ps) \in Nat
  OBVIOUS
<1>2. qs \in Seq(Proof) /\ Len(qs) = Len(ps)
  BY <1>1
<1>3. QED
  BY <1>1, <1>2 DEF Continues, SameBalances

LEMMA SupersededContinues ==
  ASSUME NEW ps \in Seq(Proof), NEW owed, NEW done \in BOOLEAN
  PROVE  /\ Continues(ps, Superseded(ps, owed, done))
         /\ SameBalances(ps, Superseded(ps, owed, done))
<1> DEFINE qs == Superseded(ps, owed, done)
<1>1. qs = [i \in 1 .. Len(ps) |-> qs[i]]
  BY DEF Superseded
<1>2. ASSUME NEW i \in 1 .. Len(ps)
      PROVE  /\ qs[i] \in Proof
             /\ IsApproved(qs[i]) <=> IsApproved(ps[i])
             /\ qs[i].paid = ps[i].paid
             /\ qs[i].balance = ps[i].balance
  <2>1. ps[i] \in Proof
    OBVIOUS
  <2>2. \/ qs[i] = ps[i]
        \/ qs[i] = Turned(ps[i], Rejected, done) /\ ps[i].status = Pending
    BY DEF Superseded
  <2>3. /\ Turned(ps[i], Rejected, done) \in Proof
        /\ Turned(ps[i], Rejected, done).status = Rejected
        /\ Turned(ps[i], Rejected, done).paid = ps[i].paid
        /\ Turned(ps[i], Rejected, done).balance = ps[i].balance
    BY <2>1, TurnedProof
  <2> HIDE DEF qs
  <2>4. QED
    BY <2>1, <2>2, <2>3 DEF IsApproved, Approved, Rejected, Pending
<1> HIDE DEF qs
<1>3. QED
  BY <1>1, <1>2, RowsContinue DEF qs

LEMMA NoneLateContinues ==
  ASSUME NEW ps \in Seq(Proof)
  PROVE  Continues(ps, NoneLate(ps)) /\ SameBalances(ps, NoneLate(ps))
<1> DEFINE qs == NoneLate(ps)
<1>1. qs = [i \in 1 .. Len(ps) |-> qs[i]]
  BY DEF NoneLate
<1>2. ASSUME NEW i \in 1 .. Len(ps)
      PROVE  /\ qs[i] \in Proof
             /\ IsApproved(qs[i]) <=> IsApproved(ps[i])
             /\ qs[i].paid = ps[i].paid
             /\ qs[i].balance = ps[i].balance
  <2>1. ps[i] \in Proof
    OBVIOUS
  <2>2. QED
    BY <2>1 DEF NoneLate, Proof, IsApproved
<1> HIDE DEF qs
<1>3. QED
  BY <1>1, <1>2, RowsContinue DEF qs

LEMMA UploadContinues ==
  ASSUME NEW ps \in Seq(Proof), NEW total \in Nat
  PROVE  /\ Continues(ps, Append(ps, NewProof(total)))
         /\ SameBalances(ps, Append(ps, NewProof(total)))
<1> DEFINE p == NewProof(total)
           qs == Append(ps, p)
<1>1. p \in Proof /\ p.status = Pending
  BY DEF NewProof, Proof
<1>2. ~IsApproved(p)
  BY <1>1 DEF IsApproved, Pending, Approved
<1> HIDE DEF p
<1>3. /\ qs \in Seq(Proof) /\ Len(qs) = Len(ps) + 1 /\ Len(ps) \in Nat
      /\ \A i \in 1 .. Len(ps) : qs[i] = ps[i]
      /\ qs[Len(ps) + 1] = p
  BY <1>1
<1> HIDE DEF qs
<1>4. \A i \in 1 .. Len(qs) : i > Len(ps) => qs[i] = p
  BY <1>3
<1>5. QED
  BY <1>2, <1>3, <1>4 DEF Continues, SameBalances, qs, p

-----------------------------------------------------------------------------
(* What one step does to a ledger.                                         *)

(* The books of a unit: its ledgers are sequences of proofs, belong to a   *)
(* cycle, and a cycle gets a snapshot only once it is declared.            *)
BooksInv ==
  /\ PaymentsTypeOK
  /\ \A u \in Units, y \in Years : payments[u][y] # <<>> => cycle[u][y] # Nil
  /\ \A u \in Units, y \in Years :
       cycle[u][y] # Nil /\ Snapshot(cycle[u][y]) => Settled(cycle[u][y])

(* A step that reviews nothing and closes nothing: the ledger continues,   *)
(* and either nothing that its last balance depends on has changed or that *)
(* balance is computed again.                                              *)
KeepsBooks(u, y) ==
  /\ cycle[u][y] = Nil => payments'[u][y] = payments[u][y]
  /\ Continues(payments[u][y], payments'[u][y])
  /\ \/ /\ SameBalances(payments[u][y], payments'[u][y])
        /\ cycle[u][y] # Nil /\ Snapshot(cycle[u][y])
             => FeeOwed(cycle'[u][y]) = FeeOwed(cycle[u][y])
     \/ Recorded(payments[u][y]) => Exact(cycle'[u][y], payments'[u][y])

ReviewsBooks(u, y) ==
  \/ \E i \in 1 .. Len(payments[u][y]) :
       \E amount \in 0 .. OwedFor(cycle[u][y], payments[u][y][i]) : ApproveProof(u, y, i, amount)
  \/ \E i \in 1 .. Len(payments[u][y]) : RejectProof(u, y, i)

LedgerStep(u, y) ==
  \/ KeepsBooks(u, y)
  \/ ReviewsBooks(u, y)
  \/ \E open \in Years : AdvanceSeason(y, open)

LEMMA OwedTyped ==
  ASSUME NEW c \in Cycle
  PROVE  FeeOwed(c) \in Nat
BY DEF FeeOwed, Cycle

LEMMA BookTyped ==
  ASSUME BooksInv, NEW u \in Units, NEW y \in Years
  PROVE  /\ payments[u][y] \in Seq(Proof)
         /\ cycle[u][y] # Nil => cycle[u][y] \in Cycle
         /\ payments[u][y] # <<>> => cycle[u][y] # Nil /\ cycle[u][y] \in Cycle
BY CycleRow DEF BooksInv, PaymentsTypeOK

(* A ledger that is not written, of a cycle whose fee is kept.             *)
LEMMA UntouchedBooks ==
  ASSUME BooksInv, NEW u \in Units, NEW y \in Years,
         payments'[u][y] = payments[u][y], cycle'[u][y] = cycle[u][y]
  PROVE  KeepsBooks(u, y)
BY BookTyped, ContinuesReflexive DEF KeepsBooks

(* The steps of the registration keep a fee once it is in a snapshot.      *)
LEMMA RowKeepsFee ==
  ASSUME BooksInv, NEW u \in Units, NEW y \in Years, RowEvolves(u, y),
         cycle[u][y] # Nil, Snapshot(cycle[u][y])
  PROVE  FeeOwed(cycle'[u][y]) = FeeOwed(cycle[u][y])
<1>1. Settled(cycle[u][y]) /\ cycle[u][y] \in Cycle
  BY BookTyped DEF BooksInv
<1>2. \/ cycle'[u][y] = cycle[u][y]
      \/ cycle'[u][y] = CompletedCycle(u, cycle[u][y])
  BY <1>1 DEF RowEvolves, Settled
<1>3. CompletedCycle(u, cycle[u][y]).fee = cycle[u][y].fee
  BY <1>1 DEF CompletedCycle, SubmittedFee, Snapshot, Cycle
<1>4. QED
  BY <1>2, <1>3 DEF FeeOwed

LEMMA RegistrationKeepsBooks ==
  ASSUME BooksInv, [Next]_vars, NEW u \in Units, NEW y \in Years,
         \/ payments'[u][y] = payments[u][y]
         \/ cycle[u][y] # Nil /\ payments'[u][y] = NoneLate(payments[u][y])
  PROVE  KeepsBooks(u, y)
<1>1. TypeOK
  BY DEF BooksInv, PaymentsTypeOK
<1>2. RowEvolves(u, y)
  BY <1>1, CycleEvolution
<1>3. QED
  BY <1>2, BookTyped, RowKeepsFee, ContinuesReflexive, NoneLateContinues DEF KeepsBooks

(* The adjustment of a fee carries the ledger along.                       *)
LEMMA AdjustedKeeps ==
  ASSUME BooksInv, NEW u \in Units, NEW d \in Int, Adjustable(u, d)
  PROVE  /\ Continues(payments[u][season.year], AdjustedProofs(u, d))
         /\ Recorded(payments[u][season.year])
              => Exact(AdjustedCycle(u, d), AdjustedProofs(u, d))
<1> DEFINE ps == payments[u][season.year]
           c  == AdjustedCycle(u, d)
<1>1. season.year \in Years /\ Current(u) # Nil
  BY DEF BooksInv, PaymentsTypeOK, TypeOK, Adjustable
<1>2. ps \in Seq(Proof) /\ Current(u) \in Cycle
  BY <1>1, BookTyped DEF Current
<1>3. c \in Cycle /\ Current(u).completed \in BOOLEAN
  BY <1>2, AdjustedRow DEF Cycle
<1>4. c.fee # Nil
  <2>1. CASE Snapshot(Current(u))
    <3>1. Current(u).fee \in Nat
      BY <1>2, <2>1 DEF Snapshot, Cycle
    <3>2. d * MemberFee \in Int
      BY FeesAssumption
    <3>3. AdjustedFee(Current(u).fee, d) \in Nat
      BY <3>1, <3>2, FeesAssumption DEF AdjustedFee, AtLeast
    <3>4. c.fee = AdjustedFee(Current(u).fee, d)
      BY <1>2, <2>1 DEF AdjustedCycle, Cycle
    <3>5. QED
      BY <3>3, <3>4, FeesAssumption
  <2>2. CASE ~Snapshot(Current(u))
    <3>1. c.fee = RegistrationFee(RosterSize(u))
      BY <1>2, <2>2 DEF AdjustedCycle, Cycle
    <3>2. QED
      BY <3>1, RosterCounted, FeesAssumption
  <2>3. QED
    BY <2>1, <2>2
<1>5. c.fee \in Nat /\ FeeOwed(c) = c.fee
  BY <1>3, <1>4 DEF Cycle, FeeOwed
<1> HIDE DEF c, ps
<1>6. AdjustedProofs(u, d) = FeeAdjusted(ps, c.fee, d, Current(u).completed)
  BY DEF AdjustedProofs, ps, c
<1>7. /\ Continues(ps, FeeAdjusted(ps, c.fee, d, Current(u).completed))
      /\ Recorded(ps) => Exact(c, FeeAdjusted(ps, c.fee, d, Current(u).completed))
  BY <1>2, <1>3, <1>5, FeeAdjustedContinues
<1>8. QED
  BY <1>6, <1>7 DEF ps, c

LEMMA AdjustFeesKeepsBooks ==
  ASSUME BooksInv, NEW D, \A u \in Units : D[u] \in Int, AdjustFees(D),
         NEW u \in Units, NEW y \in Years
  PROVE  KeepsBooks(u, y)
<1>1. CASE Adjustable(u, D[u]) /\ y = season.year
  <2>1. payments'[u][y] = AdjustedProofs(u, D[u]) /\ cycle'[u][y] = AdjustedCycle(u, D[u])
    BY <1>1 DEF AdjustFees, BooksInv, PaymentsTypeOK, TypeOK
  <2>2. QED
    BY <1>1, <2>1, AdjustedKeeps DEF KeepsBooks, Adjustable, Current
<1>2. CASE ~(Adjustable(u, D[u]) /\ y = season.year)
  <2>1. payments'[u][y] = payments[u][y] /\ cycle'[u][y] = cycle[u][y]
    BY <1>2 DEF AdjustFees, BooksInv, PaymentsTypeOK, TypeOK
  <2>2. QED
    BY <2>1, UntouchedBooks
<1>3. QED
  BY <1>1, <1>2

(* What a reconciliation does to the cycle and the ledger.                 *)
LEMMA ReconciledKeeps ==
  ASSUME BooksInv, NEW u \in Units, NEW y \in Years, cycle[u][y] # Nil
  PROVE  LET ps == payments[u][y]
             rs == ReconciledProofs(u, y)
             c  == ReconciledCycle(u, y)
         IN  /\ Continues(ps, rs)
             /\ c \in Cycle
             /\ \/ c = cycle[u][y] /\ rs = ps
                \/ Recorded(ps) => Exact(c, rs)
<1>1. TypeOK
  BY DEF BooksInv, PaymentsTypeOK
<1>2. ReconciledCycle(u, y) \in Cycle
  BY <1>1, ReconciledIsRow
<1>3. CASE Adjustable(u, Drift(u, y))
  <2>1. y = season.year
    BY <1>3 DEF Adjustable, Drift
  <2>2. Drift(u, y) \in Int
    BY <1>1, CycleRow, RosterCounted DEF Cycle, Drift
  <2>3. /\ ReconciledProofs(u, y) = AdjustedProofs(u, Drift(u, y))
        /\ ReconciledCycle(u, y) = AdjustedCycle(u, Drift(u, y))
    BY <1>3 DEF ReconciledProofs, ReconciledCycle
  <2>4. QED
    BY <1>2, <1>3, <2>1, <2>2, <2>3, AdjustedKeeps
<1>4. CASE ~Adjustable(u, Drift(u, y))
  BY <1>2, <1>4, BookTyped, ContinuesReflexive DEF ReconciledProofs, ReconciledCycle
<1>5. QED
  BY <1>3, <1>4

LEMMA RowWritten ==
  ASSUME BooksInv, NEW u \in Units, NEW y \in Years, NEW c, NEW ps, SetRow(u, y, c, ps),
         NEW v \in Units, NEW z \in Years
  PROVE  IF v = u /\ z = y THEN cycle'[v][z] = c /\ payments'[v][z] = ps
         ELSE cycle'[v][z] = cycle[v][z] /\ payments'[v][z] = payments[v][z]
BY DEF SetRow, BooksInv, PaymentsTypeOK, TypeOK

LEMMA UnitPaysKeepsBooks ==
  ASSUME BooksInv, NEW v \in Units, NEW z \in Years, UnitPays(v, z),
         NEW u \in Units, NEW y \in Years
  PROVE  KeepsBooks(u, y)
<1> DEFINE ps == payments[v][z]
           rs == ReconciledProofs(v, z)
           c  == ReconciledCycle(v, z)
           kept  == Superseded(rs, c.fee, c.completed)
           total == IF c.fee # Nil THEN c.fee ELSE RegistrationFee(RosterSize(v))
<1>1. cycle[v][z] # Nil /\ TypeOK
  BY ActiveRow DEF UnitPays, GetPayment, SubmitProof, BooksInv, PaymentsTypeOK
<1>2. /\ Continues(ps, rs) /\ ps \in Seq(Proof) /\ rs \in Seq(Proof) /\ c \in Cycle
      /\ \/ c = cycle[v][z] /\ rs = ps
         \/ Recorded(ps) => Exact(c, rs)
  BY <1>1, BookTyped, ReconciledKeeps DEF Continues
<1>3. FeeOwed(c) \in Nat /\ c.fee \in Nat \union {Nil} /\ c.completed \in BOOLEAN
  BY <1>2, OwedTyped DEF Cycle
<1>4. \E qs : /\ SetRow(v, z, c, qs)
              /\ Continues(rs, qs)
              /\ SameBalances(rs, qs) \/ (Recorded(rs) => Exact(c, qs))
  <2>1. CASE GetPayment(v, z)
    BY <2>1, <1>2, <1>3, RebalancedContinues DEF GetPayment
  <2>2. CASE SubmitProof(v, z)
    <3>1. Continues(rs, rs) /\ SameBalances(rs, rs)
      BY <1>2, ContinuesReflexive
    <3> DEFINE qs == Append(kept, NewProof(total))
    <3>2. Continues(rs, qs) /\ SameBalances(rs, qs)
      <4>1. Continues(rs, kept) /\ SameBalances(rs, kept)
        BY <1>2, <1>3, SupersededContinues
      <4>2. total \in Nat
        BY <1>3, RosterCounted
      <4> HIDE DEF kept, total
      <4>3. Continues(kept, qs) /\ SameBalances(kept, qs)
        BY <4>1, <4>2, UploadContinues DEF Continues
      <4> HIDE DEF qs
      <4>4. QED
        BY <1>2, <4>1, <4>3, ContinuesTransitive
    <3>3. SetRow(v, z, c, rs) \/ SetRow(v, z, c, qs)
      BY <2>2 DEF SubmitProof
    <3> HIDE DEF qs
    <3>4. QED
      BY <3>1, <3>2, <3>3
  <2>3. QED
    BY <2>1, <2>2 DEF UnitPays
<1> HIDE DEF rs, c, kept, total
<1>5. PICK qs : /\ SetRow(v, z, c, qs)
                /\ Continues(rs, qs)
                /\ SameBalances(rs, qs) \/ (Recorded(rs) => Exact(c, qs))
  BY <1>4
<1>6. CASE ~(u = v /\ y = z)
  BY <1>5, <1>6, RowWritten, UntouchedBooks
<1>7. CASE u = v /\ y = z
  <2>1. cycle'[u][y] = c /\ payments'[u][y] = qs
    BY <1>5, <1>7, RowWritten
  <2>2. Continues(ps, qs) /\ (Recorded(ps) <=> Recorded(rs))
    BY <1>2, <1>5, ContinuesTransitive, ContinuesRecorded
  <2>3. CASE Recorded(ps) => Exact(c, qs)
    BY <1>1, <1>7, <2>1, <2>2, <2>3 DEF KeepsBooks
  <2>4. CASE SameBalances(rs, qs) /\ c = cycle[v][z] /\ rs = ps
    BY <1>1, <1>7, <2>1, <2>2, <2>4 DEF KeepsBooks
  <2>5. CASE SameBalances(rs, qs) /\ (Recorded(ps) => Exact(c, rs))
    BY <1>2, <1>3, <1>5, <2>2, <2>3, <2>5, ContinuesExact
  <2>6. QED
    BY <1>2, <1>5, <2>2, <2>3, <2>4, <2>5
<1>8. QED
  BY <1>6, <1>7

LEMMA ListedKeepsBooks ==
  ASSUME BooksInv, NEW S, ListPayments(S), NEW u \in Units, NEW y \in Years
  PROVE  KeepsBooks(u, y)
<1> DEFINE ps == payments[u][y]
           c  == cycle[u][y]
<1>1. cycle'[u][y] = c
  BY DEF ListPayments, vars
<1>2. payments'[u][y] = IF <<u, y>> \in S THEN Rebalanced(ps, FeeOwed(c)) ELSE ps
  BY DEF ListPayments
<1>3. CASE payments'[u][y] = ps
  BY <1>1, <1>3, UntouchedBooks
<1>4. CASE ps = <<>>
  <2>1. Len(ps) = 0
    BY <1>4
  <2>2. LastApproved(ps) = 0
    BY <2>1, LastApprovedIs
  <2>3. QED
    BY <1>2, <1>3, <2>2 DEF Rebalanced
<1>5. CASE payments'[u][y] = Rebalanced(ps, FeeOwed(c)) /\ ps # <<>>
  <2>1. ps \in Seq(Proof) /\ FeeOwed(c) \in Nat
    BY <1>5, BookTyped, OwedTyped
  <2> HIDE DEF ps
  <2>2. /\ Continues(ps, Rebalanced(ps, FeeOwed(c)))
        /\ Recorded(ps) => Exact(c, Rebalanced(ps, FeeOwed(c)))
    BY <2>1, RebalancedContinues
  <2>3. QED
    BY <1>1, <1>5, <2>2, BookTyped DEF KeepsBooks, ps
<1>6. QED
  BY <1>2, <1>3, <1>4, <1>5

LEMMA AdminCompletesBooks ==
  ASSUME BooksInv, NEW v \in Units, AdminComplete(v), NEW u \in Units, NEW y \in Years
  PROVE  KeepsBooks(u, y)
<1> DEFINE z == season.year
<1>1. z \in Years /\ cycle[v][z] # Nil
  BY DEF AdminComplete, AdminCompletable, Current, BooksInv, PaymentsTypeOK, TypeOK
<1>2. SetRow(v, z, CompletedCycle(v, cycle[v][z]), NoneLate(payments[v][z]))
  BY DEF AdminComplete, Current
<1> HIDE DEF z
<1>3. CASE ~(u = v /\ y = z)
  BY <1>1, <1>2, <1>3, RowWritten, UntouchedBooks
<1>4. CASE u = v /\ y = z
  <2>1. /\ cycle'[u][y] = CompletedCycle(u, cycle[u][y])
        /\ payments'[u][y] = NoneLate(payments[u][y])
    BY <1>1, <1>2, <1>4, RowWritten
  <2>2. RowEvolves(u, y)
    BY <1>1, <1>4, <2>1 DEF RowEvolves
  <2>3. QED
    BY <1>1, <1>4, <2>1, <2>2, BookTyped, RowKeepsFee, NoneLateContinues DEF KeepsBooks
<1>5. QED
  BY <1>3, <1>4

LEMMA ReviewsBooksOnly ==
  ASSUME BooksInv, NEW v \in Units, NEW z \in Years, AdminReviews(v, z),
         NEW u \in Units, NEW y \in Years
  PROVE  KeepsBooks(u, y) \/ ReviewsBooks(u, y)
<1>1. CASE u = v /\ y = z
  BY <1>1 DEF AdminReviews, ReviewsBooks
<1>2. CASE ~(u = v /\ y = z)
  <2>1. cycle' = cycle
    BY DEF AdminReviews, ApproveProof, RejectProof, vars
  <2>2. \/ \E qs : payments' = [payments EXCEPT ![v][z] = qs]
        \/ \E i, p : payments' = [payments EXCEPT ![v][z][i] = p]
    BY DEF AdminReviews, ApproveProof, RejectProof
  <2>3. payments'[u][y] = payments[u][y]
    BY <1>2, <2>2 DEF BooksInv, PaymentsTypeOK
  <2>4. QED
    BY <2>1, <2>3, UntouchedBooks
<1>3. QED
  BY <1>1, <1>2

LEMMA ClosingLeaves ==
  ASSUME BooksInv, NEW close \in Years, NEW open \in Years, AdvanceSeason(close, open),
         NEW u \in Units, NEW y \in Years, y # close
  PROVE  KeepsBooks(u, y)
<1>1. cycle'[u][y] = cycle[u][y]
  BY DEF AdvanceSeason, BooksInv, PaymentsTypeOK, TypeOK
<1>2. payments'[u][y] = payments[u][y]
  BY DEF AdvanceSeason, BooksInv, PaymentsTypeOK
<1>3. QED
  BY <1>1, <1>2, UntouchedBooks

(* Every step, seen from one ledger.                                       *)
LEMMA LedgerSteps ==
  ASSUME BooksInv, [PaymentsNext]_pvars, NEW u \in Units, NEW y \in Years
  PROVE  LedgerStep(u, y)
<1>1. CASE [Next]_vars /\ UNCHANGED payments
  BY <1>1, RegistrationKeepsBooks DEF LedgerStep
<1>2. ASSUME NEW v \in Units, NEW z \in Years, BulkCompletePaid(v, z)  PROVE LedgerStep(u, y)
  <2>1. [Next]_vars
    BY <1>2 DEF BulkCompletePaid, Next
  <2>2. \/ payments'[u][y] = payments[u][y]
        \/ cycle[u][y] # Nil /\ payments'[u][y] = NoneLate(payments[u][y])
    BY <1>2 DEF BulkCompletePaid, BulkComplete, BooksInv, PaymentsTypeOK
  <2>3. QED
    BY <2>1, <2>2, RegistrationKeepsBooks DEF LedgerStep
<1>3. ASSUME NEW v \in Units, NEW m \in Members, ApproveAddMember(v, m)
      PROVE  LedgerStep(u, y)
  BY <1>3, AdjustFeesKeepsBooks DEF ApproveAddMember, LedgerStep
<1>4. ASSUME NEW M \in SUBSET Members, RemoveMembers(M)  PROVE LedgerStep(u, y)
  BY <1>4, RosterDelta, AdjustFeesKeepsBooks DEF RemoveMembers, LedgerStep
<1>5. ASSUME NEW close \in Years, NEW open \in Years, AdvanceSeason(close, open)
      PROVE  LedgerStep(u, y)
  BY <1>5, ClosingLeaves DEF LedgerStep
<1>6. CASE UNCHANGED pvars
  BY <1>1, <1>6 DEF pvars
<1>7. CASE PaymentsNext
  <2>1. CASE \/ \E v \in Units : WizardStep(v) /\ UNCHANGED payments
             \/ \E v \in Units : CouncilorEdit(v) /\ UNCHANGED payments
             \/ AdminRosterChange /\ UNCHANGED payments
             \/ \E z \in Years, open \in BOOLEAN : UpdateSeason(z, open) /\ UNCHANGED payments
    BY <1>1, <2>1 DEF Next
  <2>2. CASE \E v \in Units, z \in Years : UnitPays(v, z)
    BY <2>2, UnitPaysKeepsBooks DEF LedgerStep
  <2>3. CASE \E v \in Units, z \in Years : AdminReviews(v, z)
    BY <2>3, ReviewsBooksOnly DEF LedgerStep
  <2>4. CASE AdminLists
    BY <2>4, ListedKeepsBooks DEF AdminLists, LedgerStep
  <2>5. CASE \E v \in Units : AdminComplete(v)
    BY <2>5, AdminCompletesBooks DEF LedgerStep
  <2>6. QED
    BY <1>2, <1>3, <1>4, <1>5, <1>7, <2>1, <2>2, <2>3, <2>4, <2>5
    DEF PaymentsNext, PaymentsStep, RosterChangeWithFee
<1>8. QED
  BY <1>6, <1>7

-----------------------------------------------------------------------------
(* What reviews and the closing script write.                              *)

LEMMA ApprovedRow ==
  ASSUME NEW ps \in Seq(Proof), NEW i \in 1 .. Len(ps), NEW done \in BOOLEAN, NEW amount \in Nat
  PROVE  LET qs == ApprovedAs(ps, i, done, amount) IN
         /\ qs \in Seq(Proof) /\ Len(qs) = Len(ps)
         /\ \A j \in 1 .. Len(ps) : j # i => qs[j] = ps[j]
         /\ qs[i].status = Approved /\ qs[i].paid = amount
<1> DEFINE t == Turned(ps[i], Approved, done)
           p == [t EXCEPT !.paid = amount]
<1>a. t \in Proof /\ t.status = Approved
  BY TurnedProof
<1>2. ApprovedAs(ps, i, done, amount) = [ps EXCEPT ![i] = p]
  BY DEF ApprovedAs
<1> HIDE DEF t
<1>1. p \in Proof /\ p.status = Approved /\ p.paid = amount
  BY <1>a DEF Proof
<1> HIDE DEF p
<1>3. QED
  BY <1>1, <1>2

LEMMA RejectedRow ==
  ASSUME NEW ps \in Seq(Proof), NEW i \in 1 .. Len(ps), NEW done \in BOOLEAN
  PROVE  LET qs == [ps EXCEPT ![i] = Turned(@, Rejected, done)] IN
         /\ qs \in Seq(Proof) /\ Len(qs) = Len(ps)
         /\ \A j \in 1 .. Len(ps) : j # i => qs[j] = ps[j]
         /\ qs[i].status = Rejected /\ qs[i].paid = ps[i].paid
<1> DEFINE p == Turned(ps[i], Rejected, done)
<1>1. p \in Proof /\ p.status = Rejected /\ p.paid = ps[i].paid
  BY TurnedProof
<1>2. [ps EXCEPT ![i] = Turned(@, Rejected, done)] = [ps EXCEPT ![i] = p]
  OBVIOUS
<1> HIDE DEF p
<1>3. QED
  BY <1>1, <1>2

LEMMA ClosedTyped ==
  ASSUME NEW ps \in Seq(Proof), NEW total \in Nat, NEW done \in BOOLEAN, NEW since \in BOOLEAN
  PROVE  LET qs == ClosedProofs(ps, total, done, since) IN
         /\ qs \in Seq(Proof) /\ Len(qs) >= Len(ps)
         /\ \A i \in 1 .. Len(ps) : /\ qs[i].paid = ps[i].paid
                                    /\ IsApproved(ps[i]) => IsApproved(qs[i])
<1> DEFINE qs == ClosedProofs(ps, total, done, since)
<1>1. CASE ps = <<>>
  <2> DEFINE p == [NewProof(total) EXCEPT !.status = Approved, !.late = done]
  <2>1. p \in Proof
    BY DEF NewProof, Proof
  <2>2. qs = <<p>>
    BY <1>1 DEF ClosedProofs
  <2> HIDE DEF p, qs
  <2>3. Len(ps) = 0
    BY <1>1
  <2>4. qs \in Seq(Proof) /\ Len(qs) = 1
    BY <2>1, <2>2
  <2>5. QED
    BY <2>3, <2>4 DEF qs
<1>2. CASE ps # <<>>
  <2>1. qs = [i \in 1 .. Len(ps) |-> qs[i]]
    BY <1>2 DEF ClosedProofs
  <2>2. ASSUME NEW i \in 1 .. Len(ps)
        PROVE  /\ qs[i] \in Proof /\ qs[i].paid = ps[i].paid
               /\ IsApproved(ps[i]) => IsApproved(qs[i])
    <3> DEFINE late == ps[i].late \/ (~done /\ since)
               last == IF ps[i].status = Pending THEN done ELSE ps[i].late
               p    == [ps[i] EXCEPT !.late = late]
               q    == [ps[i] EXCEPT !.status = Approved, !.total = total, !.late = last]
    <3>1. ps[i] \in Proof
      OBVIOUS
    <3>2. late \in BOOLEAN /\ last \in BOOLEAN
      BY <3>1 DEF Proof
    <3>3. qs[i] = IF i < Len(ps) THEN p ELSE q
      BY <1>2 DEF ClosedProofs
    <3> HIDE DEF late, last, qs
    <3>4. p \in Proof /\ p.paid = ps[i].paid /\ p.status = ps[i].status
      BY <3>1, <3>2 DEF Proof
    <3>5. q \in Proof /\ q.paid = ps[i].paid /\ q.status = Approved
      BY <3>1, <3>2 DEF Proof
    <3> HIDE DEF p, q
    <3>6. QED
      BY <3>3, <3>4, <3>5 DEF IsApproved
  <2> HIDE DEF qs
  <2>3. Len(ps) \in Nat
    OBVIOUS
  <2>4. qs \in Seq(Proof) /\ Len(qs) = Len(ps)
    BY <2>1, <2>2, <2>3
  <2>5. QED
    BY <2>2, <2>3, <2>4 DEF qs
<1>3. QED
  BY <1>1, <1>2

LEMMA ApproveEffect ==
  ASSUME BooksInv, NEW u \in Units, NEW y \in Years, NEW i \in 1 .. Len(payments[u][y]),
         NEW amount \in 0 .. OwedFor(cycle[u][y], payments[u][y][i]),
         ApproveProof(u, y, i, amount)
  PROVE  LET ps == payments[u][y]
             c  == cycle[u][y]
             as == ApprovedAs(ps, i, c.completed, amount)
         IN  /\ ps \in Seq(Proof) /\ c \in Cycle /\ cycle'[u][y] = c
             /\ amount \in Nat /\ amount <= Outstanding(ps, i, OwedFor(c, ps[i]))
             /\ as \in Seq(Proof) /\ Len(as) = Len(ps)
             /\ \A j \in 1 .. Len(ps) : j # i => as[j] = ps[j]
             /\ as[i].status = Approved /\ as[i].paid = amount
             /\ payments'[u][y] = Rebalanced(as, FeeOwed(c))
             /\ Continues(as, payments'[u][y])
             /\ Recorded(ps) => Recorded(as) /\ Exact(c, payments'[u][y])
<1> DEFINE ps == payments[u][y]
           c  == cycle[u][y]
           as == ApprovedAs(ps, i, c.completed, amount)
<1>1. ps \in Seq(Proof)
  BY BookTyped
<1>2. ps # <<>> /\ c \in Cycle
  BY <1>1, BookTyped
<1>3. OwedFor(c, ps[i]) \in Nat
  <2>1. ps[i] \in Proof
    BY <1>1
  <2>2. QED
    BY <1>2, <2>1 DEF OwedFor, Cycle, Proof
<1>4. amount \in Nat /\ amount # Nil
  BY <1>3, FeesAssumption
<1>5. cycle'[u][y] = c
  BY DEF ApproveProof, vars
<1>6. payments'[u][y] = Rebalanced(as, FeeOwed(c))
  BY DEF ApproveProof, ApprovedAs, BooksInv, PaymentsTypeOK
<1>7. amount <= Outstanding(ps, i, OwedFor(c, ps[i]))
  BY DEF ApproveProof
<1>8. c.completed \in BOOLEAN /\ FeeOwed(c) \in Nat
  BY <1>2, OwedTyped DEF Cycle
<1>9. i \in 1 .. Len(ps)
  OBVIOUS
<1> HIDE DEF ps
<1>10. /\ as \in Seq(Proof) /\ Len(as) = Len(ps)
       /\ \A j \in 1 .. Len(ps) : j # i => as[j] = ps[j]
       /\ as[i].status = Approved /\ as[i].paid = amount
  BY <1>1, <1>4, <1>8, <1>9, ApprovedRow
<1> HIDE DEF as, c
<1>11. Recorded(ps) => Recorded(as)
  BY <1>4, <1>10 DEF Recorded
<1>12. /\ Continues(as, Rebalanced(as, FeeOwed(c)))
       /\ Recorded(as) => Exact(c, Rebalanced(as, FeeOwed(c)))
  BY <1>8, <1>10, RebalancedContinues
<1>13. QED
  BY <1>1, <1>2, <1>4, <1>5, <1>6, <1>7, <1>10, <1>11, <1>12 DEF ps, c, as

LEMMA RejectEffect ==
  ASSUME BooksInv, NEW u \in Units, NEW y \in Years, NEW i \in 1 .. Len(payments[u][y]),
         RejectProof(u, y, i)
  PROVE  LET ps == payments[u][y]
             qs == payments'[u][y]
         IN  /\ ps \in Seq(Proof) /\ cycle[u][y] \in Cycle /\ cycle'[u][y] = cycle[u][y]
             /\ qs \in Seq(Proof) /\ Len(qs) = Len(ps)
             /\ \A j \in 1 .. Len(ps) : j # i => qs[j] = ps[j]
             /\ qs[i].status = Rejected /\ qs[i].paid = ps[i].paid
<1> DEFINE ps == payments[u][y]
           done == cycle[u][y].completed
<1>1. ps \in Seq(Proof) /\ i \in 1 .. Len(ps)
  BY BookTyped
<1>2. ps # <<>> /\ cycle[u][y] \in Cycle
  BY <1>1, BookTyped
<1>3. done \in BOOLEAN
  BY <1>2 DEF Cycle
<1>4. payments'[u][y] = [ps EXCEPT ![i] = Turned(@, Rejected, done)]
  BY DEF RejectProof, BooksInv, PaymentsTypeOK
<1>5. cycle'[u][y] = cycle[u][y]
  BY DEF RejectProof, vars
<1> HIDE DEF ps, done
<1>6. LET qs == [ps EXCEPT ![i] = Turned(@, Rejected, done)] IN
      /\ qs \in Seq(Proof) /\ Len(qs) = Len(ps)
      /\ \A j \in 1 .. Len(ps) : j # i => qs[j] = ps[j]
      /\ qs[i].status = Rejected /\ qs[i].paid = ps[i].paid
  BY <1>1, <1>3, RejectedRow
<1>7. QED
  BY <1>1, <1>2, <1>4, <1>5, <1>6 DEF ps

LEMMA ClosingEffect ==
  ASSUME BooksInv, NEW u \in Units, NEW y \in Years, NEW open \in Years, AdvanceSeason(y, open)
  PROVE  LET ps == payments[u][y]
             qs == payments'[u][y]
         IN  /\ ps \in Seq(Proof) /\ qs \in Seq(Proof) /\ Len(qs) >= Len(ps)
             /\ \A i \in 1 .. Len(ps) : /\ qs[i].paid = ps[i].paid
                                        /\ IsApproved(ps[i]) => IsApproved(qs[i])
<1> DEFINE ps == payments[u][y]
           total == RegistrationFee(RosterSize(u))
           done == cycle[u][y] # Nil /\ cycle[u][y].completed
<1>1. ps \in Seq(Proof)
  BY BookTyped
<1>2. \E since \in BOOLEAN : payments'[u][y] = ClosedProofs(ps, total, done, since)
  BY DEF AdvanceSeason, BooksInv, PaymentsTypeOK
<1>3. total \in Nat
  BY RosterCounted
<1>4. done \in BOOLEAN
  BY BookTyped DEF Cycle
<1> HIDE DEF ps, total, done
<1>5. PICK since \in BOOLEAN : payments'[u][y] = ClosedProofs(ps, total, done, since)
  BY <1>2
<1>6. LET qs == ClosedProofs(ps, total, done, since) IN
      /\ qs \in Seq(Proof) /\ Len(qs) >= Len(ps)
      /\ \A i \in 1 .. Len(ps) : /\ qs[i].paid = ps[i].paid
                                 /\ IsApproved(ps[i]) => IsApproved(qs[i])
  BY <1>1, <1>3, <1>4, ClosedTyped
<1>7. QED
  BY <1>1, <1>5, <1>6 DEF ps

LEMMA LedgerStepTyped ==
  ASSUME BooksInv, NEW u \in Units, NEW y \in Years, LedgerStep(u, y)
  PROVE  payments'[u][y] \in Seq(Proof)
<1>1. CASE KeepsBooks(u, y)
  BY <1>1 DEF KeepsBooks, Continues
<1>2. ASSUME NEW i \in 1 .. Len(payments[u][y]),
             NEW amount \in 0 .. OwedFor(cycle[u][y], payments[u][y][i]),
             ApproveProof(u, y, i, amount)
      PROVE  payments'[u][y] \in Seq(Proof)
  BY <1>2, ApproveEffect DEF Continues
<1>3. QED
  BY <1>1, <1>2, RejectEffect, ClosingEffect DEF LedgerStep, ReviewsBooks

(* A row, once there, stays, and a snapshot comes with a declaration.      *)
LEMMA SnapshotSettles ==
  ASSUME BooksInv, NEW u \in Units, NEW y \in Years, PaymentRowEvolves(u, y)
  PROVE  /\ cycle[u][y] # Nil => cycle'[u][y] # Nil
         /\ cycle[u][y] # Nil /\ Snapshot(cycle[u][y]) => Snapshot(cycle'[u][y])
         /\ cycle'[u][y] # Nil /\ Snapshot(cycle'[u][y]) => Settled(cycle'[u][y])
<1> DEFINE c == cycle[u][y]
           d == cycle'[u][y]
<1>1. c # Nil => c \in Cycle
  BY BookTyped
<1>2. c # Nil /\ Snapshot(c) => Settled(c)
  BY DEF BooksInv
<1>a. Nil \notin Cycle /\ RosterSize(u) \in Nat /\ RegistrationFee(RosterSize(u)) \in Nat
      /\ Nil \notin Nat
  BY RegistryAssumption, FeesAssumption, RosterCounted
<1>3. CASE d = c
  BY <1>2, <1>3
<1>4. CASE c = Nil /\ d = NewCycle(u, y)
  BY <1>4 DEF NewCycle, Snapshot
<1>5. ASSUME c # Nil, ~Settled(c), NEW st \in Status, d = [c EXCEPT !.status = st]
      PROVE  d # Nil /\ ~Snapshot(c) /\ ~Snapshot(d)
  <2>1. d \in Cycle /\ d.count = c.count /\ d.fee = c.fee
    BY <1>1, <1>5 DEF Cycle
  <2>2. QED
    BY <1>2, <1>5, <1>a, <2>1 DEF Snapshot
<1>6. CASE c # Nil /\ d = DeclaredRow(u, c)
  <2>1. d \in Cycle /\ d.status = Declared /\ d.count # Nil /\ d.fee # Nil
    BY <1>1, <1>6, <1>a DEF DeclaredRow, Cycle, Status
  <2>2. QED
    BY <1>a, <2>1 DEF Snapshot, Settled
<1>7. CASE c # Nil /\ d = CompletedCycle(u, c)
  <2>a. d \in Cycle
    BY <1>1, <1>7, CompletedRow
  <2>b. d.status = Completed
    BY <1>1, <1>7 DEF CompletedCycle, Cycle
  <2>1. d \in Cycle /\ d.status = Completed
    BY <2>a, <2>b
  <2>2. SubmittedCount(u, c) # Nil /\ SubmittedFee(u, c) # Nil
    BY <1>a DEF SubmittedCount, SubmittedFee
  <2>3. d.count = SubmittedCount(u, c) /\ d.fee = SubmittedFee(u, c)
    BY <1>1, <1>7 DEF CompletedCycle, Cycle
  <2>4. QED
    BY <1>a, <2>1, <2>2, <2>3 DEF Snapshot, Settled
<1>8. ASSUME y = season.year, c # Nil, Settled(c), NEW e \in Int, d = AdjustedCycle(u, e)
      PROVE  d # Nil /\ Snapshot(d) /\ Settled(d)
  <2>1. Current(u) \in Cycle /\ Settled(Current(u))
    BY <1>1, <1>8 DEF Current
  <2>2. d \in Cycle /\ d.status = Current(u).status
    BY <1>8, <2>1, AdjustedRow
  <2>3. d.count # Nil /\ d.fee # Nil
    <3>1. CASE Snapshot(Current(u))
      <4>1. Current(u).count \in Nat /\ Current(u).fee \in Nat
        BY <2>1, <3>1 DEF Snapshot, Cycle
      <4>2. e * MemberFee \in Int
        BY FeesAssumption
      <4>3. AdjustedFee(Current(u).fee, e) \in Nat /\ AdjustedCount(Current(u).count, e) \in Nat
        BY <4>1, <4>2, FeesAssumption DEF AdjustedFee, AdjustedCount, AtLeast
      <4>4. d.count = AdjustedCount(Current(u).count, e) /\ d.fee = AdjustedFee(Current(u).fee, e)
        BY <1>8, <2>1, <3>1 DEF AdjustedCycle, Cycle
      <4>5. QED
        BY <1>a, <4>3, <4>4
    <3>2. CASE ~Snapshot(Current(u))
      BY <1>8, <1>a, <2>1, <3>2 DEF AdjustedCycle, Cycle
    <3>3. QED
      BY <3>1, <3>2
  <2>4. QED
    BY <1>a, <2>1, <2>2, <2>3 DEF Snapshot, Settled
<1>9. CASE d = ClosedCycle(u, y)
  <2>1. d \in Cycle /\ d.status = Completed
    BY <1>9, ClosedRow
  <2>2. d.count # Nil /\ d.fee # Nil
    BY <1>9, <1>a DEF ClosedCycle
  <2>3. QED
    BY <1>a, <2>1, <2>2 DEF Snapshot, Settled
<1> HIDE DEF c, d
<1>10. \/ d = c
       \/ c = Nil /\ d = NewCycle(u, y)
       \/ c # Nil /\ ~Settled(c) /\ \E st \in Status : d = [c EXCEPT !.status = st]
       \/ c # Nil /\ d = DeclaredRow(u, c)
       \/ c # Nil /\ d = CompletedCycle(u, c)
       \/ y = season.year /\ c # Nil /\ Settled(c) /\ \E e \in Int : d = AdjustedCycle(u, e)
       \/ d = ClosedCycle(u, y)
  BY DEF PaymentRowEvolves, RowEvolves, RowAdjusts, Settled, c, d
<1>11. QED
  BY <1>3, <1>4, <1>5, <1>6, <1>7, <1>8, <1>9, <1>10 DEF c, d

LEMMA RowsEvolve ==
  ASSUME BooksInv, [PaymentsNext]_pvars
  PROVE  \A u \in Units, y \in Years : PaymentRowEvolves(u, y)
<1>1. TypeOK
  BY DEF BooksInv, PaymentsTypeOK
<1>2. QED
  BY <1>1, CycleEvolution, PaymentStepEvolves, PaymentsCases DEF PaymentRowEvolves

LEMMA OpensBooks == PaymentsInit => BooksInv
<1> SUFFICES ASSUME PaymentsInit  PROVE BooksInv
  OBVIOUS
<1>1. TypeOK
  BY InitType DEF PaymentsInit
<1>2. payments \in [Units -> [Years -> Seq(Proof)]]
  <2>1. \A p \in LegacyProofs : <<p>> \in Seq(Proof)
    BY LegacyAssumption
  <2>2. <<>> \in Seq(Proof)
    OBVIOUS
  <2>3. {<<>>} \union {<<p>> : p \in LegacyProofs} \subseteq Seq(Proof)
    BY <2>1, <2>2
  <2>4. QED
    BY <2>3 DEF PaymentsInit
<1>3. ASSUME NEW u \in Units, NEW y \in Years, cycle[u][y] # Nil
      PROVE  ~Snapshot(cycle[u][y])
  BY <1>3 DEF PaymentsInit, Init, Backfilled, Snapshot
<1>4. QED
  BY <1>1, <1>2, <1>3 DEF BooksInv, PaymentsTypeOK, PaymentsInit

LEMMA BooksKept == BooksInv /\ LedgerInv /\ [PaymentsNext]_pvars => BooksInv'
<1> SUFFICES ASSUME BooksInv, LedgerInv, [PaymentsNext]_pvars  PROVE BooksInv'
  OBVIOUS
<1>1. TypeOK
  BY DEF BooksInv, PaymentsTypeOK
<1>2. TypeOK'
  BY <1>1, NextType, PaymentStepType, PaymentsCases
<1>3. \A u \in Units, y \in Years : LedgerStep(u, y) /\ payments'[u][y] \in Seq(Proof)
  BY LedgerSteps, LedgerStepTyped
<1>4. payments' \in [Units -> [Years -> Seq(Proof)]]
  <2>1. payments' = [u \in Units |-> [y \in Years |-> payments'[u][y]]]
    BY <1>1, PaymentsNextLedgers DEF LedgerInv
  <2> DEFINE rows(u) == [y \in Years |-> payments'[u][y]]
  <2>2. \A u \in Units : rows(u) \in [Years -> Seq(Proof)]
    BY <1>3
  <2>3. payments' = [u \in Units |-> rows(u)]
    BY <2>1
  <2> HIDE DEF rows
  <2>4. QED
    BY <2>2, <2>3
<1>5. ASSUME NEW u \in Units, NEW y \in Years
      PROVE  /\ payments'[u][y] # <<>> => cycle'[u][y] # Nil
             /\ cycle'[u][y] # Nil /\ Snapshot(cycle'[u][y]) => Settled(cycle'[u][y])
  <2>1. PaymentRowEvolves(u, y)
    BY RowsEvolve
  <2>2. cycle[u][y] = Nil => payments[u][y] = <<>>
    BY DEF BooksInv
  <2>3. CASE KeepsBooks(u, y)
    BY <2>1, <2>2, <2>3, SnapshotSettles DEF KeepsBooks
  <2>4. CASE ReviewsBooks(u, y)
    <3>1. payments[u][y] # <<>>
      <4>1. \E i \in 1 .. Len(payments[u][y]) : TRUE
        BY <2>4 DEF ReviewsBooks
      <4>2. QED
        BY <4>1
    <3>2. QED
      BY <2>1, <2>2, <3>1, SnapshotSettles
  <2>5. ASSUME NEW open \in Years, AdvanceSeason(y, open)
        PROVE  cycle'[u][y] # Nil
    <3>1. cycle'[u][y] = ClosedCycle(u, y)
      BY <1>1, <2>5 DEF AdvanceSeason, TypeOK
    <3>2. QED
      BY <3>1, ClosedRow, RegistryAssumption
  <2>6. QED
    BY <1>3, <2>1, <2>3, <2>4, <2>5, SnapshotSettles DEF LedgerStep
<1>6. QED
  BY <1>2, <1>4, <1>5 DEF BooksInv, PaymentsTypeOK

LEMMA BooksAlways == PaymentsSpec => [](BooksInv /\ LedgerInv)
<1>1. PaymentsInit => BooksInv /\ LedgerInv
  BY OpensBooks, LegacyLedgers
<1>2. BooksInv => TypeOK
  BY DEF BooksInv, PaymentsTypeOK
<1>3. BooksInv /\ LedgerInv /\ [PaymentsNext]_pvars => (BooksInv /\ LedgerInv)'
  BY <1>2, BooksKept, PaymentsNextLedgers
<1>4. QED
  BY <1>1, <1>3, PTL DEF PaymentsSpec

(* The ledgers keep their types: every balance that is ever computed and   *)
(* every amount that is ever recorded is a natural number or missing.      *)
THEOREM LedgersTypeCorrect == PaymentsSpec => []PaymentsTypeOK
<1>1. BooksInv => PaymentsTypeOK
  BY DEF BooksInv
<1>2. QED
  BY <1>1, BooksAlways, PTL

-----------------------------------------------------------------------------
(* Approvals.                                                              *)

LEMMA RebalancedProof ==
  ASSUME NEW as, NEW qs, Continues(as, qs), NEW j \in 1 .. Len(as)
  PROVE  IsApproved(qs[j]) <=> IsApproved(as[j])
BY DEF Continues

LEMMA ApprovalStep ==
  ASSUME BooksInv, [PaymentsNext]_pvars, NEW u \in Units, NEW y \in Years,
         NEW i \in 1 .. Len(payments[u][y])
  PROVE  LET p == payments[u][y][i]  q == payments'[u][y][i] IN
         /\ Len(payments'[u][y]) >= Len(payments[u][y])
         /\ p.status = Approved /\ q.status # Approved => RejectProof(u, y, i)
         /\ p.paid # q.paid => q.status = Approved /\ AdminReviews(u, y)
<1> DEFINE ps == payments[u][y]
           qs == payments'[u][y]
<1>1. ps \in Seq(Proof)
  BY BookTyped
<1>2. CASE KeepsBooks(u, y)
  BY <1>1, <1>2 DEF KeepsBooks, Continues, IsApproved
<1>3. ASSUME NEW k \in 1 .. Len(ps), NEW amount \in 0 .. OwedFor(cycle[u][y], ps[k]),
             ApproveProof(u, y, k, amount)
      PROVE  /\ Len(qs) >= Len(ps)
             /\ ps[i].status = Approved => qs[i].status = Approved
             /\ ps[i].paid # qs[i].paid => qs[i].status = Approved /\ AdminReviews(u, y)
  <2> DEFINE as == ApprovedAs(ps, k, cycle[u][y].completed, amount)
  <2>1. /\ as \in Seq(Proof) /\ Len(as) = Len(ps)
        /\ \A j \in 1 .. Len(ps) : j # k => as[j] = ps[j]
        /\ as[k].status = Approved
        /\ Continues(as, qs)
    BY <1>3, ApproveEffect
  <2>2. AdminReviews(u, y)
    BY <1>3 DEF AdminReviews
  <2> HIDE DEF as, qs, ps
  <2>3. Len(qs) >= Len(ps) /\ qs[i].paid = as[i].paid
        /\ (qs[i].status = Approved <=> as[i].status = Approved)
    BY <1>1, <2>1 DEF Continues, IsApproved, ps
  <2>4. QED
    BY <2>1, <2>2, <2>3 DEF ps
<1>4. ASSUME NEW k \in 1 .. Len(ps), RejectProof(u, y, k)
      PROVE  /\ Len(qs) >= Len(ps)
             /\ ps[i].status = Approved /\ qs[i].status # Approved => RejectProof(u, y, i)
             /\ ps[i].paid = qs[i].paid
  BY <1>1, <1>4, RejectEffect
<1>5. ASSUME NEW open \in Years, AdvanceSeason(y, open)
      PROVE  /\ Len(qs) >= Len(ps)
             /\ ps[i].status = Approved => qs[i].status = Approved
             /\ ps[i].paid = qs[i].paid
  BY <1>1, <1>5, ClosingEffect DEF IsApproved
<1>6. LedgerStep(u, y)
  BY LedgerSteps
<1> HIDE DEF ps, qs
<1>7. QED
  BY <1>2, <1>3, <1>4, <1>5, <1>6 DEF LedgerStep, ReviewsBooks, ps, qs

(* An upload is never lost, an approval is taken back only by the          *)
(* rejection of that very proof, and only a review changes the amount a    *)
(* proof records as paid: superseding, fee adjustments, completions,       *)
(* listings and the closing script leave all of that alone.                *)
THEOREM ApprovalsStand == PaymentsSpec => ApprovalStands
<1>1. BooksInv /\ [PaymentsNext]_pvars =>
        [\A u \in Units, y \in Years : \A i \in 1..Len(payments[u][y]) :
           LET p == payments[u][y][i]  q == payments'[u][y][i] IN
           /\ Len(payments'[u][y]) >= Len(payments[u][y])
           /\ p.status = Approved /\ q.status # Approved => RejectProof(u, y, i)
           /\ p.paid # q.paid => q.status = Approved /\ AdminReviews(u, y)]_pvars
  BY ApprovalStep
<1>2. QED
  BY <1>1, BooksAlways, PTL DEF PaymentsSpec, ApprovalStands

-----------------------------------------------------------------------------
(* Balances.                                                               *)

LEMMA BalanceStep ==
  ASSUME BooksInv, [PaymentsNext]_pvars, NEW u \in Units, NEW y \in Years,
         cycle[u][y] # Nil, Snapshot(cycle[u][y]), Recorded(payments[u][y]),
         Exact(cycle[u][y], payments[u][y]), ~Exact(cycle'[u][y], payments'[u][y])
  PROVE  \/ \E i \in 1..Len(payments[u][y]) : RejectProof(u, y, i)
         \/ \E open \in Years : AdvanceSeason(y, open)
<1>1. payments[u][y] \in Seq(Proof) /\ FeeOwed(cycle[u][y]) \in Nat
  BY BookTyped, OwedTyped
<1>2. ~KeepsBooks(u, y)
  BY <1>1, ContinuesExact DEF KeepsBooks
<1>3. ASSUME NEW k \in 1 .. Len(payments[u][y]),
             NEW amount \in 0 .. OwedFor(cycle[u][y], payments[u][y][k]),
             ApproveProof(u, y, k, amount)
      PROVE  FALSE
  BY <1>3, ApproveEffect
<1>4. QED
  BY <1>2, <1>3, LedgerSteps DEF LedgerStep, ReviewsBooks

(* The balance cycle_is_fully_paid trusts, once exact, stays exact until a *)
(* rejection or the closing script, neither of which computes it again.    *)
THEOREM BalancesStayExact == PaymentsSpec => BalanceStaysExact
<1>1. BooksInv /\ [PaymentsNext]_pvars =>
        [\A u \in Units, y \in Years :
           (/\ cycle[u][y] # Nil
            /\ Snapshot(cycle[u][y])
            /\ Recorded(payments[u][y])
            /\ Exact(cycle[u][y], payments[u][y])
            /\ ~Exact(cycle'[u][y], payments'[u][y]))
           => \/ \E i \in 1..Len(payments[u][y]) : RejectProof(u, y, i)
              \/ \E open \in Years : AdvanceSeason(y, open)]_pvars
  BY BalanceStep
<1>2. QED
  BY <1>1, BooksAlways, PTL DEF PaymentsSpec, BalanceStaysExact

(* The money in two ledgers of one length that differ in one proof.        *)
LEMMA OneProofTurned ==
  ASSUME NEW ps \in Seq(Proof), Recorded(ps), NEW qs \in Seq(Proof), Len(qs) = Len(ps),
         NEW owed \in Nat, NEW fee \in Nat, NEW j \in 1 .. Len(ps), 
         IsApproved(qs[j]) => qs[j].paid # Nil,
         \A i \in 1 .. Len(ps) : i # j => qs[i] = ps[i]
  PROVE  /\ Recorded(qs)
         /\ Amount(ps[j]) \in Nat /\ Amount(qs[j]) \in Nat
         /\ TotalPaid(qs, fee) = TotalPaid(ps, owed) + Amount(qs[j]) - Amount(ps[j])
<1>1. Recorded(qs)
  BY DEF Recorded
<1>2. Amount(ps[j]) \in Nat /\ Amount(qs[j]) \in Nat
  <2>1. ps[j] \in Proof /\ qs[j] \in Proof
    OBVIOUS
  <2>2. QED
    BY <1>1, <2>1 DEF Amount, Recorded, Proof
<1>3. AlikeBut(ps, qs, j, Len(ps)) /\ j <= Len(ps)
  BY DEF AlikeBut
<1>4. CountedTo(qs, fee)[Len(ps)].sum
        = CountedTo(ps, owed)[Len(ps)].sum + Amount(qs[j]) - Amount(ps[j])
  BY <1>1, <1>3, TotalsCompared
<1>5. QED
  BY <1>1, <1>2, <1>4 DEF TotalPaid

LEMMA CreditTyped ==
  ASSUME NEW ps \in Seq(Proof), NEW fee \in Nat
  PROVE  /\ TotalPaid(ps, fee) \in Nat
         /\ PaymentCredit(ps, fee) = IF TotalPaid(ps, fee) - fee > 0
                                     THEN TotalPaid(ps, fee) - fee ELSE 0
BY DueTyped DEF PaymentCredit, AtLeast

LEMMA ApprovalGivesNoCredit ==
  ASSUME BooksInv, NEW u \in Units, NEW y \in Years, Snapshot(cycle[u][y]),
         Recorded(payments[u][y]), NEW i \in 1 .. Len(payments[u][y]),
         NEW amount \in 0 .. OwedFor(cycle[u][y], payments[u][y][i]),
         ApproveProof(u, y, i, amount)
  PROVE  LET fee == FeeOwed(cycle[u][y]) IN
         PaymentCredit(payments'[u][y], fee) <= PaymentCredit(payments[u][y], fee)
<1> DEFINE ps == payments[u][y]
           c  == cycle[u][y]
           fee == FeeOwed(c)
           qs == payments'[u][y]
           as == ApprovedAs(ps, i, c.completed, amount)
           ws == [ps EXCEPT ![i].status = Pending]
<1>1. /\ ps \in Seq(Proof) /\ c \in Cycle
      /\ amount \in Nat /\ amount <= Outstanding(ps, i, OwedFor(c, ps[i]))
      /\ as \in Seq(Proof) /\ Len(as) = Len(ps)
      /\ \A j \in 1 .. Len(ps) : j # i => as[j] = ps[j]
      /\ as[i].status = Approved /\ as[i].paid = amount
      /\ Continues(as, qs)
      /\ Recorded(as)
  BY ApproveEffect
<1>2. fee \in Nat /\ OwedFor(c, ps[i]) = fee
  BY <1>1, OwedTyped DEF OwedFor, FeeOwed, Snapshot
<1>3. ps \in Seq(Proof) /\ i \in 1 .. Len(ps) /\ Recorded(ps)
  BY <1>1
<1>4. amount <= BalanceDue(ws, fee)
  BY <1>1, <1>2 DEF Outstanding
<1> HIDE DEF as, qs, c, fee, ps
<1>5. /\ ws \in Seq(Proof) /\ Len(ws) = Len(ps)
      /\ \A j \in 1 .. Len(ps) : j # i => ws[j] = ps[j]
      /\ ws[i].status = Pending
  <2> DEFINE w == [ps[i] EXCEPT !.status = Pending]
  <2>1. ps[i] \in Proof
    BY <1>3, RowOf
  <2>2. w \in Proof /\ w.status = Pending
    BY <2>1 DEF Proof
  <2>3. ws = [ps EXCEPT ![i] = w]
    OBVIOUS
  <2> HIDE DEF w, ws
  <2>4. QED
    BY <1>3, <2>2, <2>3
<1> HIDE DEF ws
<1>6. ~IsApproved(ws[i]) /\ IsApproved(as[i]) /\ Amount(ws[i]) = 0 /\ Amount(as[i]) = amount
  BY <1>1, <1>5 DEF IsApproved, Amount, Pending, Approved
<1>7. /\ Recorded(ws) /\ Amount(ps[i]) \in Nat
      /\ TotalPaid(ws, fee) = TotalPaid(ps, fee) + Amount(ws[i]) - Amount(ps[i])
  <2>1. IsApproved(ws[i]) => ws[i].paid # Nil
    BY <1>6
  <2>2. QED
    BY <1>2, <1>3, <1>5, <2>1, OneProofTurned
<1>8. TotalPaid(as, fee) = TotalPaid(ws, fee) + Amount(as[i]) - Amount(ws[i])
  <2>1. IsApproved(as[i]) => as[i].paid # Nil
    BY <1>1, FeesAssumption
  <2>2. i \in 1 .. Len(ws) /\ \A j \in 1 .. Len(ws) : j # i => as[j] = ws[j]
    BY <1>1, <1>3, <1>5
  <2>3. Len(as) = Len(ws)
    BY <1>1, <1>5
  <2>4. as \in Seq(Proof) /\ ws \in Seq(Proof)
    BY <1>1, <1>5
  <2>5. QED
    BY <1>2, <1>7, <2>1, <2>2, <2>3, <2>4, OneProofTurned
<1>9. TotalPaid(qs, fee) = TotalPaid(as, fee)
  BY <1>1, <1>2, ContinuesTotal
<1>10. /\ TotalPaid(ps, fee) \in Nat /\ TotalPaid(ws, fee) \in Nat
       /\ PaymentCredit(ps, fee) = IF TotalPaid(ps, fee) - fee > 0 THEN TotalPaid(ps, fee) - fee ELSE 0
  BY <1>1, <1>2, <1>5, CreditTyped
<1>11. PaymentCredit(qs, fee) = IF TotalPaid(qs, fee) - fee > 0 THEN TotalPaid(qs, fee) - fee ELSE 0
  BY <1>1, <1>2, CreditTyped DEF Continues
<1>12. BalanceDue(ws, fee) = IF fee - TotalPaid(ws, fee) > 0 THEN fee - TotalPaid(ws, fee) ELSE 0
  BY DEF BalanceDue, AtLeast
<1>a. amount \in Nat
  BY <1>1
<1>13. PaymentCredit(qs, fee) <= PaymentCredit(ps, fee)
  BY <1>a, <1>2, <1>4, <1>6, <1>7, <1>8, <1>9, <1>10, <1>11, <1>12
<1>14. QED
  BY <1>13 DEF qs, ps, fee, c

LEMMA RejectionGivesNoCredit ==
  ASSUME BooksInv, NEW u \in Units, NEW y \in Years,
         Recorded(payments[u][y]), NEW i \in 1 .. Len(payments[u][y]), RejectProof(u, y, i)
  PROVE  LET fee == FeeOwed(cycle[u][y]) IN
         PaymentCredit(payments'[u][y], fee) <= PaymentCredit(payments[u][y], fee)
<1> DEFINE ps == payments[u][y]
           fee == FeeOwed(cycle[u][y])
           qs == payments'[u][y]
<1>1. /\ ps \in Seq(Proof) /\ cycle[u][y] \in Cycle
      /\ qs \in Seq(Proof) /\ Len(qs) = Len(ps)
      /\ \A j \in 1 .. Len(ps) : j # i => qs[j] = ps[j]
      /\ qs[i].status = Rejected
      /\ i \in 1 .. Len(ps) /\ Recorded(ps)
  BY RejectEffect
<1>2. fee \in Nat
  BY <1>1, OwedTyped
<1> HIDE DEF ps, fee, qs
<1>3. ~IsApproved(qs[i]) /\ Amount(qs[i]) = 0
  BY <1>1 DEF IsApproved, Amount, Rejected, Approved
<1>4. /\ Amount(ps[i]) \in Nat
      /\ TotalPaid(qs, fee) = TotalPaid(ps, fee) + Amount(qs[i]) - Amount(ps[i])
  BY <1>1, <1>2, <1>3, OneProofTurned
<1>5. /\ TotalPaid(ps, fee) \in Nat
      /\ PaymentCredit(ps, fee) = IF TotalPaid(ps, fee) - fee > 0 THEN TotalPaid(ps, fee) - fee ELSE 0
      /\ PaymentCredit(qs, fee) = IF TotalPaid(qs, fee) - fee > 0 THEN TotalPaid(qs, fee) - fee ELSE 0
  BY <1>1, <1>2, CreditTyped
<1>6. PaymentCredit(qs, fee) <= PaymentCredit(ps, fee)
  BY <1>2, <1>3, <1>4, <1>5
<1>7. QED
  BY <1>6 DEF ps, fee, qs

LEMMA CreditStep ==
  ASSUME BooksInv, BooksInv', [PaymentsNext]_pvars, NEW u \in Units, NEW y \in Years,
         cycle[u][y] # Nil, Snapshot(cycle[u][y]), Recorded(payments[u][y]),
         PaymentCredit(payments'[u][y], FeeOwed(cycle'[u][y]))
           > PaymentCredit(payments[u][y], FeeOwed(cycle[u][y]))
  PROVE  \/ cycle'[u][y].fee < cycle[u][y].fee
         \/ \E open \in Years : AdvanceSeason(y, open)
<1> DEFINE ps == payments[u][y]
           qs == payments'[u][y]
           fee == FeeOwed(cycle[u][y])
           due == FeeOwed(cycle'[u][y])
<1>1. ps \in Seq(Proof) /\ fee \in Nat /\ fee = cycle[u][y].fee
  BY BookTyped, OwedTyped DEF FeeOwed, Snapshot
<1>2. qs \in Seq(Proof)
  BY DEF BooksInv, PaymentsTypeOK
<1>3. due \in Nat /\ due = cycle'[u][y].fee
  <2>1. cycle'[u][y] # Nil /\ Snapshot(cycle'[u][y])
    BY RowsEvolve, SnapshotSettles
  <2>2. cycle'[u][y] \in Cycle
    BY <2>1 DEF BooksInv, PaymentsTypeOK, TypeOK
  <2>3. QED
    BY <2>1, <2>2, OwedTyped DEF FeeOwed, Snapshot
<1>4. /\ TotalPaid(ps, fee) \in Nat
      /\ PaymentCredit(ps, fee) = IF TotalPaid(ps, fee) - fee > 0 THEN TotalPaid(ps, fee) - fee ELSE 0
      /\ TotalPaid(qs, due) \in Nat
      /\ PaymentCredit(qs, due) = IF TotalPaid(qs, due) - due > 0 THEN TotalPaid(qs, due) - due ELSE 0
  BY <1>1, <1>2, <1>3, CreditTyped
<1>5. CASE KeepsBooks(u, y)
  <2>1. TotalPaid(qs, due) = TotalPaid(ps, fee)
    BY <1>1, <1>3, <1>5, ContinuesTotal DEF KeepsBooks
  <2> HIDE DEF ps, qs, fee, due
  <2>2. due < fee
    <3>1. PaymentCredit(qs, due) > PaymentCredit(ps, fee)
      BY DEF ps, qs, fee, due
    <3>2. QED
      BY <1>1, <1>3, <1>4, <2>1, <3>1
  <2>3. QED
    BY <1>1, <1>3, <2>2
<1>6. ASSUME PaymentCredit(qs, fee) <= PaymentCredit(ps, fee), cycle'[u][y] = cycle[u][y]
      PROVE  FALSE
  <2>1. due = fee
    BY <1>6
  <2>2. PaymentCredit(qs, fee) > PaymentCredit(ps, fee)
    BY <2>1
  <2>3. PaymentCredit(qs, fee) \in Nat /\ PaymentCredit(ps, fee) \in Nat
    BY <1>1, <1>3, <1>4, <2>1
  <2> HIDE DEF ps, qs, fee, due
  <2>4. QED
    BY <1>6, <2>2, <2>3
<1>7. ASSUME ReviewsBooks(u, y)  PROVE FALSE
  <2>1. cycle'[u][y] = cycle[u][y]
    BY <1>7 DEF ReviewsBooks, ApproveProof, RejectProof, vars
  <2>2. PaymentCredit(qs, fee) <= PaymentCredit(ps, fee)
    BY <1>7, ApprovalGivesNoCredit, RejectionGivesNoCredit DEF ReviewsBooks
  <2>3. QED
    BY <1>6, <2>1, <2>2
<1>8. QED
  BY <1>5, <1>7, LedgerSteps DEF LedgerStep

(* However reviews, uploads and roster changes alternate, a unit gets to   *)
(* have paid more than it owes only by its fee falling or by the closing   *)
(* script: approve_registration_payment never takes more than is due, also *)
(* when it approves again what was approved or rejected before.            *)
THEOREM CreditComesFromLowerFees == PaymentsSpec => CreditOnlyFromLowerFee
<1>1. BooksInv /\ BooksInv' /\ [PaymentsNext]_pvars =>
        [\A u \in Units, y \in Years :
           (/\ cycle[u][y] # Nil
            /\ Snapshot(cycle[u][y])
            /\ Recorded(payments[u][y])
            /\ PaymentCredit(payments'[u][y], FeeOwed(cycle'[u][y]))
                  > PaymentCredit(payments[u][y], FeeOwed(cycle[u][y])))
           => \/ cycle'[u][y].fee < cycle[u][y].fee
              \/ \E open \in Years : AdvanceSeason(y, open)]_pvars
  BY CreditStep
<1>2. QED
  BY <1>1, BooksAlways, PTL DEF PaymentsSpec, CreditOnlyFromLowerFee

-----------------------------------------------------------------------------
(* The snapshot and the roster.                                            *)

(* A roster that loses some of its members and gains none.                 *)
LEMMA RosterLess ==
  ASSUME NEW u, NEW M, Roster(u)' = Roster(u) \ M
  PROVE  /\ Cardinality(M \intersect Roster(u)) \in Nat
         /\ RosterSize(u) \in Nat
         /\ RosterSize(u)' = RosterSize(u) - Cardinality(M \intersect Roster(u))
         /\ RosterSize(u)' \in Nat
<1> DEFINE R == Roster(u)
           S == R \intersect M
           T == R \ M
<1>1. IsFiniteSet(R)
  BY RegistryAssumption, FS_Subset DEF Roster
<1> HIDE DEF R
<1>2. /\ IsFiniteSet(T) /\ Cardinality(T) = Cardinality(R) - Cardinality(S)
  BY <1>1, FS_Difference
<1>3. IsFiniteSet(S)
  BY <1>1, FS_Subset
<1>4. Cardinality(R) \in Nat /\ Cardinality(S) \in Nat /\ Cardinality(T) \in Nat
  BY <1>1, <1>2, <1>3, FS_CardinalityType
<1>5. M \intersect R = S
  OBVIOUS
<1>6. RosterSize(u)' = Cardinality(T) /\ RosterSize(u) = Cardinality(R)
  BY DEF RosterSize, R
<1>7. QED
  BY <1>2, <1>4, <1>5, <1>6 DEF R

LEMMA RosterMore ==
  ASSUME NEW u, NEW m, m \notin Roster(u), Roster(u)' = Roster(u) \union {m}
  PROVE  RosterSize(u)' = RosterSize(u) + 1
<1>1. IsFiniteSet(Roster(u))
  BY RegistryAssumption, FS_Subset DEF Roster
<1>2. QED
  BY <1>1, FS_AddElement DEF RosterSize

(* What the members counted in a snapshot and the roster of a unit become. *)
CountIs(u, k, n) ==
  /\ cycle'[u][season.year].count = k
  /\ RosterSize(u)' = n

LEMMA GapKept ==
  ASSUME TypeOK, NEW u \in Units, Snapshot(Current(u)), Current(u) # Nil,
         season'.year = season.year, NEW k \in Int, NEW n \in Int, CountIs(u, k, n),
         LET g == RosterSize(u) - Current(u).count IN
         \/ n - k = g
         \/ 0 <= n - k /\ n - k <= g
  PROVE  ~(Absolute(Gap(u)') > Absolute(Gap(u)))
<1>1. Current(u).count \in Nat /\ RosterSize(u) \in Nat
  BY CycleRow, RosterCounted DEF Current, TypeOK, Snapshot, Cycle
<1>2. Gap(u)' = n - k
  BY DEF Gap, Current, CountIs
<1>3. QED
  BY <1>1, <1>2 DEF Absolute, Gap

LEMMA GapStep ==
  ASSUME BooksInv, [PaymentsNext]_pvars, NEW u \in Units,
         MemberFee # 0, Current(u) # Nil, Settled(Current(u)), Snapshot(Current(u)),
         season'.year = season.year, Absolute(Gap(u)') > Absolute(Gap(u))
  PROVE  AdminRosterChange
<1> DEFINE y == season.year
           c == cycle[u][y]
           k == c.count
           n == RosterSize(u)
<1>1. /\ TypeOK /\ y \in Years /\ Current(u) = c /\ c \in Cycle
      /\ k \in Nat /\ n \in Nat /\ Nil \notin Units
  BY CycleRow, RosterCounted, RegistryAssumption
  DEF BooksInv, PaymentsTypeOK, TypeOK, Current, Snapshot, Cycle
<1>2. ~CountIs(u, k, n)
  BY <1>1, GapKept
<1>3. \A i \in Int : ~CountIs(u, i, i)
  <2>1. ASSUME NEW i \in Int, CountIs(u, i, i)  PROVE FALSE
    <3>1. Gap(u)' = 0
      BY <2>1 DEF Gap, Current, CountIs
    <3>2. QED
      BY <1>1, <3>1 DEF Absolute, Gap
  <2>2. QED
    BY <2>1
<1>4. owner' = owner => RosterSize(u)' = n
  BY DEF RosterSize, Roster
<1>5. ASSUME NEW v \in Units, WizardStep(v)  PROVE FALSE
  <2>1. v # u /\ cycle'[u] = cycle[u]
    <3>1. v # u
      BY <1>5 DEF WizardStep, OpenCycle, SaveDetails, ConfirmDetails, AddMember, UpdateMember,
           DeleteMember, SubmitMembers, ConfirmOfficials, ConfirmCouncilors, Declare, InProgress,
           Settled
    <3>2. QED
      BY <1>1, <1>5, <3>1 DEF WizardStep, OpenCycle, SaveDetails, ConfirmDetails, AddMember,
           UpdateMember, DeleteMember, SubmitMembers, ConfirmOfficials, ConfirmCouncilors,
           Declare, SetStatus, TypeOK
  <2>2. Roster(u)' = Roster(u)
    BY <1>1, <1>5, <2>1 DEF WizardStep, OpenCycle, SaveDetails, ConfirmDetails, AddMember,
         UpdateMember, DeleteMember, SubmitMembers, ConfirmOfficials, ConfirmCouncilors,
         Declare, Roster, TypeOK
  <2>3. QED
    BY <1>2, <2>1, <2>2 DEF CountIs, RosterSize
<1>6. CASE (\E v \in Units : CouncilorEdit(v)) \/ UNCHANGED vars
  <2>1. cycle' = cycle /\ owner' = owner
    BY <1>1, <1>6 DEF CouncilorEdit, AddCouncilor, DeleteCouncilor, UpdateCouncilor, Reopened,
         ReopenCouncilors, TypeOK, vars
  <2>2. QED
    BY <1>2, <1>4, <2>1 DEF CountIs
<1>7. CASE \E z \in Years, open \in BOOLEAN : UpdateSeason(z, open)
  BY <1>2, <1>4, <1>7 DEF UpdateSeason, CountIs
<1>8. ASSUME owner' = owner, cycle'[u][y] = c \/ cycle'[u][y] = CompletedCycle(u, c)
      PROVE  FALSE
  <2>1. CompletedCycle(u, c).count = k
    BY <1>1 DEF CompletedCycle, SubmittedCount, Snapshot, Cycle
  <2>2. QED
    BY <1>2, <1>4, <1>8, <2>1 DEF CountIs
<1>9. ASSUME NEW v \in Units, NEW z \in Years, BulkComplete(v, z)  PROVE FALSE
  BY <1>1, <1>8, <1>9 DEF BulkComplete, TypeOK
<1>10. ASSUME NEW v \in Units, AdminComplete(v)  PROVE FALSE
  BY <1>1, <1>8, <1>10 DEF AdminComplete, SetRow, Current, TypeOK
<1>11. ASSUME NEW v \in Units, NEW z \in Years, UnitPays(v, z)  PROVE FALSE
  <2>1. owner' = owner /\ cycle' = [cycle EXCEPT ![v][z] = ReconciledCycle(v, z)]
    BY <1>11 DEF UnitPays, GetPayment, SubmitProof, SetRow
  <2>2. cycle'[u][y] = c \/ cycle'[u][y] = ReconciledCycle(u, y)
    BY <1>1, <2>1 DEF TypeOK
  <2>3. ASSUME cycle'[u][y] = ReconciledCycle(u, y), ReconciledCycle(u, y) # c
        PROVE  FALSE
    <3>1. Drift(u, y) = n - k
      BY <1>1, <2>3, FeesAssumption DEF Drift
    <3>2. ReconciledCycle(u, y) = AdjustedCycle(u, n - k)
      BY <2>3, <3>1 DEF ReconciledCycle
    <3>3. AdjustedCycle(u, n - k).count = AdjustedCount(k, n - k)
      BY <1>1 DEF AdjustedCycle, Cycle
    <3>4. AdjustedCount(k, n - k) = n
      BY <1>1 DEF AdjustedCount, AtLeast
    <3>5. QED
      BY <1>1, <1>3, <1>4, <2>1, <2>3, <3>2, <3>3, <3>4 DEF CountIs
  <2>4. QED
    BY <1>8, <2>1, <2>2, <2>3
<1>12. ASSUME NEW v \in Units, NEW z \in Years, AdminReviews(v, z)
       PROVE  AdminRosterChange
  <2>1. UNCHANGED vars
    BY <1>12 DEF AdminReviews, ApproveProof, RejectProof
  <2>2. QED
    BY <1>6, <2>1
<1>13. ASSUME NEW D, D[u] \in Int, AdjustFees(D)
       PROVE  cycle'[u][y].count = IF D[u] = 0 THEN k ELSE AdjustedCount(k, D[u])
  <2>1. Adjustable(u, D[u]) <=> D[u] # 0
    BY <1>1 DEF Adjustable
  <2>2. cycle'[u][y] = IF D[u] # 0 THEN AdjustedCycle(u, D[u]) ELSE c
    BY <1>1, <1>13, <2>1 DEF AdjustFees, TypeOK
  <2>3. AdjustedCycle(u, D[u]).count = AdjustedCount(k, D[u])
    BY <1>1 DEF AdjustedCycle, Cycle
  <2>4. QED
    BY <2>2, <2>3
<1>14. ASSUME NEW v \in Units, NEW m \in Members, ApproveAddMember(v, m)  PROVE FALSE
  <2> DEFINE D == [w \in Units |-> IF w = v THEN 1 ELSE 0]
  <2>1. D[u] \in Int /\ AdjustFees(D)
    BY <1>14 DEF ApproveAddMember
  <2>2. cycle'[u][y].count = IF D[u] = 0 THEN k ELSE AdjustedCount(k, D[u])
    <3> HIDE DEF D
    <3>1. QED
      BY <1>13, <2>1
  <2>3. CASE u = v
    <3>1. m \notin Roster(u) /\ Roster(u)' = Roster(u) \union {m}
      BY <1>1, <1>14, <2>3 DEF ApproveAddMember, Roster, TypeOK
    <3>2. RosterSize(u)' = n + 1
      BY <3>1, RosterMore
    <3>3. cycle'[u][y].count = k + 1
      BY <1>1, <2>2, <2>3 DEF AdjustedCount, AtLeast
    <3>4. (n + 1) - (k + 1) = n - k /\ n + 1 \in Int /\ k + 1 \in Int
      BY <1>1
    <3>5. QED
      BY <1>1, <3>2, <3>3, <3>4, GapKept DEF CountIs
  <2>4. CASE u # v
    <3>1. Roster(u)' = Roster(u)
      BY <1>1, <1>14, <2>4 DEF ApproveAddMember, Roster, TypeOK
    <3>2. QED
      BY <1>2, <2>2, <2>4, <3>1 DEF CountIs, RosterSize
  <2>5. QED
    BY <2>3, <2>4
<1>15. ASSUME NEW M \in SUBSET Members, RemoveMembers(M)  PROVE FALSE
  <2> DEFINE D == [w \in Units |-> -Cardinality(M \intersect Roster(w))]
             r == Cardinality(M \intersect Roster(u))
  <2>1. Roster(u)' = Roster(u) \ M
    BY <1>1, <1>15 DEF RemoveMembers, Roster, TypeOK
  <2>2. r \in Nat /\ RosterSize(u)' = n - r /\ n - r \in Nat
    BY <2>1, RosterLess
  <2>3. D[u] = -r /\ AdjustFees(D)
    BY <1>15 DEF RemoveMembers
  <2> HIDE DEF D, r
  <2>4. cycle'[u][y].count = IF D[u] = 0 THEN k ELSE AdjustedCount(k, D[u])
    BY <1>13, <2>2, <2>3
  <2>5. cycle'[u][y].count = IF k - r > 0 THEN k - r ELSE 0
    BY <1>1, <2>2, <2>3, <2>4 DEF AdjustedCount, AtLeast
  <2> HIDE DEF k, n
  <2>6. CASE k - r > 0
    <3>1. (n - r) - (k - r) = n - k /\ k - r \in Int /\ n - r \in Int
      BY <1>1, <2>2
    <3>2. CountIs(u, k - r, n - r)
      BY <2>2, <2>5, <2>6 DEF CountIs, n
    <3>3. QED
      BY <1>1, <3>1, <3>2, GapKept DEF k, n
  <2>7. CASE ~(k - r > 0)
    <3>1. 0 <= (n - r) - 0 /\ (n - r) - 0 <= n - k /\ n - r \in Int
      BY <1>1, <2>2, <2>7
    <3>2. CountIs(u, 0, n - r)
      BY <2>2, <2>5, <2>7 DEF CountIs, n
    <3>3. QED
      BY <1>1, <3>1, <3>2, GapKept DEF k, n
  <2>8. QED
    BY <2>6, <2>7
<1>16. ASSUME NEW close \in Years, NEW open \in Years, AdvanceSeason(close, open)  PROVE FALSE
  <2>1. owner' = owner
    BY <1>16 DEF AdvanceSeason
  <2>2. cycle'[u][y] = IF y = close THEN ClosedCycle(u, close) ELSE c
    BY <1>1, <1>16 DEF AdvanceSeason, TypeOK
  <2>3. ClosedCycle(u, close).count = n
    BY DEF ClosedCycle
  <2>4. CASE y = close
    BY <1>1, <1>3, <1>4, <2>1, <2>2, <2>3, <2>4 DEF CountIs
  <2>5. CASE y # close
    BY <1>8, <2>1, <2>2, <2>5
  <2>6. QED
    BY <2>4, <2>5
<1>17. CASE AdminLists \/ UNCHANGED pvars
  <2>1. UNCHANGED vars
    BY <1>17 DEF AdminLists, ListPayments, pvars
  <2>2. QED
    BY <1>6, <2>1
<1>18. QED
  BY <1>5, <1>6, <1>7, <1>9, <1>10, <1>11, <1>12, <1>14, <1>15, <1>16, <1>17
  DEF PaymentsNext, PaymentsStep, BulkCompletePaid, RosterChangeWithFee

(* Once declared, adding and removing members moves the count of the       *)
(* snapshot along with the roster, in any order and with the clamp at      *)
(* zero: only archiving and restoring take them further apart.             *)
THEOREM FeesFollowRosters == PaymentsSpec => FeeFollowsRoster
<1>1. BooksInv /\ [PaymentsNext]_pvars =>
        [\A u \in Units :
           (/\ MemberFee # 0
            /\ Current(u) # Nil
            /\ Settled(Current(u))
            /\ Snapshot(Current(u))
            /\ season'.year = season.year
            /\ Absolute(Gap(u)') > Absolute(Gap(u)))
           => AdminRosterChange]_pvars
  BY GapStep
<1>2. QED
  BY <1>1, BooksAlways, PTL DEF PaymentsSpec, FeeFollowsRoster
=============================================================================
