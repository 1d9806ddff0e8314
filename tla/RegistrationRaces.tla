------------------------- MODULE RegistrationRaces --------------------------
(***************************************************************************)
(* The handlers of one registration, served at the same time.  A handler   *)
(* reads the cycle and its proofs, computes, and commits; nothing is       *)
(* locked in between.  The session (app/common/db.py) writes a column only *)
(* when the handler gave it another value than it had read, so a commit    *)
(* puts those columns over whatever the rows hold by then.                 *)
(*                                                                         *)
(* The reads of a handler are one step and its commit is another; reading  *)
(* the payment page and uploading have two such rounds when the first one  *)
(* reconciles the fee.  What a handler computes is what it does alone in   *)
(* RegistrationPayments.  The clock is read at the commit.  The unit's     *)
(* details, which no handler here reads, are left out.                     *)
(***************************************************************************)
EXTENDS RegistrationPayments

CONSTANT
  Requests   (* the requests served at the same time                       *)

ASSUME RacesAssumption == IsFiniteSet(Requests) /\ Requests # {}

VARIABLE
  calls      (* what each request is about to write                        *)

xvars == <<pvars, calls>>

Rest == [kind |-> "rest"]

(* What a request of a unit will write: columns of its cycle and of its    *)
(* proofs, the proofs it reviews, the total of a new one, members who come *)
(* and go.  alone says that nothing was committed since it has read.       *)
Write(kind, u) ==
  [kind |-> kind, unit |-> u, row |-> <<>>, proofs |-> <<>>, reviews |-> {},
   files |-> Nil, joins |-> {}, leaves |-> {}, alone |-> TRUE]

(* Mutant: every column is written back as it was read.                    *)
ChangedWhole(old, new) == new

(* The columns of a row that are given another value; and rows by index.   *)
Changed(old, new) ==
  [k \in {k \in DOMAIN old : new[k] # old[k]} |-> new[k]]
ChangedProofs(ps, qs) ==
  [i \in {i \in 1..Len(ps) : qs[i] # ps[i]} |-> Changed(ps[i], qs[i])]

Onto(diff, row) ==
  [k \in DOMAIN row |-> IF k \in DOMAIN diff THEN diff[k] ELSE row[k]]

Proofs(u) == payments[u][season.year]

(* A request that has rows to write, of the season's cycle.                *)
Reads(r, w) ==
  /\ calls[r] = Rest
  /\ calls' = [calls EXCEPT ![r] = w]
  /\ UNCHANGED pvars

-----------------------------------------------------------------------------
(* The unit's wizard.                                                      *)

(* The statuses a step of the wizard may set.                              *)
StepsOf(u) ==
  {UnitDetailsSaved, OfficialsCompleted}
    \union {s \in {MembersCompleted} : Roster(u) # {} /\ Roster(u) \intersect incomplete = {}}
    \union {s \in {CouncilorsCompleted} : RequirementMet(u)}

ReadForStep(r, u) ==
  /\ InProgress(u)
  /\ \E s \in StepsOf(u) :
       Reads(r, [Write("steps", u) EXCEPT
                   !.row = Changed(Current(u), [Current(u) EXCEPT !.status = s])])

(* The roster as it is counted now.                                        *)
DeclaredCycle(u) ==
  [Current(u) EXCEPT !.status = Declared,
                     !.count  = RosterSize(u),
                     !.fee    = RegistrationFee(RosterSize(u))]

ReadForDeclaration(r, u) ==
  /\ InProgress(u)
  /\ RequirementMet(u)
  /\ Reads(r, [Write("declares", u) EXCEPT !.row = Changed(Current(u), DeclaredCycle(u))])

(* A row that no other request inserts.                                    *)
Unused(m) ==
  /\ owner[m] = Nil /\ archived[m] = Nil
  /\ \A q \in Requests : calls[q] # Rest => m \notin calls[q].joins

ReadForMember(r, u, m) ==
  /\ InProgress(u)
  /\ \/ Unused(m)    /\ Reads(r, [Write("wizard", u) EXCEPT !.joins = {m}])
     \/ owner[m] = u /\ Reads(r, [Write("wizard", u) EXCEPT !.leaves = {m}])

-----------------------------------------------------------------------------
(* The payment page and the upload.                                        *)

Reconciling(u) == Adjustable(u, Drift(u, season.year))

(* The proofs given a review of the handler's own.                         *)
Turns(ps, qs) == {i \in 1..Len(ps) : qs[i].status # ps[i].status}

(* What adjust_fee_for_member_delta writes.                                *)
Adjusts(w, delta) ==
  IF ~Adjustable(w.unit, delta) THEN w
  ELSE LET qs == AdjustedProofs(w.unit, delta) IN
       [w EXCEPT !.row     = Changed(Current(w.unit), AdjustedCycle(w.unit, delta)),
                 !.proofs  = ChangedProofs(Proofs(w.unit), qs),
                 !.reviews = Turns(Proofs(w.unit), qs)]

Reconciles(u, next) == Adjusts(Write(next, u), Drift(u, season.year))

(* The last approved proof is given its balance.                           *)
PageOf(u) ==
  [Write("page", u) EXCEPT
     !.proofs = ChangedProofs(Proofs(u), Rebalanced(Proofs(u), FeeOwed(Current(u))))]

(* Pending proofs above the fee are superseded and a new one is appended,  *)
(* unless another is still pending.                                        *)
UploadOf(u) ==
  LET c    == Current(u)
      kept == Superseded(Proofs(u), c.fee, c.completed)
  IN  [Write("upload", u) EXCEPT
         !.proofs  = ChangedProofs(Proofs(u), kept),
         !.reviews = Turns(Proofs(u), kept),
         !.files   = IF c.fee # Nil THEN c.fee ELSE RegistrationFee(RosterSize(u))]

(* Mutant: a pending proof does not block.                                 *)
MayUploadOver(u) == Len(Proofs(u)) < MaxProofs

MayUpload(u) ==
  /\ ~Blocked(Superseded(Proofs(u), Current(u).fee, Current(u).completed), Current(u).fee)
  /\ Len(Proofs(u)) < MaxProofs

ReadForPage(r, u) ==
  /\ Current(u) # Nil
  /\ Reads(r, IF Reconciling(u) THEN Reconciles(u, "then page") ELSE PageOf(u))

ReadForUpload(r, u) ==
  /\ Current(u) # Nil /\ Settled(Current(u))
  /\ ~FullyPaid(Proofs(u))
  /\ IF Reconciling(u) THEN Reads(r, Reconciles(u, "then upload"))
     ELSE MayUpload(u) /\ Reads(r, UploadOf(u))

(* The second round, with the cycle read again.                            *)
ReadAgain(r) ==
  /\ calls[r] # Rest
  /\ \/ calls[r].kind = "to page" /\ calls' = [calls EXCEPT ![r] = PageOf(@.unit)]
     \/ /\ calls[r].kind = "to upload"
        /\ MayUpload(calls[r].unit)
        /\ calls' = [calls EXCEPT ![r] = UploadOf(@.unit)]
  /\ UNCHANGED pvars

-----------------------------------------------------------------------------
(* The admin.                                                              *)

ReadForApproval(r, u, i, amount) ==
  LET c  == Current(u)
      ps == Proofs(u)
      approved == [ps EXCEPT ![i] = [@ EXCEPT !.status = Approved, !.paid = amount]]
  IN
  /\ amount <= Outstanding(ps, i, OwedFor(c, ps[i]))
  /\ Reads(r, [Write("reviews", u) EXCEPT
                 !.proofs  = ChangedProofs(ps, Rebalanced(approved, FeeOwed(c))),
                 !.reviews = {i}])

ReadForRejection(r, u, i) ==
  Reads(r, [Write("reviews", u) EXCEPT
              !.proofs  = ChangedProofs(Proofs(u), [Proofs(u) EXCEPT ![i].status = Rejected]),
              !.reviews = {i}])

ReadForCompletion(r, u) ==
  /\ AdminCompletable(u)
  /\ Reads(r, [Write("completes", u) EXCEPT
                 !.row = Changed(Current(u), CompletedCycle(u, Current(u)))])

(* approve_member_add_request, remove_unit_member.                         *)
ReadForAddition(r, u, m) ==
  /\ Unused(m)
  /\ Reads(r, Adjusts([Write("admin", u) EXCEPT !.joins = {m}], 1))

ReadForRemoval(r, u, m) ==
  /\ owner[m] = u
  /\ Reads(r, Adjusts([Write("admin", u) EXCEPT !.leaves = {m}], -1))

-----------------------------------------------------------------------------
(* The commit.                                                             *)

(* A unit that has no row has none to write.                               *)
CycleAfter(w) ==
  IF Current(w.unit) = Nil THEN Nil ELSE Onto(w.row, Current(w.unit))

Merged(w, ps, done) ==
  [i \in 1..Len(ps) |->
     LET p == IF i \in DOMAIN w.proofs THEN Onto(w.proofs[i], ps[i]) ELSE ps[i] IN
     IF i \in w.reviews THEN [p EXCEPT !.late = done] ELSE p]

Committed(w) ==
  LET ps == Merged(w, Proofs(w.unit), Current(w.unit).completed) IN
  IF w.kind = "completes" THEN NoneLate(ps)
  ELSE IF w.files = Nil   THEN ps
  ELSE Append(ps, NewProof(w.files))

(* What the others have read is no longer what there is.                   *)
Overtaken(r, next) ==
  [q \in Requests |-> IF q = r THEN next
                      ELSE IF calls[q] = Rest THEN Rest
                      ELSE [calls[q] EXCEPT !.alone = FALSE]]

Then(w) ==
  CASE w.kind = "then page"   -> Write("to page", w.unit)
    [] w.kind = "then upload" -> Write("to upload", w.unit)
    [] OTHER                  -> Rest

Commit(r) ==
  LET w == calls[r] IN
  /\ w # Rest /\ w.kind \notin {"to page", "to upload"}
  /\ SetRow(w.unit, season.year, CycleAfter(w), Committed(w))
  /\ owner' = [m \in Members |-> IF m \in w.joins THEN w.unit
                                 ELSE IF m \in w.leaves THEN Nil ELSE owner[m]]
  /\ incomplete' = incomplete \ w.leaves
  /\ council' = CouncilWithout(w.leaves)
  /\ calls' = Overtaken(r, Then(w))
  /\ UNCHANGED <<season, archived, details>>

(* The request fails or is lost.                                           *)
Fail(r) ==
  /\ calls[r] # Rest
  /\ calls' = [calls EXCEPT ![r] = Rest]
  /\ UNCHANGED pvars

(* Councilors are edited in one statement.                                 *)
EditCouncil(u) ==
  /\ CouncilorEdit(u)
  /\ calls' = [q \in Requests |-> IF calls[q] = Rest THEN Rest
                                  ELSE [calls[q] EXCEPT !.alone = FALSE]]
  /\ UNCHANGED payments

-----------------------------------------------------------------------------
UnitReads(r, u) ==
  \/ ReadForStep(r, u)
  \/ ReadForDeclaration(r, u)
  \/ \E m \in Members : ReadForMember(r, u, m)
  \/ ReadForPage(r, u)
  \/ ReadForUpload(r, u)

AdminReads(r, u) ==
  \/ \E i \in 1..Len(Proofs(u)) :
       \/ \E amount \in 0..OwedFor(Current(u), Proofs(u)[i]) : ReadForApproval(r, u, i, amount)
       \/ ReadForRejection(r, u, i)
  \/ ReadForCompletion(r, u)
  \/ \E m \in Members : ReadForAddition(r, u, m) \/ ReadForRemoval(r, u, m)

RacesInit == PaymentsInit /\ calls = [r \in Requests |-> Rest]

RacesNext ==
  /\ \/ \E r \in Requests, u \in Units : UnitReads(r, u) \/ AdminReads(r, u)
     \/ \E r \in Requests : ReadAgain(r) \/ Commit(r) \/ Fail(r)
     \/ \E u \in Units : EditCouncil(u)
  /\ Bounded'

RacesSpec == RacesInit /\ [][RacesNext]_xvars

-----------------------------------------------------------------------------
(* Properties.                                                             *)

Waiting(u, y) == {i \in 1..Len(payments[u][y]) : payments[u][y][i].status = Pending}

(* A cycle has no more proofs waiting for review than there are requests   *)
(* at the same time, whatever fees fell and proofs were superseded while   *)
(* others were being uploaded: with one request, one                       *)
(* (submit_payment_proof).                                                 *)
FewWait ==
  \A u \in Units, y \in Years : Cardinality(Waiting(u, y)) <= Cardinality(Requests)

(* Once declared and exact, the balance of the last approved proof becomes *)
(* wrong only through a commit that others overtook, or a rejection: what  *)
(* a request does to rows nobody changed since it read them keeps the      *)
(* books.  (A declaration made again, after a late step took it back,      *)
(* leaves the balances of its proofs alone; the cycle was not declared.)   *)
(* And whatever the others have done to them, the next payment page served *)
(* alone puts the balance right, after making the count the roster again   *)
(* (get_payment_status, reconcile_cycle_fee_after_member_removals,         *)
(* approve_registration_payment).                                          *)
AloneKeepsBooks ==
  [][\A r \in Requests, u \in Units :
       (/\ calls[r] # Rest /\ calls[r].unit = u /\ calls[r].alone
        /\ Current(u) # Nil /\ Settled(Current(u)) /\ Snapshot(Current(u))
        /\ Recorded(Proofs(u))
        /\ Commit(r))
       => /\ Exact(Current(u), Proofs(u)) =>
              \/ Exact(Current(u)', Proofs(u)')
              \/ \E i \in 1..Len(Proofs(u)) :
                   IsApproved(Proofs(u)[i]) /\ ~IsApproved(Proofs(u)'[i])
          /\ calls[r].kind = "page" => Exact(Current(u)', Proofs(u)')
          /\ calls[r].kind \in {"then page", "then upload"} => Drift(u, season.year)' = 0]_xvars

(* A declaration or a completion is taken back only by a step of the       *)
(* wizard that had read the cycle before it                                *)
(* (update_cycle_status, submit_declaration).                              *)
TakenBackOnlyByOlderStep ==
  [][\A u \in Units :
       (/\ Current(u) # Nil
        /\ Settled(Current(u))
        /\ Current(u).status' \notin {Current(u).status, Completed})
       => \E r \in Requests :
            /\ calls[r] # Rest /\ ~calls[r].alone
            /\ calls[r].kind \in {"steps", "declares"}
            /\ Commit(r)]_xvars
=============================================================================
