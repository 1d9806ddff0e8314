----------------------- MODULE RegistrationRaces_proofs -----------------------
(* Requests of one registration at the same time: for any number of them,  *)
(* of units, members, seasons and proofs.                                  *)
EXTENDS RegistrationRaces, Registration_proofs

(* What a request writes of a cycle, and of a proof: some columns of rows  *)
(* it has read or computed.  No handler makes a proof pending again.       *)
CyclePart(d) == d = <<>> \/ \E c, e \in Cycle : d = Changed(c, e)

IsProofRow(p) == \E V : p \in Rows(V)

ProofPart(d) ==
  \E p, q :
    /\ IsProofRow(p) /\ IsProofRow(q)
    /\ d = Changed(p, q)
    /\ q.status \in {p.status, Approved, Rejected}

IsWrite(w) ==
  /\ w = [kind |-> w.kind, unit |-> w.unit, row |-> w.row, proofs |-> w.proofs,
          reviews |-> w.reviews, files |-> w.files, joins |-> w.joins,
          leaves |-> w.leaves, alone |-> w.alone]
  /\ w.kind # "rest"
  /\ w.unit \in Units
  /\ CyclePart(w.row)
  /\ \A i \in DOMAIN w.proofs : ProofPart(w.proofs[i])
  /\ w.files \in Nat \union {Nil}
  /\ w.joins \in SUBSET Members /\ w.leaves \in SUBSET Members

(* Only an upload brings a proof, only the wizard and the completion set a *)
(* status, and the wizard had a cycle in progress unless another commit    *)
(* came since.                                                             *)
Fits(w) ==
  /\ w.files # Nil => w.kind = "upload"
  /\ "status" \in DOMAIN w.row =>
       w.kind \in {"steps", "declares"} \/ (w.kind = "completes" /\ w.row["status"] = Completed)
  /\ w.alone /\ w.kind \in {"steps", "declares"} => InProgress(w.unit)
  /\ w.kind \in {"then page", "then upload", "to page", "to upload"} => Current(w.unit) # Nil

CallsOK ==
  /\ calls = [r \in Requests |-> calls[r]]
  /\ \A r \in Requests : calls[r] # Rest => IsWrite(calls[r]) /\ Fits(calls[r])

(* The proofs an upload supersedes, and those that are left by the uploads *)
(* in W.                                                                   *)
Supersedes(w) == {i \in DOMAIN w.proofs : "status" \in DOMAIN w.proofs[i]}

Uploads(r, u) == calls[r].kind = "upload" /\ calls[r].unit = u

Left(u, y, W) == {i \in Waiting(u, y) : \A r \in W : i \notin Supersedes(calls[r])}

(* Whichever uploads commit first, what they leave waiting and what they   *)
(* bring fit together.                                                     *)
Room(u, y) ==
  \A W \in SUBSET Requests :
    (y = season.year /\ \A r \in W : Uploads(r, u))
    \/ W = {} => Cardinality(Left(u, y, W)) + Cardinality(W) <= Cardinality(Requests)

AllLedgers ==
  /\ payments = [u \in Units |-> [y \in Years |-> payments[u][y]]]
  /\ \A u \in Units, y \in Years : IsLedger(payments[u][y])

RacesInv ==
  /\ TypeOK
  /\ AllLedgers
  /\ CallsOK
  /\ \A u \in Units, y \in Years : Room(u, y)

-----------------------------------------------------------------------------
(* Columns.                                                                *)

CycleColumns == {"status", "path", "count", "fee", "completed"}
ProofColumns == {"status", "total", "balance", "paid", "late"}

LEMMA CycleByColumns ==
  /\ \A c \in Cycle : DOMAIN c = CycleColumns
  /\ \A f : /\ f = [k \in CycleColumns |-> f[k]]
            /\ f["status"] \in Status /\ f["path"] \in {"fresh", "renewal"}
            /\ f["count"] \in Nat \union {Nil} /\ f["fee"] \in Nat \union {Nil}
            /\ f["completed"] \in BOOLEAN
            => f \in Cycle
<1>1. \A c \in Cycle : DOMAIN c = CycleColumns
  BY DEF Cycle, CycleColumns
<1>2. ASSUME NEW f, f = [k \in CycleColumns |-> f[k]],
             f["status"] \in Status, f["path"] \in {"fresh", "renewal"},
             f["count"] \in Nat \union {Nil}, f["fee"] \in Nat \union {Nil},
             f["completed"] \in BOOLEAN
      PROVE  f \in Cycle
  BY <1>2 DEF Cycle, CycleColumns
<1>3. QED
  BY <1>1, <1>2

(* Columns put over a row leave a row.                                     *)
LEMMA CycleOnto ==
  ASSUME NEW c \in Cycle, NEW d, CyclePart(d)
  PROVE  /\ Onto(d, c) \in Cycle
         /\ Onto(d, c).status = IF "status" \in DOMAIN d THEN d["status"] ELSE c.status
<1> DEFINE f == [k \in DOMAIN c |-> IF k \in DOMAIN d THEN d[k] ELSE c[k]]
<1>1. DOMAIN c = CycleColumns
  BY CycleByColumns
<1>2. \A k \in CycleColumns : k \in DOMAIN d => \E e \in Cycle : d[k] = e[k]
  <2>1. CASE d = <<>>
    BY <2>1 DEF CycleColumns
  <2>2. ASSUME NEW a \in Cycle, NEW e \in Cycle, d = Changed(a, e)
        PROVE  \A k \in DOMAIN d : d[k] = e[k]
    BY <2>2 DEF Changed
  <2>3. QED
    BY <2>1, <2>2 DEF CyclePart
<1>3. /\ f["status"] \in Status /\ f["path"] \in {"fresh", "renewal"}
      /\ f["count"] \in Nat \union {Nil} /\ f["fee"] \in Nat \union {Nil}
      /\ f["completed"] \in BOOLEAN
      /\ f["status"] = IF "status" \in DOMAIN d THEN d["status"] ELSE c["status"]
  BY <1>1, <1>2 DEF Cycle, CycleColumns
<1>4. f = [k \in CycleColumns |-> f[k]]
  BY <1>1
<1>5. Onto(d, c) = f
  BY DEF Onto
<1> HIDE DEF f
<1>6. f \in Cycle
  BY <1>3, <1>4, CycleByColumns
<1>7. QED
  BY <1>3, <1>5, <1>6

LEMMA ProofByColumns ==
  ASSUME NEW V
  PROVE  /\ \A p \in Rows(V) : DOMAIN p = ProofColumns
         /\ \A f : /\ f = [k \in ProofColumns |-> f[k]]
                   /\ f["status"] \in {Pending, Approved, Rejected} /\ f["total"] \in Nat
                   /\ f["balance"] \in V /\ f["paid"] \in V /\ f["late"] \in V
                   => f \in Rows(V)
<1>1. \A p \in Rows(V) : DOMAIN p = ProofColumns
  BY DEF Rows, ProofColumns
<1>2. ASSUME NEW f, f = [k \in ProofColumns |-> f[k]],
             f["status"] \in {Pending, Approved, Rejected}, f["total"] \in Nat,
             f["balance"] \in V, f["paid"] \in V, f["late"] \in V
      PROVE  f \in Rows(V)
  BY <1>2 DEF Rows, ProofColumns
<1>3. QED
  BY <1>1, <1>2

LEMMA ProofOnto ==
  ASSUME NEW p, IsProofRow(p), NEW d, ProofPart(d)
  PROVE  /\ IsProofRow(Onto(d, p))
         /\ Onto(d, p).status = Pending => p.status = Pending
         /\ "status" \in DOMAIN d => Onto(d, p).status # Pending
<1>1. PICK a, q : /\ IsProofRow(a) /\ IsProofRow(q)
                  /\ d = Changed(a, q)
                  /\ q.status \in {a.status, Approved, Rejected}
  BY DEF ProofPart
<1>2. PICK A, Q, P : a \in Rows(A) /\ q \in Rows(Q) /\ p \in Rows(P)
  BY <1>1 DEF IsProofRow
<1> DEFINE V == Q \union P
           f == [k \in DOMAIN p |-> IF k \in DOMAIN d THEN d[k] ELSE p[k]]
<1>3. q \in Rows(V) /\ p \in Rows(V)
  BY <1>2 DEF Rows
<1>4. DOMAIN a = ProofColumns /\ DOMAIN p = ProofColumns
  BY <1>2, ProofByColumns
<1>5. \A k \in DOMAIN d : d[k] = q[k] /\ d[k] # a[k]
  BY <1>1 DEF Changed
<1> HIDE DEF V
<1>6. "status" \in DOMAIN d => q["status"] \in {Approved, Rejected}
  BY <1>1, <1>5
<1>7. /\ f["status"] \in {Pending, Approved, Rejected} /\ f["total"] \in Nat
      /\ f["balance"] \in V /\ f["paid"] \in V /\ f["late"] \in V
      /\ f["status"] = IF "status" \in DOMAIN d THEN q["status"] ELSE p["status"]
  BY <1>3, <1>4, <1>5 DEF Rows, ProofColumns
<1>8. f = [k \in ProofColumns |-> f[k]]
  BY <1>4
<1>9. Onto(d, p) = f
  BY DEF Onto
<1> HIDE DEF f
<1>10. f \in Rows(V)
  BY <1>7, <1>8, ProofByColumns
<1>11. QED
  BY <1>6, <1>7, <1>9, <1>10 DEF IsProofRow, Pending, Approved, Rejected

(* Rows of whatever kinds make one ledger.                                 *)
LEMMA LedgerOfRows ==
  ASSUME NEW n \in Nat, NEW qs, qs = [i \in 1..n |-> qs[i]],
         \A i \in 1..n : IsProofRow(qs[i])
  PROVE  IsLedger(qs) /\ Len(qs) = n
<1> DEFINE V == {qs[i].balance : i \in 1..n} \union {qs[i].paid : i \in 1..n}
                  \union {qs[i].late : i \in 1..n}
<1>1. ASSUME NEW i \in 1..n PROVE qs[i] \in Rows(V)
  <2>1. PICK U : qs[i] \in Rows(U)
    BY DEF IsProofRow
  <2>2. qs[i].balance \in V /\ qs[i].paid \in V /\ qs[i].late \in V
    OBVIOUS
  <2> HIDE DEF V
  <2>3. QED
    BY <2>1, <2>2 DEF Rows
<1> HIDE DEF V
<1>2. qs \in Seq(Rows(V)) /\ Len(qs) = n
  BY <1>1
<1>3. QED
  BY <1>2 DEF IsLedger

LEMMA RowOfLedger ==
  ASSUME NEW ps, IsLedger(ps)
  PROVE  /\ Len(ps) \in Nat
         /\ \A i \in 1..Len(ps) : IsProofRow(ps[i])
BY LedgerRows DEF IsProofRow

-----------------------------------------------------------------------------
(* What a commit does to the proofs.                                       *)

LEMMA MergedLedger ==
  ASSUME NEW w, IsWrite(w), NEW ps, IsLedger(ps), NEW done
  PROVE  /\ IsLedger(Merged(w, ps, done)) /\ Len(Merged(w, ps, done)) = Len(ps)
         /\ \A i \in 1..Len(ps) :
              Merged(w, ps, done)[i].status = Pending =>
                ps[i].status = Pending /\ i \notin Supersedes(w)
<1> DEFINE qs == Merged(w, ps, done)
<1>1. Len(ps) \in Nat /\ \A i \in 1..Len(ps) : IsProofRow(ps[i])
  BY RowOfLedger
<1>2. ASSUME NEW i \in 1..Len(ps)
      PROVE  /\ IsProofRow(qs[i])
             /\ qs[i].status = Pending => ps[i].status = Pending /\ i \notin Supersedes(w)
  <2> DEFINE p == IF i \in DOMAIN w.proofs THEN Onto(w.proofs[i], ps[i]) ELSE ps[i]
  <2>1. /\ IsProofRow(p)
        /\ p.status = Pending => ps[i].status = Pending /\ i \notin Supersedes(w)
    <3>1. CASE i \in DOMAIN w.proofs
      BY <1>1, <3>1, ProofOnto DEF IsWrite, Supersedes
    <3>2. CASE i \notin DOMAIN w.proofs
      BY <1>1, <3>2 DEF Supersedes
    <3>3. QED
      BY <3>1, <3>2
  <2>2. qs[i] = IF i \in w.reviews THEN [p EXCEPT !.late = done] ELSE p
    BY DEF Merged
  <2> HIDE DEF p, qs
  <2>3. PICK V : p \in Rows(V)
    BY <2>1 DEF IsProofRow
  <2>4. [p EXCEPT !.late = done] \in Rows(V \union {done}) /\ [p EXCEPT !.late = done].status = p.status
    BY <2>3 DEF Rows
  <2>5. QED
    BY <2>1, <2>2, <2>4 DEF IsProofRow
<1>3. qs = [i \in 1..Len(ps) |-> qs[i]]
  BY DEF Merged
<1> HIDE DEF qs
<1>4. QED
  BY <1>1, <1>2, <1>3, LedgerOfRows DEF qs

(* Rows stay where they are, none becomes pending again, and one may come  *)
(* at the end.                                                             *)
LEMMA CommittedLedger ==
  ASSUME NEW w, IsWrite(w), IsLedger(Proofs(w.unit))
  PROVE  /\ IsLedger(Committed(w))
         /\ Len(Committed(w)) \in Nat
         /\ \A i \in 1..Len(Committed(w)) :
              Committed(w)[i].status = Pending =>
                \/ /\ i \in 1..Len(Proofs(w.unit)) /\ Proofs(w.unit)[i].status = Pending
                   /\ i \notin Supersedes(w)
                \/ w.files # Nil /\ i = Len(Proofs(w.unit)) + 1
<1> DEFINE old == Proofs(w.unit)
           ps == Merged(w, old, Current(w.unit).completed)
<1>1. /\ IsLedger(ps) /\ Len(ps) = Len(old) /\ Len(old) \in Nat
      /\ \A i \in 1..Len(ps) :
           ps[i].status = Pending => old[i].status = Pending /\ i \notin Supersedes(w)
  BY MergedLedger, RowOfLedger
<1>2. CASE w.kind = "completes"
  <2>1. Committed(w) = NoneLate(ps)
    BY <1>2 DEF Committed
  <2> HIDE DEF ps, old
  <2>2. NoNewPending(ps, NoneLate(ps))
    BY <1>1, NoneLateKeeps
  <2>3. QED
    BY <1>1, <2>1, <2>2 DEF NoNewPending, old
<1>3. CASE w.kind # "completes" /\ w.files = Nil
  <2>1. Committed(w) = ps
    BY <1>3 DEF Committed
  <2> HIDE DEF ps
  <2>2. QED
    BY <1>1, <2>1
<1>4. CASE w.kind # "completes" /\ w.files # Nil
  <2>1. Committed(w) = Append(ps, NewProof(w.files)) /\ w.files \in Nat
    BY <1>4 DEF Committed, IsWrite
  <2> HIDE DEF ps
  <2>2. PICK V : ps \in Seq(Rows(V))
    BY <1>1 DEF IsLedger
  <2> DEFINE U == V \union {Nil, FALSE}
  <2>3. ps \in Seq(Rows(U))
    BY <2>2, WiderRows
  <2>4. NewProof(w.files) \in Rows(U)
    BY <2>1 DEF NewProof, Rows
  <2> HIDE DEF U, old
  <2>5. /\ Committed(w) \in Seq(Rows(U)) /\ Len(Committed(w)) = Len(ps) + 1
        /\ \A i \in 1..Len(ps) : Committed(w)[i] = ps[i]
    BY <2>1, <2>3, <2>4
  <2>6. \A i \in 1..Len(Committed(w)) : i \in 1..Len(ps) \/ i = Len(old) + 1
    BY <1>1, <2>5
  <2>7. QED
    BY <1>1, <1>4, <2>5, <2>6 DEF IsLedger, old
<1>5. QED
  BY <1>2, <1>3, <1>4

(* An upload may write only when it supersedes whatever is waiting.        *)
LEMMA UploadSupersedes ==
  ASSUME TypeOK, AllLedgers, NEW u \in Units, Current(u) # Nil, MayUpload(u)
  PROVE  Waiting(u, season.year) \subseteq Supersedes(UploadOf(u))
<1> DEFINE c  == Current(u)
           ps == Proofs(u)
           kept == Superseded(ps, c.fee, c.completed)
<1>1. IsLedger(ps) /\ c.fee \in Nat \union {Nil}
  BY CycleRow DEF AllLedgers, Proofs, Current, TypeOK, Cycle
<1>2. \A i \in 1..Len(ps) : kept[i].status # Pending
  BY <1>1, NoneLeftWaiting DEF MayUpload
<1>3. UploadOf(u).proofs = ChangedProofs(ps, kept)
  BY DEF UploadOf, Write
<1>4. SUFFICES ASSUME NEW i \in Waiting(u, season.year)
               PROVE  i \in Supersedes(UploadOf(u))
  OBVIOUS
<1>5. i \in 1..Len(ps) /\ ps[i].status = Pending
  BY DEF Waiting, Proofs
<1>6. kept[i].status # ps[i].status /\ kept[i] # ps[i]
  BY <1>2, <1>5
<1>7. i \in DOMAIN UploadOf(u).proofs /\ UploadOf(u).proofs[i] = Changed(ps[i], kept[i])
  BY <1>3, <1>5, <1>6 DEF ChangedProofs
<1>8. "status" \in DOMAIN ps[i]
  <2>1. PICK V : ps[i] \in Rows(V)
    BY <1>1, <1>5, LedgerRows
  <2>2. QED
    BY <2>1, ProofByColumns DEF ProofColumns
<1>9. "status" \in DOMAIN Changed(ps[i], kept[i])
  BY <1>6, <1>8 DEF Changed
<1>10. QED
  BY <1>7, <1>9 DEF Supersedes

-----------------------------------------------------------------------------
(* What the requests are about to write.                                   *)

LEMMA ProofsParts ==
  ASSUME NEW ps, IsLedger(ps), NEW qs, NoNewPending(ps, qs)
  PROVE  \A i \in DOMAIN ChangedProofs(ps, qs) : ProofPart(ChangedProofs(ps, qs)[i])
<1> SUFFICES ASSUME NEW i \in 1..Len(ps), qs[i] # ps[i]
             PROVE  ProofPart(Changed(ps[i], qs[i]))
  BY DEF ChangedProofs
<1>1. IsProofRow(ps[i]) /\ IsProofRow(qs[i])
  BY RowOfLedger DEF NoNewPending
<1>2. qs[i].status \in {Pending, Approved, Rejected}
  BY <1>1 DEF IsProofRow, Rows
<1>3. qs[i].status \in {ps[i].status, Approved, Rejected}
  BY <1>2 DEF NoNewPending
<1>4. QED
  BY <1>1, <1>3 DEF ProofPart

LEMMA BareWrite ==
  ASSUME NEW u \in Units, NEW kind
  PROVE  /\ kind # "rest" => IsWrite(Write(kind, u))
         /\ Write(kind, u).kind = kind /\ Write(kind, u).unit = u
         /\ "status" \notin DOMAIN Write(kind, u).row
         /\ Write(kind, u).files = Nil
BY DEF Write, IsWrite, CyclePart

WithCycle(w, d) == [w EXCEPT !.row = d]
WithProofs(w, d, reviews) == [w EXCEPT !.proofs = d, !.reviews = reviews]

(* A write that sets columns of the cycle.                                 *)
LEMMA CycleWritten ==
  ASSUME NEW w, IsWrite(w), NEW c \in Cycle, NEW e \in Cycle,
         NEW x, x = WithCycle(w, Changed(c, e))
  PROVE  /\ IsWrite(x) /\ x.kind = w.kind /\ x.unit = w.unit /\ x.files = w.files
         /\ x.proofs = w.proofs
         /\ "status" \in DOMAIN x.row => x.row["status"] = e.status /\ e.status # c.status
<1> PICK d : d = Changed(c, e)
  OBVIOUS
<1>1. CyclePart(d) /\ ("status" \in DOMAIN d => d["status"] = e.status /\ e.status # c.status)
  BY DEF CyclePart, Changed
<1>2. x = [w EXCEPT !.row = d]
  BY DEF WithCycle
<1>3. QED
  BY <1>1, <1>2 DEF IsWrite

(* A write that sets columns of the proofs.                                *)
LEMMA ProofsWritten ==
  ASSUME NEW w, IsWrite(w), NEW ps, IsLedger(ps), NEW qs, NoNewPending(ps, qs),
         NEW reviews, NEW x, x = WithProofs(w, ChangedProofs(ps, qs), reviews)
  PROVE  /\ IsWrite(x) /\ x.kind = w.kind /\ x.unit = w.unit /\ x.files = w.files
         /\ x.row = w.row
<1> PICK d : d = ChangedProofs(ps, qs)
  OBVIOUS
<1>1. \A i \in DOMAIN d : ProofPart(d[i])
  BY ProofsParts
<1>2. x = [w EXCEPT !.proofs = d, !.reviews = reviews]
  BY DEF WithProofs
<1>3. QED
  BY <1>1, <1>2 DEF IsWrite

(* A write so far without columns, other than the wizard's.                *)
Plain(w) ==
  /\ IsWrite(w)
  /\ "status" \notin DOMAIN w.row
  /\ w.files = Nil
  /\ w.kind \notin {"steps", "declares"}
  /\ w.kind \in {"then page", "then upload", "to page", "to upload"} => Current(w.unit) # Nil

LEMMA PlainFits == \A w : Plain(w) => IsWrite(w) /\ Fits(w)
BY DEF Plain, Fits

(* An adjustment of the fee sets no status of the cycle.                   *)
LEMMA AdjustsFits ==
  ASSUME TypeOK, AllLedgers, NEW w, Plain(w), NEW delta \in Int
  PROVE  LET x == Adjusts(w, delta) IN
         IsWrite(x) /\ Fits(x) /\ x.kind = w.kind /\ x.unit = w.unit
<1>1. CASE ~Adjustable(w.unit, delta)
  BY <1>1, PlainFits DEF Adjusts
<1>2. CASE Adjustable(w.unit, delta)
  <2> PICK u, qs, turns : /\ u = w.unit
                          /\ qs = AdjustedProofs(u, delta)
                          /\ turns = Turns(Proofs(u), qs)
    OBVIOUS
  <2> PICK c, e, ps : c = Current(u) /\ e = AdjustedCycle(u, delta) /\ ps = Proofs(u)
    OBVIOUS
  <2> PICK y : y = WithCycle(w, Changed(c, e))
    OBVIOUS
  <2> PICK x : x = WithProofs(y, ChangedProofs(ps, qs), turns)
    OBVIOUS
  <2>1. IsWrite(w) /\ u \in Units /\ c \in Cycle
    BY <1>2, CycleRow DEF Plain, Adjustable, IsWrite, Current, TypeOK
  <2>2. e \in Cycle /\ e.status = c.status
    BY <2>1, AdjustedRow
  <2>3. /\ IsWrite(y) /\ y.kind = w.kind /\ y.unit = w.unit /\ y.files = w.files
        /\ "status" \notin DOMAIN y.row
    BY <2>1, <2>2, CycleWritten
  <2>4. IsLedger(ps) /\ NoNewPending(ps, qs)
    BY <2>1, FeeAdjustedKeeps DEF AllLedgers, Proofs, AdjustedProofs, TypeOK
  <2>5. IsWrite(x) /\ x.kind = y.kind /\ x.unit = y.unit /\ x.files = y.files /\ x.row = y.row
    BY <2>3, <2>4, ProofsWritten
  <2>6. Adjusts(w, delta) = x
    BY <1>2, <2>1 DEF Adjusts, IsWrite, WithCycle, WithProofs
  <2>7. Fits(x)
    BY <2>3, <2>5 DEF Plain, Fits
  <2>8. QED
    BY <2>3, <2>5, <2>6, <2>7
<1>3. QED
  BY <1>1, <1>2

(* An upload that has just read what there is.                             *)
FreshUpload(w) ==
  \E u \in Units : w = UploadOf(u) /\ Current(u) # Nil /\ MayUpload(u)

Sound(w) == IsWrite(w) /\ Fits(w) /\ (w.kind = "upload" => FreshUpload(w))

Begins(r) == \E w : Sound(w) /\ Reads(r, w)

LEMMA StepBegins ==
  ASSUME TypeOK, NEW r \in Requests, NEW u \in Units,
         ReadForStep(r, u) \/ ReadForDeclaration(r, u) \/ ReadForCompletion(r, u)
  PROVE  Begins(r)
<1>1. Current(u) \in Cycle
  BY CycleRow DEF ReadForStep, ReadForDeclaration, ReadForCompletion, AdminCompletable, InProgress,
                  Current, TypeOK
<1>2. ASSUME NEW e \in Cycle, NEW kind \in {"steps", "declares", "completes"},
             kind # "completes" => InProgress(u),
             kind = "completes" => e.status = Completed,
             Reads(r, WithCycle(Write(kind, u), Changed(Current(u), e)))
      PROVE  Begins(r)
  <2> PICK w, c, x : /\ w = Write(kind, u) /\ c = Current(u)
                     /\ x = WithCycle(w, Changed(c, e))
    OBVIOUS
  <2>1. IsWrite(w) /\ w.kind = kind /\ w.unit = u /\ w.files = Nil
    BY BareWrite
  <2>2. /\ IsWrite(x) /\ x.kind = kind /\ x.unit = u /\ x.files = Nil
        /\ "status" \in DOMAIN x.row => x.row["status"] = e.status
    BY <1>1, <2>1, CycleWritten
  <2>3. Fits(x)
    BY <1>2, <2>2 DEF Fits
  <2>4. QED
    BY <1>2, <2>2, <2>3 DEF Begins, Sound
<1>3. CASE ReadForStep(r, u)
  <2>1. PICK s \in StepsOf(u) :
          Reads(r, WithCycle(Write("steps", u), Changed(Current(u), [Current(u) EXCEPT !.status = s])))
    BY <1>3 DEF ReadForStep, WithCycle
  <2>2. [Current(u) EXCEPT !.status = s] \in Cycle
    BY <1>1 DEF StepsOf, Cycle, Status
  <2>3. QED
    BY <1>2, <1>3, <2>1, <2>2 DEF ReadForStep
<1>4. CASE ReadForDeclaration(r, u)
  <2>1. DeclaredCycle(u) \in Cycle
    BY <1>1, RosterCounted DEF DeclaredCycle, Cycle, Status
  <2>2. QED
    BY <1>2, <1>4, <2>1 DEF ReadForDeclaration, WithCycle
<1>5. CASE ReadForCompletion(r, u)
  <2>1. CompletedCycle(u, Current(u)) \in Cycle /\ CompletedCycle(u, Current(u)).status = Completed
    BY <1>1, CompletedRow DEF CompletedCycle, Cycle
  <2>2. QED
    BY <1>2, <1>5, <2>1 DEF ReadForCompletion, WithCycle
<1>6. QED
  BY <1>3, <1>4, <1>5

LEMMA MemberBegins ==
  ASSUME TypeOK, AllLedgers, NEW r \in Requests, NEW u \in Units, NEW m \in Members,
         ReadForMember(r, u, m) \/ ReadForAddition(r, u, m) \/ ReadForRemoval(r, u, m)
  PROVE  Begins(r)
<1> DEFINE joining(kind) == [Write(kind, u) EXCEPT !.joins = {m}]
           leaving(kind) == [Write(kind, u) EXCEPT !.leaves = {m}]
<1>1. ASSUME NEW kind \in {"wizard", "admin"}
      PROVE  /\ Plain(joining(kind)) /\ joining(kind).kind = kind
             /\ Plain(leaving(kind)) /\ leaving(kind).kind = kind
  <2> PICK w : w = Write(kind, u)
    OBVIOUS
  <2>1. IsWrite(w) /\ w.kind = kind /\ w.files = Nil /\ "status" \notin DOMAIN w.row
    BY <1>1, BareWrite
  <2>2. ASSUME NEW x, x = [w EXCEPT !.joins = {m}] \/ x = [w EXCEPT !.leaves = {m}]
        PROVE  /\ IsWrite(x) /\ x.kind = kind /\ x.files = Nil
               /\ "status" \notin DOMAIN x.row
    BY <2>1, <2>2 DEF IsWrite
  <2>3. QED
    BY <1>1, <2>2 DEF Plain
<1> HIDE DEF joining, leaving
<1>2. ASSUME NEW x, Plain(x), x.kind \in {"wizard", "admin"},
             Reads(r, x) \/ Reads(r, Adjusts(x, 1)) \/ Reads(r, Adjusts(x, -1))
      PROVE  Begins(r)
  <2>1. Sound(x)
    BY <1>2, PlainFits DEF Sound
  <2>2. Sound(Adjusts(x, 1)) /\ Sound(Adjusts(x, -1))
    BY <1>2, AdjustsFits DEF Sound
  <2>3. QED
    BY <1>2, <2>1, <2>2 DEF Begins
<1>3. CASE ReadForMember(r, u, m)
  <2>1. Reads(r, joining("wizard")) \/ Reads(r, leaving("wizard"))
    BY <1>3 DEF ReadForMember, joining, leaving
  <2>2. QED
    BY <1>1, <1>2, <2>1
<1>4. CASE ReadForAddition(r, u, m)
  <2>1. Reads(r, Adjusts(joining("admin"), 1))
    BY <1>4 DEF ReadForAddition, joining
  <2>2. QED
    BY <1>1, <1>2, <2>1
<1>5. CASE ReadForRemoval(r, u, m)
  <2>1. Reads(r, Adjusts(leaving("admin"), -1))
    BY <1>5 DEF ReadForRemoval, leaving
  <2>2. QED
    BY <1>1, <1>2, <2>1
<1>6. QED
  BY <1>3, <1>4, <1>5

LEMMA PageSound ==
  ASSUME AllLedgers, TypeOK, NEW u \in Units
  PROVE  Sound(PageOf(u)) /\ PageOf(u).unit = u
<1> PICK w, ps, qs, x : /\ w = Write("page", u) /\ ps = Proofs(u)
                        /\ qs = Rebalanced(ps, FeeOwed(Current(u)))
                        /\ x = WithProofs(w, ChangedProofs(ps, qs), {})
  OBVIOUS
<1>1. IsWrite(w) /\ w.kind = "page" /\ w.unit = u /\ w.files = Nil /\ "status" \notin DOMAIN w.row
  BY BareWrite
<1>2. IsLedger(ps) /\ NoNewPending(ps, qs)
  BY RebalancedKeeps DEF AllLedgers, Proofs, TypeOK
<1>3. IsWrite(x) /\ x.kind = w.kind /\ x.unit = w.unit /\ x.files = w.files /\ x.row = w.row
  BY <1>1, <1>2, ProofsWritten
<1>4. x = PageOf(u)
  <2> PICK d : d = ChangedProofs(ps, qs)
    OBVIOUS
  <2>1. PageOf(u) = [Write("page", u) EXCEPT !.proofs = d]
    BY DEF PageOf
  <2>2. x = [Write("page", u) EXCEPT !.proofs = d, !.reviews = {}]
    BY DEF WithProofs
  <2>3. w.reviews = {}
    BY DEF Write
  <2>4. [w EXCEPT !.proofs = d] = [w EXCEPT !.proofs = d, !.reviews = {}]
    BY <1>1, <2>3 DEF IsWrite
  <2>5. QED
    BY <2>1, <2>2, <2>4
<1>5. Fits(x)
  BY <1>1, <1>3 DEF Fits
<1>6. QED
  BY <1>1, <1>3, <1>4, <1>5 DEF Sound

LEMMA UploadSound ==
  ASSUME AllLedgers, TypeOK, NEW u \in Units, Current(u) # Nil, MayUpload(u)
  PROVE  Sound(UploadOf(u)) /\ UploadOf(u).unit = u /\ UploadOf(u).kind = "upload"
<1> PICK c, w, ps, kept, files, x :
      /\ c = Current(u) /\ w = Write("upload", u) /\ ps = Proofs(u)
      /\ kept = Superseded(ps, c.fee, c.completed)
      /\ files = IF c.fee # Nil THEN c.fee ELSE RegistrationFee(RosterSize(u))
      /\ x = WithProofs(w, ChangedProofs(ps, kept), Turns(ps, kept))
  OBVIOUS
<1>1. IsWrite(w) /\ w.kind = "upload" /\ w.unit = u /\ w.files = Nil /\ "status" \notin DOMAIN w.row
  BY BareWrite
<1>2. c.fee \in Nat \union {Nil} /\ files \in Nat
  BY CycleRow, RosterCounted DEF Current, Cycle, TypeOK
<1>3. IsLedger(ps) /\ NoNewPending(ps, kept)
  BY SupersededKeeps DEF AllLedgers, Proofs, TypeOK
<1>4. IsWrite(x) /\ x.kind = w.kind /\ x.unit = w.unit /\ x.files = w.files /\ x.row = w.row
  BY <1>1, <1>3, ProofsWritten
<1> PICK y : y = [x EXCEPT !.files = files]
  OBVIOUS
<1>5. IsWrite(y) /\ y.kind = x.kind /\ y.unit = x.unit /\ y.row = x.row
  BY <1>2, <1>4 DEF IsWrite
<1>6. y = UploadOf(u)
  BY DEF UploadOf, Write, WithProofs
<1>7. Fits(y)
  BY <1>1, <1>4, <1>5 DEF Fits
<1>8. QED
  <2>1. FreshUpload(y)
    BY <1>6 DEF FreshUpload
  <2>2. y.kind = "upload" /\ y.unit = u
    BY <1>1, <1>4, <1>5
  <2>3. Sound(y)
    BY <1>5, <1>7, <2>1 DEF Sound
  <2>4. QED
    BY <1>6, <2>2, <2>3

LEMMA PaymentBegins ==
  ASSUME TypeOK, AllLedgers, NEW r \in Requests, NEW u \in Units,
         ReadForPage(r, u) \/ ReadForUpload(r, u)
  PROVE  Begins(r)
<1>1. Current(u) \in Cycle /\ Current(u) # Nil
  BY CycleRow DEF ReadForPage, ReadForUpload, Current, TypeOK
<1>2. Drift(u, season.year) \in Int
  BY <1>1, RosterCounted DEF Drift, Current, Cycle
<1>3. ASSUME NEW kind \in {"then page", "then upload"}
      PROVE  Sound(Reconciles(u, kind))
  <2>1. Plain(Write(kind, u)) /\ Write(kind, u).kind # "upload"
    BY <1>1, BareWrite DEF Plain
  <2>2. QED
    BY <1>2, <2>1, AdjustsFits DEF Reconciles, Sound
<1>4. CASE ReadForPage(r, u)
  BY <1>3, <1>4, PageSound DEF ReadForPage, Begins
<1>5. CASE ReadForUpload(r, u)
  BY <1>1, <1>3, <1>5, UploadSound DEF ReadForUpload, Begins
<1>6. QED
  BY <1>4, <1>5

LEMMA ReviewBegins ==
  ASSUME TypeOK, AllLedgers, NEW r \in Requests, NEW u \in Units, NEW i \in 1..Len(Proofs(u)),
         ReadForRejection(r, u, i) \/ \E amount : ReadForApproval(r, u, i, amount)
  PROVE  Begins(r)
<1> PICK w, ps : w = Write("reviews", u) /\ ps = Proofs(u)
  OBVIOUS
<1>1. IsWrite(w) /\ w.kind = "reviews" /\ w.unit = u /\ w.files = Nil /\ "status" \notin DOMAIN w.row
  BY BareWrite
<1>2. IsLedger(ps)
  BY DEF AllLedgers, Proofs, TypeOK
<1>3. ASSUME NEW qs, NoNewPending(ps, qs),
             Reads(r, WithProofs(w, ChangedProofs(ps, qs), {i}))
      PROVE  Begins(r)
  <2> PICK x : x = WithProofs(w, ChangedProofs(ps, qs), {i})
    OBVIOUS
  <2>1. IsWrite(x) /\ x.kind = w.kind /\ x.unit = w.unit /\ x.files = w.files /\ x.row = w.row
    BY <1>1, <1>2, <1>3, ProofsWritten
  <2>2. Fits(x)
    BY <1>1, <2>1 DEF Fits
  <2>3. QED
    BY <1>1, <1>3, <2>1, <2>2 DEF Begins, Sound
<1>4. PICK V : ps[i] \in Rows(V)
  BY <1>2, LedgerRows
<1>5. CASE ReadForRejection(r, u, i)
  <2> PICK q : q = [ps[i] EXCEPT !.status = Rejected]
    OBVIOUS
  <2>1. q \in Rows(V) /\ q.status # Pending
    BY <1>4 DEF Rows, Pending, Rejected
  <2>2. NoNewPending(ps, WithRow(ps, i, q))
    BY <1>2, <2>1, RowRewritten
  <2>3. WithRow(ps, i, q) = [ps EXCEPT ![i].status = Rejected]
    BY DEF WithRow
  <2>4. QED
    BY <1>3, <1>5, <2>2, <2>3 DEF ReadForRejection, WithProofs
<1>6. ASSUME NEW amount, ReadForApproval(r, u, i, amount) PROVE Begins(r)
  <2> PICK q : q = [ps[i] EXCEPT !.status = Approved, !.paid = amount]
    OBVIOUS
  <2>1. q \in Rows(V \union {amount}) /\ q.status # Pending
    BY <1>4 DEF Rows, Pending, Approved
  <2> PICK as : as = WithRow(ps, i, q)
    OBVIOUS
  <2>2. NoNewPending(ps, as)
    BY <1>2, <2>1, RowRewritten
  <2>3. as = [ps EXCEPT ![i] = [@ EXCEPT !.status = Approved, !.paid = amount]]
    BY DEF WithRow
  <2>4. NoNewPending(ps, Rebalanced(as, FeeOwed(Current(u))))
    <3>1. NoNewPending(as, Rebalanced(as, FeeOwed(Current(u))))
      BY <2>2, RebalancedKeeps DEF NoNewPending
    <3>2. QED
      BY <2>2, <3>1, NoNewPendingTransitive
  <2>5. QED
    BY <1>3, <1>6, <2>3, <2>4 DEF ReadForApproval, WithProofs
<1>7. QED
  BY <1>5, <1>6

LEMMA ReadsBegin ==
  ASSUME TypeOK, AllLedgers, NEW r \in Requests, NEW u \in Units,
         UnitReads(r, u) \/ AdminReads(r, u)
  PROVE  Begins(r)
BY StepBegins, MemberBegins, PaymentBegins, ReviewBegins DEF UnitReads, AdminReads

-----------------------------------------------------------------------------
(* Room.                                                                   *)

LEMMA RequestsCounted ==
  /\ Cardinality(Requests) \in Nat /\ Cardinality(Requests) >= 1
  /\ \A W \in SUBSET Requests :
       IsFiniteSet(W) /\ Cardinality(W) \in Nat /\ Cardinality(W) <= Cardinality(Requests)
<1>1. IsFiniteSet(Requests) /\ Cardinality(Requests) \in Nat
  BY RacesAssumption, FS_CardinalityType
<1>2. Cardinality(Requests) # 0
  BY <1>1, RacesAssumption, FS_EmptySet
<1>3. QED
  BY <1>1, <1>2, FS_Subset, FS_CardinalityType

LEMMA WaitingFinite ==
  ASSUME AllLedgers, NEW u \in Units, NEW y \in Years
  PROVE  IsFiniteSet(Waiting(u, y))
<1>1. Len(payments[u][y]) \in Nat
  BY LedgerRows DEF AllLedgers
<1>2. IsFiniteSet(1..Len(payments[u][y]))
  BY <1>1, FS_Interval
<1>3. QED
  BY <1>2, FS_Subset DEF Waiting

(* Steps that bring no proof and no upload.                                *)
LEMMA RoomStays ==
  ASSUME AllLedgers, NEW u \in Units, NEW y \in Years, Room(u, y), season' = season,
         Waiting(u, y)' \subseteq Waiting(u, y),
         y = season.year =>
           \A r \in Requests : Uploads(r, u)' => Uploads(r, u) /\ calls'[r].proofs = calls[r].proofs
  PROVE  Room(u, y)'
<1> SUFFICES ASSUME NEW W \in SUBSET Requests,
                    (y = season.year /\ \A r \in W : Uploads(r, u)') \/ W = {}
             PROVE  Cardinality(Left(u, y, W)') + Cardinality(W) <= Cardinality(Requests)
  BY DEF Room
<1>1. Cardinality(Left(u, y, W)) + Cardinality(W) <= Cardinality(Requests)
  BY DEF Room
<1>2. Left(u, y, W)' \subseteq Left(u, y, W)
  BY DEF Left, Supersedes
<1>3. IsFiniteSet(Left(u, y, W))
  BY WaitingFinite, FS_Subset DEF Left
<1>4. /\ Cardinality(Left(u, y, W)') \in Nat /\ Cardinality(Left(u, y, W)) \in Nat
      /\ Cardinality(Left(u, y, W)') <= Cardinality(Left(u, y, W))
  BY <1>2, <1>3, FS_Subset, FS_CardinalityType
<1>5. QED
  BY <1>1, <1>4, RequestsCounted

(* An upload that has read every waiting proof counts as one that          *)
(* supersedes them all.                                                    *)
LEMMA UploadLeavesRoom ==
  ASSUME TypeOK, AllLedgers, NEW r \in Requests, NEW w, Sound(w),
         calls = [q \in Requests |-> calls[q]], calls' = [calls EXCEPT ![r] = w],
         UNCHANGED pvars, NEW u \in Units, NEW y \in Years, Room(u, y)
  PROVE  Room(u, y)'
<1>1. Waiting(u, y)' = Waiting(u, y) /\ season' = season
  BY DEF Waiting, pvars, vars
<1>2. \A q \in Requests : calls'[q] = IF q = r THEN w ELSE calls[q]
  OBVIOUS
<1>3. CASE ~(w.kind = "upload" /\ w.unit = u)
  BY <1>1, <1>2, <1>3, RoomStays DEF Uploads
<1>4. CASE w.kind = "upload" /\ w.unit = u
  <2>1. Waiting(u, season.year) \subseteq Supersedes(w)
    BY <1>4, UploadSound, UploadSupersedes DEF Sound, FreshUpload
  <2>2. SUFFICES ASSUME NEW W \in SUBSET Requests,
                        (y = season.year /\ \A q \in W : Uploads(q, u)') \/ W = {}
                 PROVE  Cardinality(Left(u, y, W)') + Cardinality(W) <= Cardinality(Requests)
    BY <1>1 DEF Room
  <2>3. CASE r \in W
    <3>1. Left(u, y, W)' = {}
      BY <1>1, <1>2, <2>1, <2>2, <2>3 DEF Left
    <3>2. QED
      BY <3>1, FS_EmptySet, RequestsCounted
  <2>4. CASE r \notin W
    <3>1. \A q \in W : calls'[q] = calls[q]
      BY <1>2, <2>4
    <3>2. Left(u, y, W)' = Left(u, y, W)
      BY <1>1, <3>1 DEF Left
    <3>3. (y = season.year /\ \A q \in W : Uploads(q, u)) \/ W = {}
      BY <2>2, <3>1 DEF Uploads
    <3>4. QED
      BY <3>2, <3>3 DEF Room
  <2>5. QED
    BY <2>3, <2>4
<1>5. QED
  BY <1>3, <1>4

-----------------------------------------------------------------------------
(* The commit.                                                             *)

(* The rows after a commit of w.                                           *)
LEMMA CommitRows ==
  ASSUME TypeOK, AllLedgers, CallsOK, NEW r \in Requests, Commit(r),
         NEW w, w = calls[r]
  PROVE  /\ IsWrite(w) /\ Fits(w) /\ w.unit \in Units /\ season' = season
         /\ AllLedgers'
         /\ \A v \in Units, y \in Years :
              /\ payments'[v][y] = IF v = w.unit /\ y = season.year THEN Committed(w) ELSE payments[v][y]
              /\ cycle'[v][y] = IF v = w.unit /\ y = season.year THEN CycleAfter(w) ELSE cycle[v][y]
<1>1. IsWrite(w) /\ Fits(w) /\ w.unit \in Units /\ season.year \in Years
  BY DEF Commit, CallsOK, IsWrite, TypeOK
<1> PICK u, z, ps, c : u = w.unit /\ z = season.year /\ ps = Committed(w) /\ c = CycleAfter(w)
  OBVIOUS
<1>2. /\ payments' = [payments EXCEPT ![u][z] = ps]
      /\ cycle' = [cycle EXCEPT ![u][z] = c]
      /\ season' = season
  BY DEF Commit, SetRow
<1>3. \A v \in Units, y \in Years :
        /\ payments'[v][y] = IF v = u /\ y = z THEN ps ELSE payments[v][y]
        /\ cycle'[v][y] = IF v = u /\ y = z THEN c ELSE cycle[v][y]
  BY <1>1, <1>2 DEF AllLedgers, TypeOK
<1>4. IsLedger(ps)
  BY <1>1, CommittedLedger DEF AllLedgers, Proofs
<1>5. payments' = [v \in Units |-> [y \in Years |-> payments'[v][y]]]
  BY <1>1, <1>2 DEF AllLedgers
<1>6. AllLedgers'
  BY <1>3, <1>4, <1>5 DEF AllLedgers
<1>7. QED
  BY <1>1, <1>2, <1>3, <1>6

LEMMA CycleAfterRow ==
  ASSUME TypeOK, NEW w, IsWrite(w)
  PROVE  /\ CycleAfter(w) \in Cycle \union {Nil}
         /\ Current(w.unit) # Nil =>
              /\ CycleAfter(w) \in Cycle /\ CycleAfter(w) # Nil
              /\ CycleAfter(w).status = IF "status" \in DOMAIN w.row THEN w.row["status"]
                                        ELSE Current(w.unit).status
<1>1. w.unit \in Units /\ CyclePart(w.row) /\ season.year \in Years
  BY DEF IsWrite, TypeOK
<1>2. CASE Current(w.unit) = Nil
  BY <1>2 DEF CycleAfter
<1>3. CASE Current(w.unit) # Nil
  <2>1. Current(w.unit) \in Cycle
    BY <1>1, <1>3, CycleRow DEF Current
  <2>2. CycleAfter(w) = Onto(w.row, Current(w.unit))
    BY <1>3 DEF CycleAfter
  <2>3. QED
    BY <1>1, <2>1, <2>2, CycleOnto, RegistryAssumption
<1>4. QED
  BY <1>2, <1>3

LEMMA CommitType ==
  ASSUME TypeOK, AllLedgers, CallsOK, NEW r \in Requests, Commit(r)
  PROVE  TypeOK'
<1> PICK w : w = calls[r]
  OBVIOUS
<1>1. IsWrite(w) /\ w.unit \in Units /\ w.joins \in SUBSET Members /\ w.leaves \in SUBSET Members
  BY CommitRows DEF IsWrite
<1>2. CycleAfter(w) \in Cycle \union {Nil} /\ season.year \in Years
  BY <1>1, CycleAfterRow DEF TypeOK
<1>3. cycle' \in [Units -> [Years -> Cycle \union {Nil}]]
  <2> PICK u, z, c : u = w.unit /\ z = season.year /\ c = CycleAfter(w)
    OBVIOUS
  <2>1. cycle' = [cycle EXCEPT ![u][z] = c]
    BY DEF Commit, SetRow
  <2>2. QED
    BY <1>1, <1>2, <2>1 DEF TypeOK
<1>4. owner' \in [Members -> Units \union {Nil}]
  BY <1>1 DEF Commit, TypeOK
<1>5. council' \in [Units -> [Slots -> Members \union {Nil}]] /\ incomplete' \in SUBSET Members
  BY CouncilWithoutType DEF Commit, TypeOK
<1>6. QED
  BY <1>3, <1>4, <1>5 DEF Commit, TypeOK

NotAlone(w) == [w EXCEPT !.alone = FALSE]

(* What the others are about to write stays sound.                         *)
LEMMA OvertakenFits ==
  ASSUME NEW w, IsWrite(w), Fits(w), Current(w.unit) # Nil => (Current(w.unit) # Nil)',
         NEW x, x = NotAlone(w)
  PROVE  /\ IsWrite(x) /\ Fits(x)' /\ x # Rest
         /\ x.kind = w.kind /\ x.unit = w.unit /\ x.proofs = w.proofs
<1>1. /\ IsWrite(x) /\ x.kind = w.kind /\ x.unit = w.unit /\ x.row = w.row /\ x.files = w.files
      /\ x.proofs = w.proofs /\ ~x.alone
  BY DEF IsWrite, NotAlone
<1>2. Fits(x)'
  BY <1>1 DEF Fits
<1>3. x # Rest
  BY <1>1 DEF IsWrite, Rest
<1>4. QED
  BY <1>1, <1>2, <1>3

LEMMA CommitCalls ==
  ASSUME TypeOK, AllLedgers, CallsOK, NEW r \in Requests, Commit(r)
  PROVE  /\ CallsOK'
         /\ \A u : ~Uploads(r, u)'
         /\ \A q \in Requests : \A u : q # r /\ Uploads(q, u)' =>
              Uploads(q, u) /\ calls'[q].proofs = calls[q].proofs
<1> PICK w : w = calls[r]
  OBVIOUS
<1>1. /\ IsWrite(w) /\ Fits(w) /\ w.unit \in Units
      /\ calls' = Overtaken(r, Then(w))
  BY CommitRows DEF Commit
<1>2. ASSUME NEW u \in Units, Current(u) # Nil PROVE (Current(u) # Nil)'
  BY <1>1, <1>2, CommitRows, CycleAfterRow DEF Current, TypeOK
<1>3. Then(w) # Rest => IsWrite(Then(w)) /\ Fits(Then(w))'
  <2>1. ASSUME NEW kind \in {"to page", "to upload"}, Current(w.unit) # Nil,
               NEW x, x = Write(kind, w.unit)
        PROVE  IsWrite(x) /\ Fits(x)'
    BY <1>1, <1>2, <2>1, BareWrite DEF Fits
  <2>2. Then(w) # Rest =>
          Current(w.unit) # Nil /\ \E kind \in {"to page", "to upload"} : Then(w) = Write(kind, w.unit)
    BY <1>1 DEF Then, Fits
  <2> PICK x : x = Then(w)
    OBVIOUS
  <2>3. QED
    BY <2>1, <2>2 DEF Fits
<1>4. Then(w).kind # "upload"
  <2>1. Then(w) = Rest \/ \E kind \in {"to page", "to upload"} : Then(w) = Write(kind, w.unit)
    BY DEF Then
  <2>2. Rest.kind # "upload" /\ \A kind : Write(kind, w.unit).kind = kind
    BY <1>1, BareWrite DEF Rest
  <2>3. QED
    BY <2>1, <2>2
<1>5. ASSUME NEW q \in Requests, q # r
      PROVE  /\ calls'[q] # Rest => IsWrite(calls[q])' /\ Fits(calls[q])'
             /\ \A u : Uploads(q, u)' => Uploads(q, u) /\ calls'[q].proofs = calls[q].proofs
  <2>1. CASE calls[q] = Rest
    BY <1>1, <1>5, <2>1 DEF Overtaken, Uploads, Rest
  <2>2. CASE calls[q] # Rest
    <3>1. IsWrite(calls[q]) /\ Fits(calls[q]) /\ calls[q].unit \in Units
      BY <2>2 DEF CallsOK, IsWrite
    <3>2. calls'[q] = NotAlone(calls[q])
      BY <1>1, <1>5, <2>2 DEF Overtaken, NotAlone
    <3> PICK a, b : a = calls[q] /\ b = calls'[q]
      OBVIOUS
    <3>3. /\ IsWrite(b) /\ Fits(b)' /\ b # Rest
          /\ b.kind = a.kind /\ b.unit = a.unit /\ b.proofs = a.proofs
      BY <1>2, <3>1, <3>2, OvertakenFits
    <3>4. IsWrite(calls[q])' /\ Fits(calls[q])'
      BY <3>3 DEF Fits
    <3>5. QED
      BY <3>3, <3>4 DEF Uploads
  <2>3. QED
    BY <2>1, <2>2
<1>6. calls'[r] = Then(w) /\ calls' = [q \in Requests |-> calls'[q]]
  BY <1>1 DEF Overtaken
<1>a. calls'[r] # Rest => IsWrite(calls[r])' /\ Fits(calls[r])'
  BY <1>3, <1>6 DEF Fits
<1>7. CallsOK'
  BY <1>5, <1>6, <1>a DEF CallsOK
<1>8. QED
  BY <1>4, <1>5, <1>6, <1>7 DEF Uploads

(* The new proof takes the place its upload had.                           *)
LEMMA CommitLeavesRoom ==
  ASSUME RacesInv, NEW r \in Requests, Commit(r), NEW u \in Units, NEW y \in Years
  PROVE  Room(u, y)'
<1> PICK w, n : w = calls[r] /\ n = Len(Proofs(w.unit)) + 1
  OBVIOUS
<1>1. /\ IsWrite(w) /\ Fits(w) /\ w.unit \in Units /\ season' = season /\ season.year \in Years
      /\ AllLedgers' /\ Room(u, y)
      /\ payments'[u][y] = IF u = w.unit /\ y = season.year THEN Committed(w) ELSE payments[u][y]
  BY CommitRows DEF RacesInv, TypeOK
<1>2. /\ \A v : ~Uploads(r, v)'
      /\ \A q \in Requests : \A v : q # r /\ Uploads(q, v)' =>
           Uploads(q, v) /\ calls'[q].proofs = calls[q].proofs
  BY CommitCalls DEF RacesInv
<1>3. u = w.unit /\ y = season.year =>
        \A i \in Waiting(u, y)' :
          \/ i \in Waiting(u, y) /\ i \notin Supersedes(w)
          \/ w.files # Nil /\ i = n
  BY <1>1, CommittedLedger DEF Waiting, Proofs, AllLedgers, RacesInv
<1>4. CASE ~(u = w.unit /\ y = season.year)
  <2>1. Waiting(u, y)' = Waiting(u, y)
    BY <1>1, <1>4 DEF Waiting
  <2>2. \A q \in Requests : Uploads(q, u)' => Uploads(q, u) /\ calls'[q].proofs = calls[q].proofs
    BY <1>2
  <2>3. QED
    BY <1>1, <2>1, <2>2, RoomStays DEF RacesInv
<1>5. CASE u = w.unit /\ y = season.year /\ w.files = Nil
  <2>1. Waiting(u, y)' \subseteq Waiting(u, y)
    BY <1>3, <1>5
  <2>2. \A q \in Requests : Uploads(q, u)' => Uploads(q, u) /\ calls'[q].proofs = calls[q].proofs
    BY <1>2
  <2>3. QED
    BY <1>1, <2>1, <2>2, RoomStays DEF RacesInv
<1>6. CASE u = w.unit /\ y = season.year /\ w.files # Nil
  <2>1. Uploads(r, u)
    BY <1>1, <1>6 DEF Fits, Uploads
  <2>2. SUFFICES ASSUME NEW W \in SUBSET Requests,
                        (y = season.year /\ \A q \in W : Uploads(q, u)') \/ W = {}
                 PROVE  Cardinality(Left(u, y, W)') + Cardinality(W) <= Cardinality(Requests)
    BY <1>1 DEF Room
  <2> PICK X, A, B : X = W \union {r} /\ A = Left(u, y, X) /\ B = Left(u, y, W)'
    OBVIOUS
  <2>3. r \notin W /\ X \in SUBSET Requests
    BY <1>2, <2>2
  <2>4. Cardinality(A) + Cardinality(X) <= Cardinality(Requests)
    <3>1. \A q \in X : Uploads(q, u)
      BY <1>2, <2>1, <2>2, <2>3
    <3>2. QED
      BY <1>1, <1>6, <2>3, <3>1 DEF Room
  <2>5. IsFiniteSet(W) /\ Cardinality(X) = Cardinality(W) + 1
    BY <2>3, RequestsCounted, FS_AddElement
  <2>6. B \subseteq A \union {n}
    <3>1. SUFFICES ASSUME NEW i \in B, i # n PROVE i \in A
      OBVIOUS
    <3>2. i \in Waiting(u, y)' /\ \A q \in W : i \notin Supersedes(calls'[q])
      BY DEF Left
    <3>3. i \in Waiting(u, y) /\ i \notin Supersedes(calls[r])
      BY <1>3, <1>6, <3>1, <3>2
    <3>4. \A q \in W : calls'[q].proofs = calls[q].proofs
      BY <1>2, <2>2, <2>3
    <3>5. QED
      BY <3>2, <3>3, <3>4 DEF Left, Supersedes
  <2>7. IsFiniteSet(A)
    BY WaitingFinite, FS_Subset DEF Left, RacesInv
  <2>8. /\ IsFiniteSet(A \union {n}) /\ Cardinality(A) \in Nat
        /\ Cardinality(A \union {n}) = IF n \in A THEN Cardinality(A) ELSE Cardinality(A) + 1
    BY <2>7, FS_AddElement, FS_CardinalityType
  <2>9. Cardinality(B) \in Nat /\ Cardinality(B) <= Cardinality(A \union {n})
    BY <2>6, <2>8, FS_Subset, FS_CardinalityType
  <2>10. Cardinality(A \union {n}) \in Nat /\ Cardinality(W) \in Nat
    BY <2>8, RequestsCounted, FS_CardinalityType
  <2>11. Cardinality(B) + Cardinality(W) <= Cardinality(Requests)
    BY <2>4, <2>5, <2>8, <2>9, <2>10, RequestsCounted
  <2>12. QED
    BY <2>11
<1>7. QED
  BY <1>4, <1>5, <1>6

-----------------------------------------------------------------------------
(* The steps.                                                              *)

(* A request turns to a write of what it has read, and nothing else moves. *)
LEMMA TurnsKeep ==
  ASSUME RacesInv, NEW r \in Requests, NEW w, Sound(w),
         calls' = [calls EXCEPT ![r] = w], UNCHANGED pvars
  PROVE  RacesInv'
<1>1. TypeOK' /\ AllLedgers'
  BY DEF RacesInv, TypeOK, AllLedgers, pvars, vars
<1>2. CallsOK'
  <2>1. calls' = [q \in Requests |-> calls'[q]]
    BY DEF RacesInv, CallsOK
  <2>2. \A q \in Requests : calls'[q] = IF q = r THEN w ELSE calls[q]
    BY DEF RacesInv, CallsOK
  <2>3. \A x : Fits(x) => Fits(x)'
    BY DEF Fits, InProgress, Current, pvars, vars
  <2>4. ASSUME NEW q \in Requests, calls'[q] # Rest
        PROVE  IsWrite(calls[q])' /\ Fits(calls[q])'
    <3> PICK x : x = calls'[q]
      OBVIOUS
    <3>1. IsWrite(x) /\ Fits(x)
      BY <2>2, <2>4 DEF RacesInv, CallsOK, Sound
    <3>2. Fits(x)'
      BY <2>3, <3>1
    <3>3. QED
      BY <3>1, <3>2 DEF Fits
  <2>5. QED
    BY <2>1, <2>4 DEF CallsOK
<1>3. \A u \in Units, y \in Years : Room(u, y)'
  BY UploadLeavesRoom DEF RacesInv, CallsOK
<1>4. QED
  BY <1>1, <1>2, <1>3 DEF RacesInv

LEMMA AgainKeeps ==
  ASSUME RacesInv, NEW r \in Requests, ReadAgain(r)
  PROVE  RacesInv'
<1> PICK w, u : w = calls[r] /\ u = w.unit
  OBVIOUS
<1>1. /\ IsWrite(w) /\ Fits(w) /\ u \in Units /\ w.kind \in {"to page", "to upload"}
  BY DEF ReadAgain, RacesInv, CallsOK, IsWrite
<1>2. Current(u) # Nil
  BY <1>1 DEF Fits
<1>3. CASE w.kind = "to page"
  <2>1. calls' = [calls EXCEPT ![r] = PageOf(u)] /\ UNCHANGED pvars
    BY <1>3 DEF ReadAgain, RacesInv, CallsOK
  <2>2. Sound(PageOf(u))
    BY <1>1, PageSound DEF RacesInv
  <2>3. QED
    BY <2>1, <2>2, TurnsKeep
<1>4. CASE w.kind = "to upload"
  <2>1. MayUpload(u) /\ calls' = [calls EXCEPT ![r] = UploadOf(u)] /\ UNCHANGED pvars
    BY <1>4 DEF ReadAgain, RacesInv, CallsOK
  <2>2. Sound(UploadOf(u))
    BY <1>1, <1>2, <2>1, UploadSound DEF RacesInv
  <2>3. QED
    BY <2>1, <2>2, TurnsKeep
<1>5. QED
  BY <1>1, <1>3, <1>4

LEMMA FailKeeps ==
  ASSUME RacesInv, NEW r \in Requests, Fail(r)
  PROVE  RacesInv'
<1>1. TypeOK' /\ AllLedgers' /\ season' = season
  BY DEF Fail, RacesInv, TypeOK, AllLedgers, pvars, vars
<1>2. /\ calls' = [q \in Requests |-> calls'[q]]
      /\ \A q \in Requests : calls'[q] = IF q = r THEN Rest ELSE calls[q]
  BY DEF Fail, RacesInv, CallsOK
<1>3. \A x : Fits(x) => Fits(x)'
  BY DEF Fail, Fits, InProgress, Current, pvars, vars
<1>4. CallsOK'
  <2>1. ASSUME NEW q \in Requests, calls'[q] # Rest
        PROVE  IsWrite(calls[q])' /\ Fits(calls[q])'
    <3> PICK x : x = calls'[q]
      OBVIOUS
    <3>1. IsWrite(x) /\ Fits(x)
      BY <1>2, <2>1 DEF RacesInv, CallsOK
    <3>2. Fits(x)'
      BY <1>3, <3>1
    <3>3. QED
      BY <3>1, <3>2 DEF Fits
  <2>2. QED
    BY <1>2, <2>1 DEF CallsOK
<1>5. ASSUME NEW u \in Units, NEW y \in Years PROVE Room(u, y)'
  <2>1. Waiting(u, y)' = Waiting(u, y)
    BY DEF Waiting, Fail, pvars
  <2>2. \A q \in Requests : Uploads(q, u)' => Uploads(q, u) /\ calls'[q].proofs = calls[q].proofs
    BY <1>2 DEF Uploads, Rest
  <2>3. QED
    BY <1>1, <2>1, <2>2, RoomStays DEF RacesInv
<1>6. QED
  BY <1>1, <1>4, <1>5 DEF RacesInv

LEMMA EditKeeps ==
  ASSUME RacesInv, NEW u \in Units, EditCouncil(u)
  PROVE  RacesInv' /\ cycle' = cycle /\ season' = season
<1>1. TypeOK' /\ AllLedgers'
  BY NextType DEF EditCouncil, Next, RacesInv, AllLedgers
<1>2. cycle' = cycle /\ season' = season /\ payments' = payments
  BY DEF EditCouncil, CouncilorEdit, AddCouncilor, DeleteCouncilor, UpdateCouncilor, Reopened,
         ReopenCouncilors, RacesInv, TypeOK
<1>3. calls' = [q \in Requests |-> IF calls[q] = Rest THEN Rest ELSE NotAlone(calls[q])]
  BY DEF EditCouncil, NotAlone
<1>4. ASSUME NEW q \in Requests
      PROVE  /\ calls'[q] # Rest => IsWrite(calls[q])' /\ Fits(calls[q])'
             /\ \A v : Uploads(q, v)' => Uploads(q, v) /\ calls'[q].proofs = calls[q].proofs
  <2>1. CASE calls[q] = Rest
    BY <1>3, <2>1 DEF Uploads, Rest
  <2>2. CASE calls[q] # Rest
    <3> PICK a, b : a = calls[q] /\ b = calls'[q]
      OBVIOUS
    <3>1. IsWrite(a) /\ Fits(a) /\ b = NotAlone(a)
      BY <1>3, <2>2 DEF RacesInv, CallsOK
    <3>2. Current(a.unit) # Nil => (Current(a.unit) # Nil)'
      BY <1>2 DEF Current
    <3>3. /\ IsWrite(b) /\ Fits(b)' /\ b # Rest
          /\ b.kind = a.kind /\ b.unit = a.unit /\ b.proofs = a.proofs
      BY <3>1, <3>2, OvertakenFits
    <3>4. IsWrite(calls[q])' /\ Fits(calls[q])'
      BY <3>3 DEF Fits
    <3>5. QED
      BY <3>3, <3>4 DEF Uploads
  <2>3. QED
    BY <2>1, <2>2
<1>5. CallsOK'
  BY <1>3, <1>4 DEF CallsOK
<1>6. ASSUME NEW v \in Units, NEW y \in Years PROVE Room(v, y)'
  <2>1. Waiting(v, y)' = Waiting(v, y)
    BY <1>2 DEF Waiting
  <2>2. QED
    BY <1>2, <1>4, <2>1, RoomStays DEF RacesInv
<1>7. QED
  BY <1>1, <1>2, <1>5, <1>6 DEF RacesInv

LEMMA FitsStays ==
  ASSUME NEW w, Fits(w), \A v : Current(v)' = Current(v) /\ InProgress(v)' = InProgress(v)
  PROVE  Fits(w)'
BY Zenon DEF Fits

LEMMA CallsStay == CallsOK /\ UNCHANGED <<calls, cycle, season>> => CallsOK'
<1>1. CASE CallsOK /\ UNCHANGED <<calls, cycle, season>>
  <2>1. \A v : Current(v)' = Current(v) /\ InProgress(v)' = InProgress(v)
    BY <1>1 DEF InProgress, Current
  <2>2. ASSUME NEW q \in Requests, calls'[q] # Rest
        PROVE  IsWrite(calls[q])' /\ Fits(calls[q])'
    <3> PICK a, b : a = calls[q] /\ b = calls'[q]
      OBVIOUS
    <3>1. IsWrite(a) /\ Fits(a) /\ b = a
      BY <1>1, <2>2 DEF CallsOK
    <3>2. Fits(b)'
      BY <2>1, <3>1, FitsStays
    <3>3. QED
      BY <3>1, <3>2, Zenon DEF Fits
  <2>3. QED
    BY <1>1, <2>2 DEF CallsOK
<1>2. QED
  BY <1>1

LEMMA StutterKeeps ==
  ASSUME RacesInv, UNCHANGED xvars
  PROVE  RacesInv'
<1>1. CallsOK'
  BY CallsStay DEF RacesInv, xvars, pvars, vars
<1>2. TypeOK'
  BY DEF RacesInv, TypeOK, xvars, pvars, vars
<1>3. AllLedgers'
  BY DEF RacesInv, AllLedgers, xvars, pvars, vars
<1>4. ASSUME NEW u \in Units, NEW y \in Years PROVE Room(u, y)'
  <2>1. Waiting(u, y)' = Waiting(u, y)
    BY DEF Waiting, xvars, pvars, vars
  <2>2. \A q \in Requests : Uploads(q, u)' => Uploads(q, u) /\ calls'[q].proofs = calls[q].proofs
    BY DEF Uploads, xvars
  <2>3. season' = season
    BY DEF xvars, pvars, vars
  <2>4. QED
    BY <2>1, <2>2, <2>3, RoomStays DEF RacesInv
<1>5. QED
  BY <1>1, <1>2, <1>3, <1>4 DEF RacesInv

LEMMA RacesStep == RacesInv /\ [RacesNext]_xvars => RacesInv'
<1> SUFFICES ASSUME RacesInv, [RacesNext]_xvars PROVE RacesInv'
  OBVIOUS
<1>1. ASSUME NEW r \in Requests, NEW u \in Units, UnitReads(r, u) \/ AdminReads(r, u)
      PROVE  RacesInv'
  <2>1. PICK w : Sound(w) /\ Reads(r, w)
    BY <1>1, ReadsBegin DEF Begins, RacesInv
  <2>2. QED
    BY <2>1, TurnsKeep DEF Reads
<1>2. ASSUME NEW r \in Requests, Commit(r) PROVE RacesInv'
  BY <1>2, CommitType, CommitRows, CommitCalls, CommitLeavesRoom DEF RacesInv
<1>3. QED
  BY <1>1, <1>2, StutterKeeps, AgainKeeps, FailKeeps, EditKeeps DEF RacesNext

-----------------------------------------------------------------------------
(* Theorems.                                                               *)

LEMMA RacesStart == RacesInit => RacesInv
<1> SUFFICES ASSUME RacesInit PROVE RacesInv
  OBVIOUS
<1>1. TypeOK /\ LedgerInv
  BY InitType, LegacyLedgers DEF RacesInit, PaymentsInit
<1>2. AllLedgers
  BY <1>1 DEF LedgerInv, AllLedgers
<1>3. CallsOK
  BY DEF RacesInit, CallsOK
<1>4. ASSUME NEW u \in Units, NEW y \in Years PROVE Room(u, y)
  <2> SUFFICES ASSUME NEW W \in SUBSET Requests, (\A r \in W : Uploads(r, u)) \/ W = {}
               PROVE  Cardinality(Left(u, y, W)) + Cardinality(W) <= Cardinality(Requests)
    BY DEF Room
  <2>1. W = {} /\ Cardinality(W) = 0
    BY FS_EmptySet DEF RacesInit, Uploads, Rest
  <2>2. \E i : Left(u, y, W) \subseteq {i}
    <3>1. \A i, j \in Left(u, y, W) : i = j
      BY <1>1 DEF LedgerInv, OneWaits, Left, Waiting
    <3>2. QED
      BY <3>1
  <2>3. Cardinality(Left(u, y, W)) \in Nat /\ Cardinality(Left(u, y, W)) <= 1
    <3>1. PICK i : Left(u, y, W) \subseteq {i}
      BY <2>2
    <3>2. IsFiniteSet({i}) /\ Cardinality({i}) = 1
      BY FS_Singleton
    <3>3. QED
      BY <3>1, <3>2, FS_Subset, FS_CardinalityType
  <2>4. QED
    BY <2>1, <2>3, RequestsCounted
<1>5. QED
  BY <1>1, <1>2, <1>3, <1>4 DEF RacesInv

(* Rows keep their types when columns computed from other rows are put     *)
(* over them: no commit leaves a cycle, a member or a councilor that no    *)
(* request alone could have left.                                          *)
THEOREM RacesTypeCorrect == RacesSpec => []TypeOK
<1>1. RacesInv => TypeOK
  BY DEF RacesInv
<1>2. QED
  BY <1>1, RacesStart, RacesStep, PTL DEF RacesSpec

(* However many requests of however many units are served at the same     *)
(* time, a cycle has no more proofs waiting than there are requests: an    *)
(* upload that commits late leaves the proofs it had not read waiting, and *)
(* no schedule of late commits adds up to more (submit_payment_proof).     *)
THEOREM FewProofsWait == RacesSpec => []FewWait
<1>1. ASSUME RacesInv, NEW u \in Units, NEW y \in Years
      PROVE  Cardinality(Waiting(u, y)) <= Cardinality(Requests)
  <2>1. Left(u, y, {}) = Waiting(u, y)
    BY DEF Left
  <2>2. Cardinality(Waiting(u, y)) + Cardinality({}) <= Cardinality(Requests)
    BY <1>1, <2>1 DEF RacesInv, Room
  <2>3. Cardinality({}) = 0 /\ Cardinality(Waiting(u, y)) \in Nat
    BY <1>1, WaitingFinite, FS_EmptySet, FS_CardinalityType DEF RacesInv
  <2>4. QED
    BY <2>2, <2>3, RequestsCounted
<1>2. RacesInv => FewWait
  BY <1>1 DEF FewWait
<1>3. QED
  BY <1>2, RacesStart, RacesStep, PTL DEF RacesSpec

(* Only a commit writes the season's cycle.                                *)
LEMMA CycleByCommit ==
  ASSUME RacesInv, RacesNext, NEW u \in Units, Current(u)' # Current(u)
  PROVE  \E r \in Requests : Commit(r)
<1> SUFFICES ASSUME \A r \in Requests : ~Commit(r) PROVE FALSE
  OBVIOUS
<1>1. ASSUME NEW r \in Requests, NEW v \in Units, UnitReads(r, v) \/ AdminReads(r, v)
      PROVE  UNCHANGED pvars
  BY <1>1, ReadsBegin DEF Begins, RacesInv, Reads
<1>2. ASSUME NEW r \in Requests, ReadAgain(r) \/ Fail(r)
      PROVE  UNCHANGED pvars
  BY <1>2 DEF ReadAgain, Fail
<1>3. UNCHANGED pvars \/ \E v \in Units : EditCouncil(v)
  BY <1>1, <1>2 DEF RacesNext
<1>4. cycle' = cycle /\ season' = season
  BY <1>3, EditKeeps DEF pvars, vars
<1>5. QED
  BY <1>4 DEF Current

LEMMA TakenBackByOlderStep ==
  ASSUME RacesInv, RacesNext, NEW u \in Units, Current(u) # Nil, Settled(Current(u)),
         Current(u).status' \notin {Current(u).status, Completed}
  PROVE  \E r \in Requests :
           calls[r] # Rest /\ ~calls[r].alone /\ calls[r].kind \in {"steps", "declares"} /\ Commit(r)
<1>1. PICK r \in Requests : Commit(r)
  BY CycleByCommit
<1>2. PICK w : w = calls[r]
  OBVIOUS
<1>3. IsWrite(w) /\ Fits(w)
  BY <1>1, <1>2, CommitRows DEF RacesInv
<1>4. u = w.unit /\ Current(u)' = CycleAfter(w)
  BY <1>1, <1>2, CommitRows DEF RacesInv, TypeOK, Current
<1>5. "status" \in DOMAIN w.row /\ CycleAfter(w).status = w.row["status"]
  BY <1>3, <1>4, CycleAfterRow DEF RacesInv
<1>6. w.kind \in {"steps", "declares"}
  BY <1>3, <1>4, <1>5, Zenon DEF Fits
<1>7. ~w.alone
  <2>1. ~InProgress(w.unit)
    BY <1>4 DEF InProgress, Settled
  <2>2. QED
    BY <1>3, <1>6, <2>1, Zenon DEF Fits
<1>8. calls[r] # Rest
  BY <1>1 DEF Commit
<1>9. QED
  BY <1>1, <1>2, <1>6, <1>7, <1>8

(* Among any number of requests, a declaration or a completion is lost to  *)
(* one cause only: a wizard step that read the cycle while it was in       *)
(* progress and was overtaken (update_cycle_status, submit_declaration).   *)
THEOREM OlderStepsTakeBack == RacesSpec => TakenBackOnlyByOlderStep
<1>1. RacesInv /\ [RacesNext]_xvars
      => [\A u \in Units :
            (/\ Current(u) # Nil
             /\ Settled(Current(u))
             /\ Current(u).status' \notin {Current(u).status, Completed})
            => \E r \in Requests :
                 /\ calls[r] # Rest /\ ~calls[r].alone
                 /\ calls[r].kind \in {"steps", "declares"}
                 /\ Commit(r)]_xvars
  BY TakenBackByOlderStep
<1>2. QED
  BY <1>1, RacesStart, RacesStep, PTL DEF RacesSpec, TakenBackOnlyByOlderStep

-----------------------------------------------------------------------------
(* What a request puts over rows nobody changed since it read them.        *)

LEMMA ProofRowByColumns ==
  /\ \A p \in Proof : DOMAIN p = ProofColumns
  /\ \A f : /\ f = [k \in ProofColumns |-> f[k]]
            /\ f["status"] \in {Pending, Approved, Rejected} /\ f["total"] \in Nat
            /\ f["balance"] \in Nat \union {Nil} /\ f["paid"] \in Nat \union {Nil}
            /\ f["late"] \in BOOLEAN
            => f \in Proof
<1>1. \A p \in Proof : DOMAIN p = ProofColumns
  BY DEF Proof, ProofColumns
<1>2. ASSUME NEW f, f = [k \in ProofColumns |-> f[k]],
             f["status"] \in {Pending, Approved, Rejected}, f["total"] \in Nat,
             f["balance"] \in Nat \union {Nil}, f["paid"] \in Nat \union {Nil},
             f["late"] \in BOOLEAN
      PROVE  f \in Proof
  BY <1>2 DEF Proof, ProofColumns
<1>3. QED
  BY <1>1, <1>2

(* Its own columns make of a row what it has computed ...                  *)
LEMMA OwnProof ==
  ASSUME NEW p \in Proof, NEW q \in Proof
  PROVE  Onto(Changed(p, q), p) = q
<1>1. DOMAIN p = ProofColumns /\ DOMAIN q = ProofColumns /\ q = [k \in DOMAIN q |-> q[k]]
  BY ProofRowByColumns DEF Proof
<1>2. Onto(Changed(p, q), p) = [k \in ProofColumns |-> q[k]]
  BY <1>1 DEF Onto, Changed
<1>3. QED
  BY <1>1, <1>2

LEMMA OwnCycle ==
  ASSUME NEW c \in Cycle, NEW e \in Cycle
  PROVE  Onto(Changed(c, e), c) = e
<1>1. DOMAIN c = CycleColumns /\ DOMAIN e = CycleColumns /\ e = [k \in DOMAIN e |-> e[k]]
  BY CycleByColumns DEF Cycle
<1>2. Onto(Changed(c, e), c) = [k \in CycleColumns |-> e[k]]
  BY <1>1 DEF Onto, Changed
<1>3. QED
  BY <1>1, <1>2

LEMMA NoColumns ==
  ASSUME NEW c \in Cycle
  PROVE  Onto(<<>>, c) = c
<1>1. DOMAIN c = CycleColumns /\ c = [k \in DOMAIN c |-> c[k]]
  BY CycleByColumns DEF Cycle
<1>2. Onto(<<>>, c) = [k \in CycleColumns |-> c[k]]
  BY <1>1 DEF Onto, CycleColumns
<1>3. QED
  BY <1>1, <1>2

(* ... and those of an older row leave at least a row.                     *)
LEMMA OlderProof ==
  ASSUME NEW p \in Proof, NEW a \in Proof, NEW q \in Proof
  PROVE  Onto(Changed(a, q), p) \in Proof
<1> DEFINE f == Onto(Changed(a, q), p)
<1>1. DOMAIN p = ProofColumns /\ DOMAIN a = ProofColumns
  BY ProofRowByColumns
<1>2. f = [k \in ProofColumns |-> f[k]] /\ \A k \in ProofColumns : f[k] \in {p[k], q[k]}
  BY <1>1 DEF Onto, Changed
<1> HIDE DEF f
<1>3. /\ f["status"] \in {p["status"], q["status"]} /\ f["total"] \in {p["total"], q["total"]}
      /\ f["balance"] \in {p["balance"], q["balance"]} /\ f["paid"] \in {p["paid"], q["paid"]}
      /\ f["late"] \in {p["late"], q["late"]}
  BY <1>2 DEF ProofColumns
<1>4. /\ f["status"] \in {Pending, Approved, Rejected} /\ f["total"] \in Nat
      /\ f["balance"] \in Nat \union {Nil} /\ f["paid"] \in Nat \union {Nil}
      /\ f["late"] \in BOOLEAN
  BY <1>3 DEF Proof
<1>5. QED
  BY <1>2, <1>4, ProofRowByColumns DEF f

LEMMA ReviewedAt ==
  ASSUME NEW p \in Proof, NEW done \in BOOLEAN, NEW q, q = [p EXCEPT !.late = done]
  PROVE  /\ q \in Proof /\ q.paid = p.paid /\ q.balance = p.balance
         /\ IsApproved(q) <=> IsApproved(p)
BY DEF Proof, IsApproved

(* The proofs a request has something to write of are rows it has read and *)
(* computed.                                                               *)
TypedProofs(w) ==
  \A i \in DOMAIN w.proofs : \E p, q \in Proof : w.proofs[i] = Changed(p, q)

LEMMA MergedTyped ==
  ASSUME NEW w, TypedProofs(w), NEW ps \in Seq(Proof), NEW done \in BOOLEAN
  PROVE  Merged(w, ps, done) \in Seq(Proof) /\ Len(Merged(w, ps, done)) = Len(ps)
<1> DEFINE qs == Merged(w, ps, done)
<1>1. ASSUME NEW i \in 1..Len(ps) PROVE qs[i] \in Proof
  <2> DEFINE p == IF i \in DOMAIN w.proofs THEN Onto(w.proofs[i], ps[i]) ELSE ps[i]
  <2>1. ps[i] \in Proof
    OBVIOUS
  <2>2. p \in Proof
    BY <2>1, OlderProof DEF TypedProofs
  <2>3. qs[i] = IF i \in w.reviews THEN [p EXCEPT !.late = done] ELSE p
    BY DEF Merged
  <2> HIDE DEF p, qs
  <2>4. QED
    BY <2>2, <2>3, ReviewedAt
<1>2. qs = [i \in 1..Len(ps) |-> qs[i]] /\ Len(ps) \in Nat
  BY DEF Merged
<1> HIDE DEF qs
<1>3. QED
  BY <1>1, <1>2 DEF qs

LEMMA ProofsAreLedger ==
  ASSUME NEW ps \in Seq(Proof)
  PROVE  IsLedger(ps)
<1>1. PICK V : Proof \subseteq Rows(V)
  BY ProofIsRow
<1>2. ps \in Seq(Rows(V))
  BY <1>1
<1>3. QED
  BY <1>2 DEF IsLedger

(* What is computed from the proofs as they are, qs, is what they become,  *)
(* but for the time of the review.                                         *)
Writes(w, ps, qs) ==
  w.proofs = ChangedProofs(ps, qs) \/ (w.proofs = <<>> /\ qs = ps)

LEMMA MergedOwn ==
  ASSUME NEW w, NEW ps \in Seq(Proof), NEW qs \in Seq(Proof), Len(qs) = Len(ps),
         Writes(w, ps, qs), NEW done \in BOOLEAN
  PROVE  LET ms == Merged(w, ps, done) IN
         TypedProofs(w) /\ Continues(qs, ms) /\ SameBalances(qs, ms)
<1> DEFINE ms == Merged(w, ps, done)
<1>1. ASSUME NEW i \in 1..Len(ps)
      PROVE  /\ ps[i] \in Proof /\ qs[i] \in Proof
             /\ i \in DOMAIN w.proofs => w.proofs[i] = Changed(ps[i], qs[i])
             /\ i \notin DOMAIN w.proofs => qs[i] = ps[i]
  BY DEF Writes, ChangedProofs
<1>2. TypedProofs(w)
  <2>1. DOMAIN w.proofs \subseteq 1..Len(ps)
    BY DEF Writes, ChangedProofs
  <2>2. QED
    BY <1>1, <2>1 DEF TypedProofs
<1>3. ASSUME NEW i \in 1..Len(qs)
      PROVE  /\ ms[i] \in Proof /\ (IsApproved(ms[i]) <=> IsApproved(qs[i]))
             /\ ms[i].paid = qs[i].paid /\ ms[i].balance = qs[i].balance
  <2> DEFINE p == IF i \in DOMAIN w.proofs THEN Onto(w.proofs[i], ps[i]) ELSE ps[i]
  <2>1. p = qs[i] /\ qs[i] \in Proof
    BY <1>1, OwnProof
  <2>2. ms[i] = IF i \in w.reviews THEN [p EXCEPT !.late = done] ELSE p
    BY DEF Merged
  <2> HIDE DEF p, ms
  <2>3. QED
    BY <2>1, <2>2, ReviewedAt
<1>4. ms = [i \in 1..Len(qs) |-> ms[i]]
  BY DEF Merged
<1> HIDE DEF ms
<1>5. Continues(qs, ms) /\ SameBalances(qs, ms)
  BY <1>3, <1>4, RowsContinue
<1>6. QED
  BY <1>2, <1>5 DEF ms

(* The cycle it has computed, e, and the proofs become the ones there are. *)
Computed(w, e, qs) ==
  LET c == Current(w.unit)  ps == Proofs(w.unit) IN
  /\ w.unit \in Units
  /\ c \in Cycle /\ e \in Cycle
  /\ w.row = Changed(c, e) \/ (w.row = <<>> /\ e = c)
  /\ ps \in Seq(Proof) /\ qs \in Seq(Proof) /\ Len(qs) = Len(ps)
  /\ Writes(w, ps, qs)
  /\ w.files \in Nat \union {Nil}

LEMMA CommittedOwn ==
  ASSUME NEW w, NEW e, NEW qs, Computed(w, e, qs)
  PROVE  /\ TypedProofs(w) /\ CycleAfter(w) = e
         /\ Continues(qs, Committed(w)) /\ SameBalances(qs, Committed(w))
<1> DEFINE c  == Current(w.unit)
           ps == Proofs(w.unit)
           ms == Merged(w, ps, c.completed)
<1>1. c \in Cycle /\ c # Nil /\ c.completed \in BOOLEAN /\ qs \in Seq(Proof)
  BY RegistryAssumption DEF Computed, Cycle
<1>2. CycleAfter(w) = e
  BY <1>1, OwnCycle, NoColumns DEF Computed, CycleAfter
<1>3. TypedProofs(w) /\ Continues(qs, ms) /\ SameBalances(qs, ms)
  BY <1>1, MergedOwn DEF Computed
<1>4. Committed(w) = IF w.kind = "completes" THEN NoneLate(ms)
                     ELSE IF w.files = Nil THEN ms ELSE Append(ms, NewProof(w.files))
  BY DEF Committed
<1>5. w.files \in Nat \union {Nil}
  BY DEF Computed
<1> HIDE DEF ms
<1>6. ms \in Seq(Proof)
  BY <1>3 DEF Continues
<1>7. /\ Continues(ms, Committed(w)) /\ SameBalances(ms, Committed(w))
  <2>1. CASE w.kind = "completes"
    BY <1>4, <1>6, <2>1, NoneLateContinues
  <2>2. CASE w.kind # "completes" /\ w.files = Nil
    BY <1>4, <1>6, <2>2, ContinuesReflexive
  <2>3. CASE w.kind # "completes" /\ w.files # Nil
    BY <1>4, <1>5, <1>6, <2>3, UploadContinues
  <2>4. QED
    BY <2>1, <2>2, <2>3
<1>8. QED
  BY <1>1, <1>2, <1>3, <1>7, ContinuesTransitive

(* What the commit of a request would do to the books, were it now.        *)
Lands(w) ==
  LET u == w.unit IN
  (/\ Current(u) # Nil /\ Settled(Current(u)) /\ Snapshot(Current(u))
   /\ Recorded(Proofs(u)))
  => /\ Exact(Current(u), Proofs(u)) =>
          \/ Exact(CycleAfter(w), Committed(w))
          \/ \E i \in 1..Len(Proofs(u)) :
               IsApproved(Proofs(u)[i]) /\ ~IsApproved(Committed(w)[i])
     /\ w.kind = "page" => Exact(CycleAfter(w), Committed(w))
     /\ w.kind \in {"then page", "then upload"} =>
          w.joins = {} /\ w.leaves = {} /\ CycleAfter(w).count = RosterSize(u)

(* A balance that was right for what was computed is right when it is      *)
(* committed.                                                              *)
LEMMA OwnExact ==
  ASSUME NEW w, NEW e, NEW qs, Computed(w, e, qs), Recorded(qs), Exact(e, qs)
  PROVE  Exact(CycleAfter(w), Committed(w))
<1>1. FeeOwed(e) \in Nat /\ qs \in Seq(Proof)
  BY DEF Computed, FeeOwed, Cycle
<1>2. QED
  BY <1>1, CommittedOwn, ContinuesExact

(* The other kinds: approvals and balances stay, or the last balance is    *)
(* computed anew.                                                          *)
LEMMA KeepingLands ==
  ASSUME NEW w, NEW e, NEW qs, Computed(w, e, qs),
         w.kind \notin {"page", "then page", "then upload"},
         Continues(Proofs(w.unit), qs),
         \/ /\ SameBalances(Proofs(w.unit), qs)
            /\ Snapshot(Current(w.unit)) => FeeOwed(e) = FeeOwed(Current(w.unit))
         \/ Recorded(Proofs(w.unit)) => Exact(e, qs)
  PROVE  Lands(w)
<1> DEFINE c  == Current(w.unit)
           ps == Proofs(w.unit)
<1>1. SUFFICES ASSUME Snapshot(c), Recorded(ps), Exact(c, ps)
               PROVE  Exact(CycleAfter(w), Committed(w))
  BY DEF Lands
<1>2. ps \in Seq(Proof) /\ FeeOwed(c) \in Nat
  BY DEF Computed, FeeOwed, Cycle
<1>3. Recorded(qs)
  BY <1>1, <1>2, ContinuesRecorded
<1>4. Exact(e, qs)
  BY <1>1, <1>2, ContinuesExact
<1>5. QED
  BY <1>3, <1>4, OwnExact

Good(w) ==
  /\ TypedProofs(w)
  /\ w.kind = "upload" => Current(w.unit) # Nil
  /\ w.alone => Lands(w)

LedgersTyped ==
  /\ \A u \in Units, y \in Years : payments[u][y] \in Seq(Proof)
  /\ \A u \in Units : Proofs(u) # <<>> => Current(u) # Nil

LEMMA TypedHere ==
  ASSUME TypeOK, LedgersTyped, NEW u \in Units
  PROVE  /\ Proofs(u) \in Seq(Proof)
         /\ Current(u) # Nil =>
              Current(u) \in Cycle /\ FeeOwed(Current(u)) \in Nat /\ Current(u).completed \in BOOLEAN
<1>1. season.year \in Years
  BY DEF TypeOK
<1>2. Current(u) # Nil => Current(u) \in Cycle
  BY <1>1, CycleRow DEF Current
<1>3. QED
  BY <1>1, <1>2 DEF LedgersTyped, Proofs, FeeOwed, Cycle

LEMMA PageIs ==
  ASSUME NEW u, NEW w, w = PageOf(u)
  PROVE  /\ w.kind = "page" /\ w.unit = u /\ w.row = <<>> /\ w.files = Nil
         /\ w.proofs = ChangedProofs(Proofs(u), Rebalanced(Proofs(u), FeeOwed(Current(u))))
<1> PICK d : d = ChangedProofs(Proofs(u), Rebalanced(Proofs(u), FeeOwed(Current(u))))
  OBVIOUS
<1>1. w = [Write("page", u) EXCEPT !.proofs = d]
  BY DEF PageOf
<1>2. QED
  BY <1>1 DEF Write

LEMMA PageGood ==
  ASSUME TypeOK, LedgersTyped, NEW u \in Units, Current(u) # Nil
  PROVE  Good(PageOf(u))
<1> PICK w, c, ps, qs : /\ w = PageOf(u) /\ c = Current(u) /\ ps = Proofs(u)
                        /\ qs = Rebalanced(ps, FeeOwed(c))
  OBVIOUS
<1>1. ps \in Seq(Proof) /\ c \in Cycle /\ FeeOwed(c) \in Nat
  BY TypedHere
<1>2. Continues(ps, qs) /\ (Recorded(ps) => Exact(c, qs))
  BY <1>1, RebalancedContinues
<1>3. qs \in Seq(Proof) /\ Len(qs) = Len(ps)
  BY <1>1, <1>2 DEF Continues, Rebalanced
<1>4. /\ w.kind = "page" /\ w.unit = u /\ w.row = <<>> /\ w.files = Nil
      /\ w.proofs = ChangedProofs(ps, qs)
  BY PageIs
<1>5. Computed(w, c, qs)
  BY <1>1, <1>3, <1>4 DEF Computed, Writes
<1>6. Lands(w)
  <2>1. ASSUME Recorded(ps) PROVE Exact(CycleAfter(w), Committed(w))
    BY <1>1, <1>2, <1>5, <2>1, ContinuesRecorded, OwnExact
  <2>2. QED
    BY <1>4, <2>1 DEF Lands
<1>7. QED
  BY <1>4, <1>5, <1>6, CommittedOwn DEF Good

LEMMA UploadIs ==
  ASSUME NEW u, NEW w, w = UploadOf(u)
  PROVE  /\ w.kind = "upload" /\ w.unit = u /\ w.row = <<>>
         /\ w.files = IF Current(u).fee # Nil THEN Current(u).fee ELSE RegistrationFee(RosterSize(u))
         /\ w.proofs = ChangedProofs(Proofs(u),
                         Superseded(Proofs(u), Current(u).fee, Current(u).completed))
<1> PICK kept, d, t, f :
      /\ kept = Superseded(Proofs(u), Current(u).fee, Current(u).completed)
      /\ d = ChangedProofs(Proofs(u), kept) /\ t = Turns(Proofs(u), kept)
      /\ f = IF Current(u).fee # Nil THEN Current(u).fee ELSE RegistrationFee(RosterSize(u))
  OBVIOUS
<1>1. w = [Write("upload", u) EXCEPT !.proofs = d, !.reviews = t, !.files = f]
  BY DEF UploadOf
<1>2. QED
  BY <1>1 DEF Write

LEMMA UploadGood ==
  ASSUME TypeOK, LedgersTyped, NEW u \in Units, Current(u) # Nil
  PROVE  Good(UploadOf(u))
<1> PICK w, c, ps, qs : /\ w = UploadOf(u) /\ c = Current(u) /\ ps = Proofs(u)
                        /\ qs = Superseded(ps, c.fee, c.completed)
  OBVIOUS
<1>1. ps \in Seq(Proof) /\ c \in Cycle /\ FeeOwed(c) \in Nat /\ c.completed \in BOOLEAN
  BY TypedHere
<1>2. Continues(ps, qs) /\ SameBalances(ps, qs)
  BY <1>1, SupersededContinues
<1>3. qs \in Seq(Proof) /\ Len(qs) = Len(ps)
  BY <1>1, <1>2 DEF Continues, Superseded
<1>4. w.files \in Nat
  BY <1>1, UploadIs, RosterCounted DEF Cycle
<1>5. /\ w.kind = "upload" /\ w.unit = u /\ w.row = <<>>
      /\ w.proofs = ChangedProofs(ps, qs)
  BY UploadIs
<1>6. Computed(w, c, qs)
  BY <1>1, <1>3, <1>4, <1>5 DEF Computed, Writes
<1>7. Lands(w)
  BY <1>2, <1>6, <1>5, KeepingLands
<1>8. QED
  BY <1>5, <1>6, <1>7, CommittedOwn DEF Good

(* A request that writes no column.                                        *)
Bare(w) ==
  /\ w.kind \notin {"page", "upload", "then page", "then upload"} /\ w.unit \in Units
  /\ w.row = <<>> /\ w.proofs = <<>> /\ w.files = Nil

(* ... leaves the books as they are.                                       *)
LEMMA BareGood ==
  ASSUME TypeOK, LedgersTyped, NEW w, Bare(w)
  PROVE  Good(w)
<1> PICK c, ps : c = Current(w.unit) /\ ps = Proofs(w.unit)
  OBVIOUS
<1>1. TypedProofs(w)
  <2> PICK d : d = w.proofs
    OBVIOUS
  <2>0. d = <<>>
    BY Zenon DEF Bare
  <2>1. d \in Seq({}) /\ Len(d) = 0
    BY <2>0
  <2>2. DOMAIN d = {}
    BY <2>1
  <2>3. QED
    BY <2>2 DEF TypedProofs
<1>2. ASSUME c # Nil PROVE Lands(w)
  <2>1. c \in Cycle /\ ps \in Seq(Proof)
    BY <1>2, TypedHere DEF Bare
  <2>2. Computed(w, c, ps)
    BY <2>1 DEF Computed, Bare, Writes
  <2>3. QED
    BY <2>1, <2>2, ContinuesReflexive, KeepingLands DEF Bare
<1>3. Lands(w)
  BY <1>2 DEF Lands
<1>4. QED
  BY <1>1, <1>3 DEF Good, Bare

LEMMA AdjustedAmounts ==
  ASSUME NEW n \in Nat, NEW fee \in Nat, NEW delta \in Int
  PROVE  /\ AdjustedFee(fee, delta) \in Nat
         /\ \A k \in Nat : delta = k - n => AdjustedCount(n, delta) = k
<1>1. delta * MemberFee \in Int
  BY FeesAssumption
<1>2. AdjustedFee(fee, delta) \in Nat
  BY <1>1, FeesAssumption DEF AdjustedFee, AtLeast
<1>3. ASSUME NEW k \in Nat, delta = k - n PROVE AdjustedCount(n, delta) = k
  BY <1>3 DEF AdjustedCount, AtLeast
<1>4. QED
  BY <1>2, <1>3

(* An adjustment computes the last balance from the new fee.               *)
LEMMA AdjustmentRows ==
  ASSUME TypeOK, LedgersTyped, NEW u \in Units, NEW delta \in Int, Adjustable(u, delta)
  PROVE  /\ Current(u) \in Cycle /\ AdjustedCycle(u, delta) \in Cycle
         /\ Proofs(u) \in Seq(Proof)
         /\ Continues(Proofs(u), AdjustedProofs(u, delta))
         /\ Len(AdjustedProofs(u, delta)) = Len(Proofs(u))
         /\ Recorded(Proofs(u)) => Exact(AdjustedCycle(u, delta), AdjustedProofs(u, delta))
         /\ Snapshot(Current(u)) =>
              AdjustedCycle(u, delta).count = AdjustedCount(Current(u).count, delta)
<1> PICK c, e, ps, qs : /\ c = Current(u) /\ e = AdjustedCycle(u, delta)
                        /\ ps = Proofs(u) /\ qs = AdjustedProofs(u, delta)
  OBVIOUS
<1>1. c \in Cycle /\ ps \in Seq(Proof) /\ c.completed \in BOOLEAN
  BY TypedHere DEF Adjustable
<1>2. e \in Cycle
  BY <1>1, AdjustedRow
<1>3. e.fee \in Nat /\ (Snapshot(c) => e.count = AdjustedCount(c.count, delta))
  <2>1. CASE Snapshot(c)
    <3>1. c.count \in Nat /\ c.fee \in Nat
      BY <1>1, <2>1 DEF Snapshot, Cycle
    <3>2. e.fee = AdjustedFee(c.fee, delta) /\ e.count = AdjustedCount(c.count, delta)
      BY <1>1, <2>1 DEF AdjustedCycle, Cycle
    <3>3. AdjustedFee(c.fee, delta) \in Nat
      BY <3>1, AdjustedAmounts
    <3>4. QED
      BY <3>2, <3>3
  <2>2. CASE ~Snapshot(c)
    <3>1. e.fee = RegistrationFee(RosterSize(u))
      BY <1>1, <2>2 DEF AdjustedCycle, Cycle
    <3>2. QED
      BY <2>2, <3>1, RosterCounted
  <2>3. QED
    BY <2>1, <2>2
<1>4. FeeOwed(e) = e.fee
  BY <1>3, FeesAssumption DEF FeeOwed
<1> PICK owed, done : owed = e.fee /\ done = c.completed
  OBVIOUS
<1>5. qs = FeeAdjusted(ps, owed, delta, done)
  BY DEF AdjustedProofs, Proofs
<1>6. owed \in Nat /\ done \in BOOLEAN
  BY <1>1, <1>3
<1>7. Continues(ps, qs) /\ (Recorded(ps) => Exact(e, qs))
  BY <1>1, <1>4, <1>5, <1>6, FeeAdjustedContinues
<1>8. Len(qs) = Len(ps)
  <2>1. NoNewPending(ps, qs)
    BY <1>1, <1>5, ProofsAreLedger, FeeAdjustedKeeps
  <2>2. QED
    BY <2>1 DEF NoNewPending
<1>9. QED
  BY <1>1, <1>2, <1>3, <1>7, <1>8

LEMMA AdjustsIs ==
  ASSUME NEW w, IsWrite(w), NEW delta, Adjustable(w.unit, delta), NEW x, x = Adjusts(w, delta)
  PROVE  /\ x.kind = w.kind /\ x.unit = w.unit /\ x.files = w.files
         /\ x.joins = w.joins /\ x.leaves = w.leaves
         /\ x.row = Changed(Current(w.unit), AdjustedCycle(w.unit, delta))
         /\ x.proofs = ChangedProofs(Proofs(w.unit), AdjustedProofs(w.unit, delta))
<1> PICK d, t, g : /\ d = Changed(Current(w.unit), AdjustedCycle(w.unit, delta))
                   /\ t = ChangedProofs(Proofs(w.unit), AdjustedProofs(w.unit, delta))
                   /\ g = Turns(Proofs(w.unit), AdjustedProofs(w.unit, delta))
  OBVIOUS
<1>1. x = [w EXCEPT !.row = d, !.proofs = t, !.reviews = g]
  BY DEF Adjusts
<1>2. QED
  BY <1>1 DEF IsWrite

LEMMA AdjustedGood ==
  ASSUME TypeOK, LedgersTyped, NEW w, IsWrite(w), NEW delta \in Int, Adjustable(w.unit, delta),
         w.files = Nil, w.kind \notin {"page", "upload"},
         w.kind \in {"then page", "then upload"} =>
           delta = Drift(w.unit, season.year) /\ w.joins = {} /\ w.leaves = {}
  PROVE  Good(Adjusts(w, delta))
<1> PICK u, c, e, ps, qs, x :
      /\ u = w.unit /\ c = Current(u) /\ e = AdjustedCycle(u, delta)
      /\ ps = Proofs(u) /\ qs = AdjustedProofs(u, delta) /\ x = Adjusts(w, delta)
  OBVIOUS
<1>1. u \in Units /\ Adjustable(u, delta)
  BY DEF IsWrite
<1>2. /\ c \in Cycle /\ e \in Cycle /\ ps \in Seq(Proof)
      /\ Continues(ps, qs) /\ Len(qs) = Len(ps)
      /\ Recorded(ps) => Exact(e, qs)
      /\ Snapshot(c) => e.count = AdjustedCount(c.count, delta)
  BY <1>1, AdjustmentRows
<1>3. /\ x.kind = w.kind /\ x.unit = u /\ x.files = Nil
      /\ x.joins = w.joins /\ x.leaves = w.leaves
      /\ x.row = Changed(c, e) /\ x.proofs = ChangedProofs(ps, qs)
  BY AdjustsIs
<1>4. Computed(x, e, qs)
  BY <1>1, <1>2, <1>3 DEF Computed, Writes, Continues
<1>5. Lands(x)
  <2>1. CASE x.kind \notin {"then page", "then upload"}
    BY <1>2, <1>3, <1>4, <2>1, KeepingLands
  <2>2. CASE x.kind \in {"then page", "then upload"}
    <3>1. ASSUME Recorded(ps) PROVE Exact(CycleAfter(x), Committed(x))
      BY <1>2, <1>4, <3>1, ContinuesRecorded, OwnExact
    <3>2. ASSUME Snapshot(c), Settled(c) PROVE CycleAfter(x).count = RosterSize(u)
      <4>1. c.count \in Nat /\ c.count # Nil /\ c.fee \in Nat
        BY <1>2, <3>2 DEF Snapshot, Cycle
      <4>2. delta = RosterSize(u) - c.count
        BY <1>3, <2>2, <3>2, <4>1 DEF Drift, Current
      <4>3. AdjustedCount(c.count, delta) = RosterSize(u)
        BY <4>1, <4>2, RosterCounted, AdjustedAmounts
      <4>4. QED
        BY <1>2, <1>4, <3>2, <4>3, CommittedOwn
    <3>3. QED
      BY <1>3, <2>2, <3>1, <3>2 DEF Lands
  <2>3. QED
    BY <2>1, <2>2
<1>6. QED
  BY <1>3, <1>4, <1>5, CommittedOwn DEF Good

-----------------------------------------------------------------------------
(* The reads.                                                              *)

GoodBegins(r) == \E w : Good(w) /\ Reads(r, w)

LEMMA NoProofs ==
  ASSUME NEW w, w.proofs = <<>>
  PROVE  TypedProofs(w)
<1> PICK d : d = w.proofs
  OBVIOUS
<1>1. d \in Seq({}) /\ Len(d) = 0
  OBVIOUS
<1>2. DOMAIN d = {}
  BY <1>1
<1>3. QED
  BY <1>2 DEF TypedProofs

LEMMA StepGood ==
  ASSUME NEW r \in Requests, NEW u \in Units, ReadForStep(r, u) \/ ReadForDeclaration(r, u)
  PROVE  GoodBegins(r)
<1>1. ASSUME NEW kind \in {"steps", "declares"}, NEW d, InProgress(u),
             NEW w, w = [Write(kind, u) EXCEPT !.row = d]
      PROVE  Good(w)
  <2>1. w.kind = kind /\ w.unit = u /\ w.proofs = <<>>
    BY <1>1 DEF Write
  <2>2. Current(u) # Nil => ~Settled(Current(u))
    BY <1>1 DEF InProgress, Settled
  <2>3. QED
    BY <2>1, <2>2, NoProofs DEF Good, Lands
<1>2. InProgress(u) /\ \E kind \in {"steps", "declares"} : \E d :
        Reads(r, [Write(kind, u) EXCEPT !.row = d])
  BY DEF ReadForStep, ReadForDeclaration
<1>3. QED
  BY <1>1, <1>2 DEF GoodBegins

LEMMA CompletionGood ==
  ASSUME TypeOK, LedgersTyped, NEW r \in Requests, NEW u \in Units, ReadForCompletion(r, u)
  PROVE  GoodBegins(r)
<1> PICK c, e, d, ps, w : /\ c = Current(u) /\ e = CompletedCycle(u, c)
                          /\ d = Changed(c, e) /\ ps = Proofs(u)
                          /\ w = [Write("completes", u) EXCEPT !.row = d]
  OBVIOUS
<1>1. Reads(r, w) /\ c # Nil
  BY DEF ReadForCompletion, AdminCompletable
<1>2. /\ w.kind = "completes" /\ w.unit = u /\ w.row = d /\ w.proofs = <<>> /\ w.files = Nil
  BY DEF Write
<1>3. c \in Cycle /\ ps \in Seq(Proof)
  BY <1>1, TypedHere
<1>4. e \in Cycle
  BY <1>3, CompletedRow
<1>5. Snapshot(c) => FeeOwed(e) = FeeOwed(c)
  <2>1. e.fee = SubmittedFee(u, c)
    BY <1>3 DEF CompletedCycle, Cycle
  <2>2. QED
    BY <2>1 DEF Snapshot, FeeOwed, SubmittedFee
<1>6. Computed(w, e, ps)
  BY <1>2, <1>3, <1>4 DEF Computed, Writes
<1>7. Lands(w)
  BY <1>2, <1>3, <1>5, <1>6, ContinuesReflexive, KeepingLands
<1>8. QED
  BY <1>1, <1>2, <1>7, NoProofs DEF GoodBegins, Good

LEMMA PaymentGood ==
  ASSUME TypeOK, LedgersTyped, NEW r \in Requests, NEW u \in Units,
         ReadForPage(r, u) \/ ReadForUpload(r, u)
  PROVE  GoodBegins(r)
<1>1. Current(u) # Nil
  BY DEF ReadForPage, ReadForUpload
<1>2. Drift(u, season.year) \in Int
  <2>1. Current(u) \in Cycle
    BY <1>1, TypedHere
  <2>2. QED
    BY <2>1, RosterCounted DEF Drift, Current, Cycle
<1>3. ASSUME NEW kind \in {"then page", "then upload"}, Reconciling(u)
      PROVE  Good(Reconciles(u, kind))
  <2> PICK w, delta : w = Write(kind, u) /\ delta = Drift(u, season.year)
    OBVIOUS
  <2>1. /\ IsWrite(w) /\ w.kind = kind /\ w.unit = u /\ w.files = Nil
        /\ w.joins = {} /\ w.leaves = {}
    BY <1>3, BareWrite DEF Write
  <2>2. delta \in Int
    BY <1>2
  <2>3. Adjustable(u, delta) /\ Reconciles(u, kind) = Adjusts(w, delta)
    BY <1>3 DEF Reconciling, Reconciles
  <2>4. QED
    BY <2>1, <2>2, <2>3, AdjustedGood
<1>4. QED
  BY <1>1, <1>3, PageGood, UploadGood DEF ReadForPage, ReadForUpload, GoodBegins

LEMMA RosterGood ==
  ASSUME TypeOK, LedgersTyped, NEW r \in Requests, NEW u \in Units, NEW m \in Members,
         ReadForMember(r, u, m) \/ ReadForAddition(r, u, m) \/ ReadForRemoval(r, u, m)
  PROVE  GoodBegins(r)
<1>1. ASSUME NEW kind \in {"wizard", "admin"}, NEW w,
             \/ w = [Write(kind, u) EXCEPT !.joins = {m}]
             \/ w = [Write(kind, u) EXCEPT !.leaves = {m}]
      PROVE  Good(w) /\ Good(Adjusts(w, 1)) /\ Good(Adjusts(w, -1))
  <2>1. IsWrite(w) /\ w.kind = kind /\ w.unit = u /\ w.files = Nil /\ w.row = <<>> /\ w.proofs = <<>>
    BY <1>1 DEF Write, IsWrite, CyclePart
  <2>2. Good(w)
    BY <2>1, BareGood DEF Bare
  <2>3. ASSUME NEW delta \in Int PROVE Good(Adjusts(w, delta))
    <3>1. CASE Adjustable(w.unit, delta)
      BY <2>1, <3>1, AdjustedGood
    <3>2. CASE ~Adjustable(w.unit, delta)
      BY <2>2, <3>2 DEF Adjusts
    <3>3. QED
      BY <3>1, <3>2
  <2>4. QED
    BY <2>2, <2>3
<1>2. \E kind \in {"wizard", "admin"} : \E w :
        /\ \/ w = [Write(kind, u) EXCEPT !.joins = {m}]
           \/ w = [Write(kind, u) EXCEPT !.leaves = {m}]
        /\ Reads(r, w) \/ Reads(r, Adjusts(w, 1)) \/ Reads(r, Adjusts(w, -1))
  BY DEF ReadForMember, ReadForAddition, ReadForRemoval
<1>3. QED
  BY <1>1, <1>2 DEF GoodBegins

LEMMA RowPut ==
  ASSUME NEW ps \in Seq(Proof), NEW i \in 1..Len(ps), NEW p \in Proof
  PROVE  LET rs == [ps EXCEPT ![i] = p] IN
         /\ rs \in Seq(Proof) /\ Len(rs) = Len(ps)
         /\ \A j \in 1..Len(ps) : rs[j] = IF j = i THEN p ELSE ps[j]
OBVIOUS

(* The rows a review has read.                                             *)
LEMMA Reviewed ==
  ASSUME TypeOK, LedgersTyped, NEW u \in Units, NEW i \in 1..Len(Proofs(u))
  PROVE  /\ Current(u) \in Cycle /\ FeeOwed(Current(u)) \in Nat
         /\ Proofs(u) \in Seq(Proof) /\ Proofs(u)[i] \in Proof
         /\ OwedFor(Current(u), Proofs(u)[i]) \in Nat
<1>1. Proofs(u) \in Seq(Proof)
  BY TypedHere
<1>2. Proofs(u)[i] \in Proof /\ Proofs(u) # <<>>
  BY <1>1
<1>3. Current(u) \in Cycle /\ FeeOwed(Current(u)) \in Nat
  BY <1>2, TypedHere DEF LedgersTyped
<1>4. OwedFor(Current(u), Proofs(u)[i]) \in Nat
  <2> PICK c, p : c = Current(u) /\ p = Proofs(u)[i]
    OBVIOUS
  <2>1. OwedFor(c, p) \in Nat
    BY <1>2, <1>3 DEF OwedFor, Cycle, Proof
  <2>2. QED
    BY <2>1
<1>5. QED
  BY <1>1, <1>2, <1>3, <1>4

LEMMA ApprovalGood ==
  ASSUME TypeOK, LedgersTyped, NEW r \in Requests, NEW u \in Units, NEW i \in 1..Len(Proofs(u)),
         NEW amount \in 0..OwedFor(Current(u), Proofs(u)[i]), ReadForApproval(r, u, i, amount)
  PROVE  GoodBegins(r)
<1> PICK c, ps : c = Current(u) /\ ps = Proofs(u)
  OBVIOUS
<1>1. /\ c \in Cycle /\ FeeOwed(c) \in Nat /\ ps \in Seq(Proof)
  BY Reviewed
<1>2. i \in 1..Len(ps) /\ ps[i] \in Proof /\ amount \in Nat
  BY Reviewed
<1> PICK p : p = [ps[i] EXCEPT !.status = Approved, !.paid = amount]
  OBVIOUS
<1>3. p \in Proof /\ IsApproved(p) /\ p.paid = amount
  BY <1>2 DEF Proof, IsApproved, Approved
<1> PICK rs : rs = [ps EXCEPT ![i] = p]
  OBVIOUS
<1>4. /\ rs \in Seq(Proof) /\ Len(rs) = Len(ps)
      /\ \A j \in 1..Len(ps) : rs[j] = IF j = i THEN p ELSE ps[j]
  BY <1>1, <1>2, <1>3, RowPut
<1> PICK qs, d : qs = Rebalanced(rs, FeeOwed(c)) /\ d = ChangedProofs(ps, qs)
  OBVIOUS
<1> PICK w : w = [Write("reviews", u) EXCEPT !.proofs = d, !.reviews = {i}]
  OBVIOUS
<1>5. Continues(rs, qs) /\ (Recorded(rs) => Exact(c, qs))
  BY <1>1, <1>4, RebalancedContinues
<1>6. qs \in Seq(Proof) /\ Len(qs) = Len(ps)
  <2>1. NoNewPending(rs, qs)
    BY <1>4, ProofsAreLedger, RebalancedKeeps
  <2>2. QED
    BY <1>4, <1>5, <2>1 DEF Continues, NoNewPending
<1>7. Reads(r, w)
  BY DEF ReadForApproval
<1>8. /\ w.kind = "reviews" /\ w.unit = u /\ w.row = <<>>
      /\ w.proofs = ChangedProofs(ps, qs) /\ w.files = Nil
  BY DEF Write
<1>9. Computed(w, c, qs)
  BY <1>1, <1>6, <1>8 DEF Computed, Writes
<1>10. Recorded(ps) => Recorded(rs)
  BY <1>3, <1>2, <1>4, FeesAssumption DEF Recorded
<1>11. ASSUME Recorded(ps) PROVE Exact(CycleAfter(w), Committed(w))
  BY <1>4, <1>5, <1>9, <1>10, <1>11, ContinuesRecorded, OwnExact
<1>12. Lands(w)
  BY <1>8, <1>11 DEF Lands
<1>13. QED
  BY <1>7, <1>8, <1>9, <1>12, CommittedOwn DEF GoodBegins, Good

LEMMA RejectionGood ==
  ASSUME TypeOK, LedgersTyped, NEW r \in Requests, NEW u \in Units, NEW i \in 1..Len(Proofs(u)),
         ReadForRejection(r, u, i)
  PROVE  GoodBegins(r)
<1> PICK c, ps : c = Current(u) /\ ps = Proofs(u)
  OBVIOUS
<1>1. c \in Cycle /\ ps \in Seq(Proof)
  BY Reviewed
<1>2. i \in 1..Len(ps) /\ ps[i] \in Proof
  BY Reviewed
<1> PICK p : p = [ps[i] EXCEPT !.status = Rejected]
  OBVIOUS
<1> PICK qs, d : qs = [ps EXCEPT ![i] = p] /\ d = ChangedProofs(ps, qs)
  OBVIOUS
<1> PICK w : w = [Write("reviews", u) EXCEPT !.proofs = d, !.reviews = {i}]
  OBVIOUS
<1>3. p \in Proof /\ ~IsApproved(p) /\ p.paid = ps[i].paid
  BY <1>2 DEF Proof, IsApproved, Approved, Rejected
<1>4. qs \in Seq(Proof) /\ Len(qs) = Len(ps) /\ qs[i] = p
  BY <1>1, <1>2, <1>3, RowPut
<1>5. qs = [ps EXCEPT ![i].status = Rejected]
  OBVIOUS
<1>6. Reads(r, w)
  BY <1>5 DEF ReadForRejection
<1>7. /\ w.kind = "reviews" /\ w.unit = u /\ w.row = <<>>
      /\ w.proofs = ChangedProofs(ps, qs) /\ w.files = Nil
  BY DEF Write
<1>8. Computed(w, c, qs)
  BY <1>1, <1>4, <1>7 DEF Computed, Writes
<1>9. Lands(w)
  <2>1. CASE IsApproved(ps[i])
    <3>1. i \in 1..Len(qs) /\ ~IsApproved(qs[i])
      BY <1>2, <1>3, <1>4
    <3>2. Continues(qs, Committed(w))
      BY <1>8, CommittedOwn
    <3>3. ~IsApproved(Committed(w)[i])
      BY <3>1, <3>2 DEF Continues
    <3>4. QED
      BY <1>7, <2>1, <3>3 DEF Lands
  <2>2. CASE ~IsApproved(ps[i])
    <3>1. Continues(ps, qs) /\ SameBalances(ps, qs)
      BY <1>1, <1>3, <2>2, RowContinues
    <3>2. QED
      BY <1>7, <1>8, <3>1, KeepingLands
  <2>3. QED
    BY <2>1, <2>2
<1>10. QED
  BY <1>6, <1>7, <1>8, <1>9, CommittedOwn DEF GoodBegins, Good

LEMMA ReadsGood ==
  ASSUME TypeOK, LedgersTyped, NEW r \in Requests, NEW u \in Units,
         UnitReads(r, u) \/ AdminReads(r, u)
  PROVE  GoodBegins(r)
BY StepGood, CompletionGood, PaymentGood, RosterGood, ApprovalGood, RejectionGood
DEF UnitReads, AdminReads

-----------------------------------------------------------------------------
(* What was read stays right until another commits.                        *)

CallsGood == \A r \in Requests : \A w : w = calls[r] /\ w # Rest => Good(w)

AloneInv == RacesInv /\ LedgersTyped /\ CallsGood

LEMMA BareGoodNext ==
  (TypeOK /\ LedgersTyped => \A w : Bare(w) => Good(w))'
<1>1. TypeOK /\ LedgersTyped => \A w : Bare(w) => Good(w)
  BY BareGood
<1>2. QED
  BY <1>1, PTL

LEMMA GoodStays ==
  ASSUME UNCHANGED <<cycle, season, payments, owner>>, NEW w, Good(w)
  PROVE  Good(w)'
<1>1. \A u : Current(u)' = Current(u) /\ Proofs(u)' = Proofs(u) /\ RosterSize(u)' = RosterSize(u)
  BY DEF Current, Proofs, RosterSize, Roster
<1>2. CycleAfter(w)' = CycleAfter(w) /\ Committed(w)' = Committed(w)
  BY <1>1 DEF CycleAfter, Committed
<1>3. w.alone => Lands(w)'
  BY <1>1, <1>2 DEF Good, Lands
<1>4. QED
  BY <1>1, <1>3 DEF Good, TypedProofs

LEMMA OvertakenGood ==
  ASSUME NEW w, IsWrite(w), Good(w), Current(w.unit) # Nil => (Current(w.unit) # Nil)',
         NEW x, x = NotAlone(w)
  PROVE  Good(x)'
<1>1. x.kind = w.kind /\ x.unit = w.unit /\ x.proofs = w.proofs /\ ~x.alone
  BY DEF IsWrite, NotAlone
<1>2. QED
  BY <1>1 DEF Good, TypedProofs

(* A request turns to a write that lands.                                  *)
LEMMA TurnsGood ==
  ASSUME AloneInv, NEW r \in Requests, NEW w, w = Rest \/ Good(w),
         calls' = [calls EXCEPT ![r] = w], UNCHANGED <<cycle, season, payments, owner>>
  PROVE  LedgersTyped' /\ CallsGood'
<1>1. LedgersTyped'
  BY DEF AloneInv, LedgersTyped, Proofs, Current
<1>2. ASSUME NEW q \in Requests, NEW x, x = calls'[q], x # Rest PROVE Good(x)'
  <2>1. x = IF q = r THEN w ELSE calls[q]
    BY <1>2 DEF AloneInv, RacesInv, CallsOK
  <2>2. Good(x)
    BY <1>2, <2>1 DEF AloneInv, CallsGood
  <2>3. QED
    BY <2>2, GoodStays
<1>3. QED
  BY <1>1, <1>2 DEF CallsGood

LEMMA NewRowsTyped ==
  ASSUME TypeOK, LedgersTyped, NEW w, IsWrite(w), Fits(w), Good(w)
  PROVE  /\ Committed(w) \in Seq(Proof)
         /\ Committed(w) # <<>> => Current(w.unit) # Nil
<1> PICK c, ps, ms : /\ c = Current(w.unit) /\ ps = Proofs(w.unit)
                     /\ ms = Merged(w, ps, c.completed)
  OBVIOUS
<1>1. w.unit \in Units /\ w.files \in Nat \union {Nil} /\ ps \in Seq(Proof)
  BY TypedHere DEF IsWrite
<1>2. Committed(w) = IF w.kind = "completes" THEN NoneLate(ms)
                     ELSE IF w.files = Nil THEN ms ELSE Append(ms, NewProof(w.files))
  BY DEF Committed
<1>3. CASE c # Nil
  <2>1. c.completed \in BOOLEAN
    BY <1>1, <1>3, TypedHere
  <2>2. ms \in Seq(Proof)
    BY <1>1, <2>1, MergedTyped DEF Good
  <2>3. w.files # Nil => Append(ms, NewProof(w.files)) \in Seq(Proof)
    BY <1>1, <2>2, UploadContinues DEF Continues
  <2>4. NoneLate(ms) \in Seq(Proof)
    BY <2>2, NoneLateContinues DEF Continues
  <2>5. QED
    BY <1>2, <1>3, <2>2, <2>3, <2>4
<1>4. CASE c = Nil
  <2>1. ps = <<>>
    BY <1>1, <1>4 DEF LedgersTyped
  <2>2. w.files = Nil
    BY <1>4 DEF Good, Fits
  <2>3. ms = <<>>
    BY <2>1 DEF Merged
  <2>4. NoneLate(ms) = <<>>
    BY <2>3 DEF NoneLate
  <2>5. Committed(w) = <<>>
    BY <1>2, <2>2, <2>3, <2>4, Zenon
  <2>6. <<>> \in Seq(Proof)
    OBVIOUS
  <2>7. QED
    BY <2>5, <2>6
<1>5. QED
  BY <1>3, <1>4

LEMMA CommitGood ==
  ASSUME AloneInv, NEW r \in Requests, Commit(r)
  PROVE  LedgersTyped' /\ CallsGood'
<1> PICK w : w = calls[r]
  OBVIOUS
<1>1. /\ IsWrite(w) /\ Fits(w) /\ w.unit \in Units /\ season' = season
      /\ \A v \in Units, y \in Years :
           /\ payments'[v][y] = IF v = w.unit /\ y = season.year THEN Committed(w) ELSE payments[v][y]
           /\ cycle'[v][y] = IF v = w.unit /\ y = season.year THEN CycleAfter(w) ELSE cycle[v][y]
  BY CommitRows DEF AloneInv, RacesInv
<1>2. Good(w) /\ w # Rest /\ calls' = Overtaken(r, Then(w))
  BY DEF Commit, AloneInv, CallsGood
<1>3. season.year \in Years /\ TypeOK /\ TypeOK'
  BY CommitType DEF AloneInv, RacesInv, TypeOK
<1>4. \A u \in Units : Current(u) # Nil => (Current(u) # Nil)'
  BY <1>1, <1>3, CycleAfterRow DEF Current
<1>5. Committed(w) \in Seq(Proof) /\ (Committed(w) # <<>> => Current(w.unit) # Nil)
  BY <1>1, <1>2, <1>3, NewRowsTyped DEF AloneInv
<1>6. LedgersTyped'
  <2>1. ASSUME NEW v \in Units, NEW y \in Years PROVE payments'[v][y] \in Seq(Proof)
    BY <1>1, <1>5 DEF AloneInv, LedgersTyped
  <2>2. ASSUME NEW v \in Units, Proofs(v)' # <<>> PROVE (Current(v) # Nil)'
    <3>1. CASE v = w.unit
      BY <1>1, <1>3, <1>4, <1>5, <2>2, <3>1 DEF Proofs
    <3>2. CASE v # w.unit
      BY <1>1, <1>3, <1>4, <2>2, <3>2 DEF Proofs, AloneInv, LedgersTyped
    <3>3. QED
      BY <3>1, <3>2
  <2>3. QED
    BY <2>1, <2>2 DEF LedgersTyped
<1>7. ASSUME NEW q \in Requests, NEW x, x = calls'[q], x # Rest PROVE Good(x)'
  <2>1. CASE q = r
    <3>1. \E kind \in {"to page", "to upload"} : x = Write(kind, w.unit)
      BY <1>2, <1>7, <2>1 DEF Overtaken, Then
    <3> PICK kind \in {"to page", "to upload"}, u \in Units : u = w.unit /\ x = Write(kind, u)
      BY <1>1, <3>1
    <3>2. Bare(x)
      BY DEF Bare, Write
    <3>3. QED
      BY <1>3, <1>6, <3>2, BareGoodNext
  <2>2. CASE q # r
    <3> PICK a : a = calls[q]
      OBVIOUS
    <3>1. a # Rest /\ x = NotAlone(a)
      BY <1>2, <1>7, <2>2 DEF Overtaken, NotAlone
    <3>2. IsWrite(a) /\ Good(a) /\ a.unit \in Units
      BY <3>1 DEF AloneInv, RacesInv, CallsOK, CallsGood, IsWrite
    <3>3. QED
      BY <1>4, <3>1, <3>2, OvertakenGood
  <2>3. QED
    BY <2>1, <2>2
<1>8. QED
  BY <1>6, <1>7 DEF CallsGood

LEMMA EditGood ==
  ASSUME AloneInv, NEW u \in Units, EditCouncil(u)
  PROVE  LedgersTyped' /\ CallsGood'
<1>1. cycle' = cycle /\ season' = season /\ payments' = payments
  BY EditKeeps DEF AloneInv, EditCouncil
<1>2. LedgersTyped'
  BY <1>1 DEF AloneInv, LedgersTyped, Proofs, Current
<1>3. ASSUME NEW q \in Requests, NEW x, x = calls'[q], x # Rest PROVE Good(x)'
  <2> PICK a : a = calls[q]
    OBVIOUS
  <2>1. a # Rest /\ x = NotAlone(a)
    BY <1>3 DEF EditCouncil, NotAlone
  <2>2. IsWrite(a) /\ Good(a) /\ a.unit \in Units
    BY <2>1 DEF AloneInv, RacesInv, CallsOK, CallsGood, IsWrite
  <2>3. Current(a.unit) # Nil => (Current(a.unit) # Nil)'
    BY <1>1 DEF Current
  <2>4. QED
    BY <2>1, <2>2, <2>3, OvertakenGood
<1>4. QED
  BY <1>2, <1>3 DEF CallsGood

LEMMA AgainGood ==
  ASSUME AloneInv, NEW r \in Requests, ReadAgain(r)
  PROVE  LedgersTyped' /\ CallsGood'
<1> PICK w, u : w = calls[r] /\ u = w.unit
  OBVIOUS
<1>1. IsWrite(w) /\ Fits(w) /\ u \in Units /\ w.kind \in {"to page", "to upload"}
  BY DEF ReadAgain, AloneInv, RacesInv, CallsOK, IsWrite
<1>2. Current(u) # Nil
  BY <1>1 DEF Fits
<1>3. \E x \in {PageOf(u), UploadOf(u)} : calls' = [calls EXCEPT ![r] = x]
  BY DEF ReadAgain, AloneInv, RacesInv, CallsOK
<1>4. UNCHANGED <<cycle, season, payments, owner>>
  BY DEF ReadAgain, pvars, vars
<1>5. Good(PageOf(u)) /\ Good(UploadOf(u))
  BY <1>1, <1>2, PageGood, UploadGood DEF AloneInv, RacesInv
<1>6. PICK x : Good(x) /\ calls' = [calls EXCEPT ![r] = x]
  BY <1>3, <1>5
<1>7. QED
  BY <1>4, <1>6, TurnsGood

LEMMA AloneStep == AloneInv /\ [RacesNext]_xvars => AloneInv'
<1> SUFFICES ASSUME AloneInv, [RacesNext]_xvars PROVE LedgersTyped' /\ CallsGood'
  BY RacesStep DEF AloneInv
<1>1. ASSUME NEW r \in Requests, NEW u \in Units, UnitReads(r, u) \/ AdminReads(r, u)
      PROVE  LedgersTyped' /\ CallsGood'
  <2>1. PICK w : Good(w) /\ Reads(r, w)
    BY <1>1, ReadsGood DEF GoodBegins, AloneInv, RacesInv
  <2>2. calls' = [calls EXCEPT ![r] = w] /\ UNCHANGED <<cycle, season, payments, owner>>
    BY <2>1 DEF Reads, pvars, vars
  <2>3. QED
    BY <2>1, <2>2, TurnsGood
<1>2. ASSUME NEW r \in Requests, Fail(r) PROVE LedgersTyped' /\ CallsGood'
  <2>1. calls' = [calls EXCEPT ![r] = Rest] /\ UNCHANGED <<cycle, season, payments, owner>>
    BY <1>2 DEF Fail, pvars, vars
  <2>2. QED
    BY <2>1, TurnsGood
<1>3. CASE UNCHANGED xvars
  <2>1. PICK r \in Requests : TRUE
    BY RacesAssumption
  <2>2. calls' = [calls EXCEPT ![r] = calls[r]] /\ UNCHANGED <<cycle, season, payments, owner>>
    BY <1>3 DEF xvars, pvars, vars, AloneInv, RacesInv, CallsOK
  <2>3. calls[r] = Rest \/ Good(calls[r])
    BY DEF AloneInv, CallsGood
  <2>4. QED
    BY <2>2, <2>3, TurnsGood
<1>4. QED
  BY <1>1, <1>2, <1>3, CommitGood, EditGood, AgainGood DEF RacesNext

LEMMA AloneStart == RacesInit => AloneInv
<1> SUFFICES ASSUME RacesInit PROVE LedgersTyped /\ CallsGood
  BY RacesStart DEF AloneInv
<1>1. BooksInv
  BY OpensBooks DEF RacesInit
<1>2. LedgersTyped
  <2>1. season.year \in Years
    BY <1>1 DEF BooksInv, PaymentsTypeOK, TypeOK
  <2>2. QED
    BY <1>1, <2>1, BookTyped DEF LedgersTyped, Proofs, Current
<1>3. CallsGood
  BY DEF RacesInit, CallsGood
<1>4. QED
  BY <1>2, <1>3

(* A request alone with its rows commits what it has computed.             *)
LEMMA AloneCommit ==
  ASSUME AloneInv, NEW r \in Requests, NEW u \in Units, calls[r].unit = u, calls[r].alone,
         Current(u) # Nil, Settled(Current(u)), Snapshot(Current(u)),
         Recorded(Proofs(u)), Commit(r)
  PROVE  /\ Exact(Current(u), Proofs(u)) =>
              \/ Exact(Current(u)', Proofs(u)')
              \/ \E i \in 1..Len(Proofs(u)) :
                   IsApproved(Proofs(u)[i]) /\ ~IsApproved(Proofs(u)'[i])
         /\ calls[r].kind = "page" => Exact(Current(u)', Proofs(u)')
         /\ calls[r].kind \in {"then page", "then upload"} => Drift(u, season.year)' = 0
<1> PICK w : w = calls[r]
  OBVIOUS
<1>1. IsWrite(w) /\ w.unit = u /\ Lands(w)
  BY CommitRows DEF AloneInv, RacesInv, CallsGood, Good, Commit
<1>2. Current(u)' = CycleAfter(w) /\ Proofs(u)' = Committed(w) /\ season' = season
  BY <1>1, CommitRows DEF AloneInv, RacesInv, TypeOK, Current, Proofs
<1>3. CASE w.kind \in {"then page", "then upload"}
  <2>1. w.joins = {} /\ w.leaves = {} /\ CycleAfter(w).count = RosterSize(u)
    BY <1>1, <1>3 DEF Lands
  <2>2. owner' = owner
    BY <2>1 DEF Commit, AloneInv, RacesInv, TypeOK
  <2>3. RosterSize(u)' = RosterSize(u)
    BY <2>2 DEF RosterSize, Roster
  <2>4. cycle'[u][season.year] = CycleAfter(w)
    BY <1>2 DEF Current
  <2>5. Drift(u, season.year)' = 0
    BY <1>2, <2>1, <2>3, <2>4, RosterCounted DEF Drift
  <2>6. QED
    BY <1>1, <1>2, <1>3, <2>5 DEF Lands
<1>4. QED
  BY <1>1, <1>2, <1>3 DEF Lands

(* For any number of requests, units, members and proofs: what a request   *)
(* does to rows nobody changed since it read them keeps the last balance   *)
(* exact, a payment page puts it right, and a reconciliation makes the     *)
(* count the roster again (get_payment_status,                             *)
(* reconcile_cycle_fee_after_member_removals,                              *)
(* approve_registration_payment).                                          *)
THEOREM AloneKeeps == RacesSpec => AloneKeepsBooks
<1>1. AloneInv /\ [RacesNext]_xvars
      => [\A r \in Requests, u \in Units :
            (/\ calls[r] # Rest /\ calls[r].unit = u /\ calls[r].alone
             /\ Current(u) # Nil /\ Settled(Current(u)) /\ Snapshot(Current(u))
             /\ Recorded(Proofs(u))
             /\ Commit(r))
            => /\ Exact(Current(u), Proofs(u)) =>
                   \/ Exact(Current(u)', Proofs(u)')
                   \/ \E i \in 1..Len(Proofs(u)) :
                        IsApproved(Proofs(u)[i]) /\ ~IsApproved(Proofs(u)'[i])
               /\ calls[r].kind = "page" => Exact(Current(u)', Proofs(u)')
               /\ calls[r].kind \in {"then page", "then upload"} => Drift(u, season.year)' = 0]_xvars
  BY AloneCommit
<1>2. QED
  BY <1>1, AloneStart, AloneStep, PTL DEF RacesSpec, AloneKeepsBooks
=============================================================================
