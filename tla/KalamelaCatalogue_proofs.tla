---------------------- MODULE KalamelaCatalogue_proofs ----------------------
(***************************************************************************)
(* Proofs about KalamelaTeams and KalamelaCatalogue.  What an entry and a  *)
(* withdrawal do to the sequence of rows is said once, in lemmas about its *)
(* length and its elements.  What a request in hand still knows is said in *)
(* the invariants AnswersHold and EditsHold: what it has found is so, but  *)
(* for the rows that others have changed since; the properties follow from *)
(* them at the step that writes.                                           *)
(***************************************************************************)
EXTENDS KalamelaCatalogue, FiniteSetTheorems, SequenceTheorems,
        NaturalsInduction, TLAPS

-----------------------------------------------------------------------------
(* Sequences of rows.                                                      *)

LEMMA IndexedIsSeq ==
  ASSUME NEW S, NEW n \in Nat, NEW f \in [1 .. n -> S]
  PROVE  f \in Seq(S) /\ Len(f) = n
<1>1. f \in Seq(S)
  BY SeqDef
<1>2. DOMAIN f = 1 .. Len(f) /\ Len(f) \in Nat
  BY <1>1, LenProperties
<1>3. DOMAIN f = 1 .. n
  OBVIOUS
<1>4. QED
  BY <1>1, <1>2, <1>3

(* A list of a finite set has its size and its elements.                   *)
LEMMA ListOfSet ==
  ASSUME NEW S, IsFiniteSet(S)
  PROVE  /\ Cardinality(S) \in Nat
         /\ SetToSeq(S) \in [1 .. Cardinality(S) -> S]
<1>1. Cardinality(S) \in Nat /\ ExistsBijection(1 .. Cardinality(S), S)
  BY FS_CardinalityType
<1>2. \E f \in [1 .. Cardinality(S) -> S] : IsInjective(f)
  BY <1>1 DEF ExistsBijection, Bijection, Injection
<1>3. QED
  BY <1>1, <1>2 DEF SetToSeq

(* Entering members makes the list of rows longer by rows of the event,    *)
(* the number and the members, and leaves the earlier rows as they are.    *)
LEMMA AddedRows ==
  ASSUME TeamsTypeOK, NEW g \in GroupEvents, NEW M \in SUBSET Members,
         NEW n \in 0 .. MaxNumber, Added(g, M, n)
  PROVE  /\ rows' \in Seq(Row)
         /\ Len(rows') >= Len(rows)
         /\ \A i \in 1 .. Len(rows) : rows'[i] = rows[i]
         /\ \A i \in DOMAIN rows' \ DOMAIN rows :
              rows'[i].event = g /\ rows'[i].member \in M /\ rows'[i].number = n
<1> DEFINE new == {[event |-> g, member |-> m, number |-> n] : m \in M}
           list == SetToSeq(new)
<1>1. IsFiniteSet(M)
  BY FS_Subset, TeamsAssumption
<1>2. IsFiniteSet(new)
  <2> DEFINE row(m) == [event |-> g, member |-> m, number |-> n]
  <2>1. \A m \in M : row(m) \in new
    OBVIOUS
  <2>2. [m \in M |-> row(m)] \in Surjection(M, new)
    BY DEF Surjection
  <2>3. QED
    BY <1>1, <2>2, FS_Surjection
<1>3. new \subseteq Row
  BY DEF Row
<1>4. Cardinality(new) \in Nat /\ list \in [1 .. Cardinality(new) -> new]
  BY <1>2, ListOfSet
<1> HIDE DEF list
<1>5. list \in Seq(Row) /\ Len(list) = Cardinality(new)
  <2>1. list \in [1 .. Cardinality(new) -> Row]
    BY <1>3, <1>4
  <2>2. QED
    BY <1>4, <2>1, IndexedIsSeq
<1>6. rows \in Seq(Row)
  BY DEF TeamsTypeOK
<1>7. rows' = rows \o list
  BY DEF Added, list
<1>8. /\ rows' \in Seq(Row)
      /\ Len(rows') = Len(rows) + Len(list)
      /\ \A i \in 1 .. Len(rows) + Len(list) :
           rows'[i] = IF i <= Len(rows) THEN rows[i] ELSE list[i - Len(rows)]
  BY <1>5, <1>6, <1>7, ConcatProperties
<1>9. Len(rows) \in Nat /\ Len(list) \in Nat
  BY <1>5, <1>6, LenProperties
<1>10. /\ DOMAIN rows = 1 .. Len(rows)
       /\ DOMAIN rows' = 1 .. Len(rows')
  BY <1>6, <1>8, LenProperties
<1>11. \A i \in 1 .. Len(list) :
         list[i].event = g /\ list[i].member \in M /\ list[i].number = n
  BY <1>4, <1>5
<1>12. ASSUME NEW i \in DOMAIN rows' \ DOMAIN rows
       PROVE  rows'[i].event = g /\ rows'[i].member \in M /\ rows'[i].number = n
  <2>1. /\ i \in 1 .. Len(rows) + Len(list) /\ ~(i <= Len(rows))
        /\ i - Len(rows) \in 1 .. Len(list)
    BY <1>8, <1>9, <1>10
  <2>2. rows'[i] = list[i - Len(rows)]
    BY <1>8, <2>1
  <2>3. QED
    BY <1>11, <2>1, <2>2
<1>13. QED
  BY <1>8, <1>9, <1>12

(* Rows that go leave a part of the list, each row as it was.              *)
LEMMA RemainingRows ==
  ASSUME TeamsTypeOK, NEW I, WithoutRows(I)
  PROVE  /\ rows' \in Seq(Row)
         /\ Len(rows') <= Len(rows)
         /\ \A k \in DOMAIN rows' : \E i \in DOMAIN rows \ I : rows'[k] = rows[i]
<1> DEFINE left == DOMAIN rows \ I
<1>1. rows \in Seq(Row)
  BY DEF TeamsTypeOK
<1>2. DOMAIN rows = 1 .. Len(rows) /\ Len(rows) \in Nat
  BY <1>1, LenProperties
<1>3. IsFiniteSet(DOMAIN rows) /\ Cardinality(DOMAIN rows) = Len(rows)
  <2>1. /\ IsFiniteSet(1 .. Len(rows))
        /\ Cardinality(1 .. Len(rows)) = IF 1 > Len(rows) THEN 0 ELSE Len(rows) - 1 + 1
    BY <1>2, FS_Interval
  <2>2. QED
    BY <1>2, <2>1
<1>4. /\ IsFiniteSet(left)
      /\ Cardinality(left) \in Nat
      /\ Cardinality(left) <= Len(rows)
  BY <1>3, FS_Subset, FS_CardinalityType
<1>5. PICK kept \in [1 .. Cardinality(left) -> left] :
             rows' = [k \in DOMAIN kept |-> rows[kept[k]]]
  BY DEF WithoutRows
<1>6. \A i \in left : rows[i] \in Row
  BY <1>1, <1>2, ElementOfSeq
<1>7. rows' \in [1 .. Cardinality(left) -> Row]
  BY <1>5, <1>6
<1>8. rows' \in Seq(Row) /\ Len(rows') = Cardinality(left)
  BY <1>4, <1>7, IndexedIsSeq
<1>9. QED
  BY <1>4, <1>5, <1>7, <1>8

-----------------------------------------------------------------------------
(* Numbers.                                                                *)

LEMMA RowsTyped ==
  ASSUME TeamsTypeOK
  PROVE  /\ DOMAIN rows = 1 .. Len(rows) /\ Len(rows) \in Nat
         /\ \A i \in DOMAIN rows :
              /\ rows[i] \in Row
              /\ rows[i].event \in GroupEvents /\ rows[i].member \in Members
              /\ rows[i].number \in 0 .. MaxNumber
<1>1. rows \in Seq(Row)
  BY DEF TeamsTypeOK
<1>2. DOMAIN rows = 1 .. Len(rows) /\ Len(rows) \in Nat
  BY <1>1, LenProperties
<1>3. \A i \in DOMAIN rows : rows[i] \in Row
  BY <1>1, <1>2, ElementOfSeq
<1>4. QED
  BY <1>2, <1>3 DEF Row

(* Indices of a list that are in a set include a last one.                 *)
LEMMA LastIndex ==
  ASSUME NEW n \in Nat, NEW I \in SUBSET (1 .. n), I # {}
  PROVE  \E i \in I : \A j \in I : j <= i
<1> DEFINE below == {n - i : i \in I}
<1>0. \A i \in I : i \in Nat /\ n - i \in Nat
  OBVIOUS
<1>1. below \subseteq Nat /\ below # {}
  BY <1>0
<1>2. \E x \in below : \A y \in below : ~(<<y, x>> \in OpToRel(<, Nat))
  BY <1>1, NatLessThanWellFounded, WFMin
<1>3. PICK x \in below : \A y \in below : ~(y < x)
  BY <1>1, <1>2 DEF OpToRel
<1>4. PICK i \in I : x = n - i
  BY <1>3
<1>5. ASSUME NEW j \in I  PROVE j <= i
  <2>1. ~(n - j < n - i)
    BY <1>3, <1>4
  <2>2. i \in Nat /\ j \in Nat
    BY <1>0
  <2>3. QED
    BY <2>1, <2>2
<1>6. QED
  BY <1>5

(* The next number is a number: there is a last row to take it from.       *)
LEMMA NextTeamNumberIsNat ==
  ASSUME TeamsTypeOK, NEW g \in GroupEvents
  PROVE  NextTeamNumber(g) \in Nat
<1>1. CASE RowsOf(g) = {}
  BY <1>1 DEF NextTeamNumber
<1>2. CASE RowsOf(g) # {}
  <2>1. rows \in Seq(Row) /\ DOMAIN rows = 1 .. Len(rows) /\ Len(rows) \in Nat
    BY LenProperties DEF TeamsTypeOK
  <2>2. RowsOf(g) \subseteq 1 .. Len(rows)
    BY <2>1 DEF RowsOf
  <2>3. \E i \in RowsOf(g) : \A j \in RowsOf(g) : j <= i
    BY <1>2, <2>1, <2>2, LastIndex
  <2>4. PICK i \in RowsOf(g) : i = CHOOSE k \in RowsOf(g) : \A j \in RowsOf(g) : j <= k
    BY <2>3
  <2>5. rows[i].number \in Nat
    BY <2>1, <2>2, RowsTyped
  <2>6. QED
    BY <1>2, <2>4, <2>5 DEF NextTeamNumber
<1>3. QED
  BY <1>1, <1>2

-----------------------------------------------------------------------------
(* The types of the teams.                                                 *)

RosterTyped ==
  /\ home \in [Members -> Units \union {Nil}]
  /\ rows \in Seq(Row)
  /\ barred \subseteq Members
  /\ \A i \in DOMAIN rows : home[rows[i].member] # Nil

LEMMA EntryTyped ==
  ASSUME TeamsTypeOK, NEW r \in Requests, calls[r] \in Entry
  PROVE  /\ calls[r].event \in GroupEvents /\ calls[r].unit \in Units
         /\ calls[r].members \in SUBSET Members
         /\ calls[r].teams \in SUBSET (0 .. MaxNumber)
         /\ calls[r].number \in (0 .. MaxNumber) \union {Nil}
BY DEF Entry

(* An entry adds rows of its event, its members and its number.            *)
LEMMA EntryAdds ==
  ASSUME TeamsTypeOK, NEW r \in Requests, AddParticipants(r)
  PROVE  \E h \in GroupEvents, n \in 0 .. MaxNumber : \E M \in SUBSET Members :
           /\ h = calls[r].event /\ n = calls[r].number /\ M = calls[r].members
           /\ rows' \in Seq(Row)
           /\ Len(rows') >= Len(rows)
           /\ \A i \in 1 .. Len(rows) : rows'[i] = rows[i]
           /\ \A i \in DOMAIN rows' \ DOMAIN rows :
                rows'[i].event = h /\ rows'[i].member \in M /\ rows'[i].number = n
<1>1. calls[r] \in Entry /\ calls[r].number # Nil
  BY DEF AddParticipants
<1>2. PICK h \in GroupEvents, n \in 0 .. MaxNumber, M \in SUBSET Members :
             h = calls[r].event /\ n = calls[r].number /\ M = calls[r].members
  BY <1>1, EntryTyped
<1>3. Added(h, M, n)
  BY <1>2 DEF AddParticipants
<1>4. /\ rows' \in Seq(Row)
      /\ Len(rows') >= Len(rows)
      /\ \A i \in 1 .. Len(rows) : rows'[i] = rows[i]
      /\ \A i \in DOMAIN rows' \ DOMAIN rows :
           rows'[i].event = h /\ rows'[i].member \in M /\ rows'[i].number = n
  BY <1>3, AddedRows
<1>5. QED
  BY <1>2, <1>4

LEMMA EntryRosterTyped ==
  ASSUME TeamsTypeOK, NEW r \in Requests, AddParticipants(r)
  PROVE  RosterTyped'
<1>1. (\A m \in calls[r].members : home[m] # Nil) /\ UNCHANGED <<home, barred>>
  BY DEF AddParticipants
<1>2. /\ rows' \in Seq(Row)
      /\ \A i \in 1 .. Len(rows) : rows'[i] = rows[i]
      /\ \A i \in DOMAIN rows' \ DOMAIN rows : rows'[i].member \in calls[r].members
  BY EntryAdds
<1>3. ASSUME NEW i \in DOMAIN rows'  PROVE home[rows'[i].member] # Nil
  <2>1. CASE i \in DOMAIN rows
    BY <1>2, <2>1, RowsTyped DEF TeamsTypeOK
  <2>2. CASE i \notin DOMAIN rows
    BY <1>1, <1>2, <2>2
  <2>3. QED
    BY <2>1, <2>2
<1>4. QED
  BY <1>1, <1>2, <1>3 DEF TeamsTypeOK, RosterTyped

LEMMA RowsMoveTyped ==
  ASSUME TeamsTypeOK,
         \/ \E i \in DOMAIN rows : LeaveTeam(i)
         \/ AdminTeams
         \/ RosterMoves
  PROVE  RosterTyped'
<1>1. ASSUME NEW i \in DOMAIN rows, LeaveTeam(i)  PROVE RosterTyped'
  <2>1. WithoutRows({i}) /\ UNCHANGED <<home, barred>>
    BY <1>1 DEF LeaveTeam
  <2>2. /\ rows' \in Seq(Row)
        /\ \A k \in DOMAIN rows' : \E j \in DOMAIN rows \ {i} : rows'[k] = rows[j]
    BY <2>1, RemainingRows
  <2>3. QED
    BY <2>1, <2>2 DEF TeamsTypeOK, RosterTyped
<1>2. ASSUME NEW i \in DOMAIN rows, NEW n \in 0 .. MaxNumber, Renumber(i, n)
      PROVE  RosterTyped'
  <2>1. /\ rows' = [rows EXCEPT ![i].number = n]
        /\ UNCHANGED <<home, barred>>
    BY <1>2 DEF Renumber
  <2> DEFINE renumbered == [rows[i] EXCEPT !.number = n]
  <2>2. rows[i] \in Row /\ i \in 1 .. Len(rows)
    BY RowsTyped
  <2>3. renumbered \in Row /\ renumbered.member = rows[i].member
    BY <2>2 DEF Row
  <2>4. rows' = [rows EXCEPT ![i] = renumbered]
    BY <2>1
  <2> HIDE DEF renumbered
  <2>5. /\ rows' \in Seq(Row) /\ DOMAIN rows' = DOMAIN rows
        /\ \A k \in DOMAIN rows : rows'[k].member = rows[k].member
    BY <2>2, <2>3, <2>4 DEF TeamsTypeOK, RosterTyped
  <2>6. QED
    BY <2>1, <2>5 DEF TeamsTypeOK, RosterTyped
<1>3. ASSUME NEW m \in Members, Bar(m) \/ Unbar(m)  PROVE RosterTyped'
  BY <1>3 DEF Bar, Unbar, TeamsTypeOK, RosterTyped
<1>4. ASSUME NEW m \in Members, NEW u \in Units, Relocate(m, u)
      PROVE  RosterTyped'
  <2>1. /\ home' = [home EXCEPT ![m] = u]
        /\ UNCHANGED <<rows, barred>>
    BY <1>4 DEF Relocate
  <2>2. \A k \in Members : home[k] # Nil => home'[k] # Nil
    BY <2>1, TeamsAssumption DEF TeamsTypeOK, RosterTyped
  <2>3. QED
    BY <2>1, <2>2, RowsTyped DEF TeamsTypeOK, RosterTyped
<1>5. ASSUME NEW m \in Members, Erase(m)  PROVE RosterTyped'
  <2> DEFINE own == {i \in DOMAIN rows : rows[i].member = m}
  <2>1. /\ home' = [home EXCEPT ![m] = Nil]
        /\ WithoutRows(own)
        /\ barred' \subseteq Members
    BY <1>5 DEF Erase, TeamsTypeOK
  <2>2. /\ rows' \in Seq(Row)
        /\ \A k \in DOMAIN rows' : \E j \in DOMAIN rows \ own : rows'[k] = rows[j]
    BY <2>1, RemainingRows
  <2>3. ASSUME NEW k \in DOMAIN rows'  PROVE home'[rows'[k].member] # Nil
    <3>1. PICK j \in DOMAIN rows : rows[j].member # m /\ rows'[k] = rows[j]
      BY <2>2
    <3>2. QED
      BY <2>1, <3>1, RowsTyped DEF TeamsTypeOK, RosterTyped
  <2>4. home' \in [Members -> Units \union {Nil}]
    BY <2>1 DEF TeamsTypeOK, RosterTyped
  <2>5. QED
    BY <2>1, <2>2, <2>3, <2>4 DEF TeamsTypeOK, RosterTyped
<1>6. QED
  BY <1>1, <1>2, <1>3, <1>4, <1>5 DEF AdminTeams, RosterMoves

(* The rows of a step that is none of these stay.                          *)
LEMMA RosterStays ==
  ASSUME NEW r \in Requests, BillRequest(r) \/ Abandon(r) \/ JoinTeam(r) \/ NewTeam(r)
  PROVE  UNCHANGED <<home, rows, barred>>
BY DEF BillRequest, AskPending, AskPaid, CreateBill, FindDeclined, ReturnBill,
       Abandon, JoinTeam, NewTeam, Numbered

LEMMA TeamsRosterTyped ==
  ASSUME TeamsTypeOK, TeamsStep
  PROVE  RosterTyped'
<1>1. ASSUME UNCHANGED <<home, rows, barred>>  PROVE RosterTyped'
  BY <1>1 DEF TeamsTypeOK, RosterTyped
<1>2. ASSUME NEW r \in Requests, TeamEntry(r)  PROVE RosterTyped'
  BY <1>1, <1>2, EntryRosterTyped, RosterStays DEF TeamEntry, LookForTeam
<1>3. ASSUME NEW r \in Requests, BillRequest(r) \/ Abandon(r)  PROVE RosterTyped'
  BY <1>1, <1>3, RosterStays
<1>4. ASSUME NEW i \in DOMAIN bills, NEW s \in {"Paid", "Declined"}, ReviewBill(i, s)
      PROVE  RosterTyped'
  BY <1>1, <1>4 DEF ReviewBill
<1>5. QED
  BY <1>2, <1>3, <1>4, RowsMoveTyped DEF TeamsStep

LEMMA BillsTyped ==
  ASSUME TeamsTypeOK
  PROVE  /\ DOMAIN bills = 1 .. Len(bills) /\ Len(bills) \in Nat
         /\ \A i \in DOMAIN bills :
              /\ bills[i] \in Bill
              /\ bills[i].by \in Districts
              /\ bills[i].status \in {"Pending", "Paid", "Declined"}
<1>1. bills \in Seq(Bill)
  BY DEF TeamsTypeOK
<1>2. DOMAIN bills = 1 .. Len(bills) /\ Len(bills) \in Nat
  BY <1>1, LenProperties
<1>3. \A i \in DOMAIN bills : bills[i] \in Bill
  BY <1>1, <1>2, ElementOfSeq
<1>4. QED
  BY <1>2, <1>3 DEF Bill

(* The bills after one is added, and after one is given another status.    *)
LEMMA BillAdded ==
  ASSUME TeamsTypeOK, NEW d \in Districts,
         bills' = Append(bills, [by |-> d, status |-> "Pending"])
  PROVE  /\ bills' \in Seq(Bill)
         /\ DOMAIN bills' = 1 .. Len(bills) + 1
         /\ \A k \in DOMAIN bills : bills'[k] = bills[k]
         /\ bills'[Len(bills) + 1].by = d
<1> DEFINE bill == [by |-> d, status |-> "Pending"]
<1>1. bill \in Bill /\ bill.by = d
  BY DEF Bill
<1>2. bills \in Seq(Bill) /\ bills' = Append(bills, bill)
  BY DEF TeamsTypeOK
<1> HIDE DEF bill
<1>3. /\ bills' \in Seq(Bill)
      /\ Len(bills') = Len(bills) + 1
      /\ \A k \in 1 .. Len(bills) : bills'[k] = bills[k]
      /\ bills'[Len(bills) + 1] = bill
  BY <1>1, <1>2, AppendProperties
<1>4. QED
  BY <1>1, <1>3, BillsTyped, LenProperties

LEMMA BillGiven ==
  ASSUME TeamsTypeOK, NEW i \in DOMAIN bills,
         NEW s \in {"Pending", "Paid", "Declined"},
         bills' = [bills EXCEPT ![i].status = s]
  PROVE  /\ bills' \in Seq(Bill)
         /\ DOMAIN bills' = DOMAIN bills
         /\ \A k \in DOMAIN bills :
              /\ bills'[k].by = bills[k].by
              /\ bills'[k].status = IF k = i THEN s ELSE bills[k].status
<1> DEFINE bill == [bills[i] EXCEPT !.status = s]
<1>1. bill \in Bill /\ bill.by = bills[i].by /\ bill.status = s
  BY BillsTyped DEF Bill
<1>2. bills \in Seq(Bill) /\ bills' = [bills EXCEPT ![i] = bill]
  BY DEF TeamsTypeOK
<1> HIDE DEF bill
<1>3. /\ bills' \in Seq(Bill) /\ DOMAIN bills' = DOMAIN bills
      /\ \A k \in DOMAIN bills : bills'[k] = IF k = i THEN bill ELSE bills[k]
  BY <1>1, <1>2, BillsTyped
<1>4. QED
  BY <1>1, <1>3

(* A step that moves the payments makes one under review, or gives one     *)
(* another status.                                                         *)
LEMMA BillMoves ==
  ASSUME TeamsTypeOK, TeamsStep
  PROVE  \/ bills' = bills
         \/ \E r \in Requests :
              /\ CreateBill(r)
              /\ calls[r].by \in Districts /\ Len(bills) < MaxBills
              /\ bills' = Append(bills, [by |-> calls[r].by, status |-> "Pending"])
         \/ \E i \in DOMAIN bills, s \in {"Pending", "Paid", "Declined"} :
              bills' = [bills EXCEPT ![i].status = s]
<1>1. ASSUME NEW r \in Requests, TeamEntry(r) \/ Abandon(r)  PROVE bills' = bills
  BY <1>1 DEF TeamEntry, LookForTeam, JoinTeam, NewTeam, Numbered, AddParticipants, Abandon
<1>2. ASSUME NEW r \in Requests, CreateBill(r)
      PROVE  /\ calls[r].by \in Districts /\ Len(bills) < MaxBills
             /\ bills' = Append(bills, [by |-> calls[r].by, status |-> "Pending"])
  BY <1>2 DEF CreateBill, Paying
<1>3. ASSUME NEW r \in Requests, ReturnBill(r)
      PROVE  /\ calls[r].bill \in DOMAIN bills
             /\ bills' = [bills EXCEPT ![calls[r].bill].status = "Pending"]
  BY <1>3 DEF ReturnBill, TeamsTypeOK
<1>4. ASSUME NEW r \in Requests, BillRequest(r), ~CreateBill(r), ~ReturnBill(r)
      PROVE  bills' = bills
  BY <1>4 DEF BillRequest, AskPending, AskPaid, FindDeclined
<1>5. ASSUME \/ \E i \in DOMAIN rows : LeaveTeam(i)
             \/ AdminTeams
             \/ RosterMoves
      PROVE  bills' = bills
  BY <1>5 DEF LeaveTeam, AdminTeams, Renumber, Bar, Unbar, RosterMoves, Relocate, Erase
<1>6. ASSUME NEW i \in DOMAIN bills, NEW s \in {"Paid", "Declined"}, ReviewBill(i, s)
      PROVE  bills' = [bills EXCEPT ![i].status = s]
  BY <1>6 DEF ReviewBill
<1>7. QED
  BY <1>1, <1>2, <1>3, <1>4, <1>5, <1>6 DEF TeamsStep

LEMMA BillsKept ==
  ASSUME TeamsTypeOK, TeamsStep
  PROVE  /\ bills' \in Seq(Bill) /\ Len(bills') \in Nat /\ Len(bills') <= MaxBills
         /\ DOMAIN bills \subseteq DOMAIN bills'
         /\ DOMAIN bills' \subseteq 1 .. MaxBills
<1>0. /\ bills \in Seq(Bill) /\ Len(bills) \in Nat /\ Len(bills) <= MaxBills
      /\ DOMAIN bills = 1 .. Len(bills) /\ MaxBills \in Nat
  BY BillsTyped, TeamsAssumption DEF TeamsTypeOK
<1>1. ASSUME bills' \in Seq(Bill), NEW n \in Nat, n <= MaxBills, DOMAIN bills' = 1 .. n,
             n >= Len(bills)
      PROVE  /\ Len(bills') \in Nat /\ Len(bills') <= MaxBills
             /\ DOMAIN bills \subseteq DOMAIN bills'
             /\ DOMAIN bills' \subseteq 1 .. MaxBills
  <2>1. Len(bills') \in Nat /\ DOMAIN bills' = 1 .. Len(bills')
    BY <1>1, LenProperties
  <2>2. Len(bills') = n
    BY <1>1, <2>1
  <2>3. QED
    BY <1>0, <1>1, <2>1, <2>2
<1>2. CASE bills' = bills
  BY <1>0, <1>2
<1>3. CASE \E r \in Requests :
             /\ calls[r].by \in Districts /\ Len(bills) < MaxBills
             /\ bills' = Append(bills, [by |-> calls[r].by, status |-> "Pending"])
  <2>1. bills' \in Seq(Bill) /\ DOMAIN bills' = 1 .. Len(bills) + 1 /\ Len(bills) < MaxBills
    BY <1>3, BillAdded
  <2>2. Len(bills) + 1 \in Nat /\ Len(bills) + 1 <= MaxBills /\ Len(bills) + 1 >= Len(bills)
    BY <1>0, <2>1
  <2>3. QED
    BY <1>1, <2>1, <2>2
<1>4. CASE \E i \in DOMAIN bills, s \in {"Pending", "Paid", "Declined"} :
             bills' = [bills EXCEPT ![i].status = s]
  <2>1. bills' \in Seq(Bill) /\ DOMAIN bills' = DOMAIN bills
    BY <1>4, BillGiven
  <2>2. Len(bills) >= Len(bills) /\ DOMAIN bills' = 1 .. Len(bills)
    BY <1>0, <2>1
  <2>3. QED
    BY <1>0, <1>1, <2>1, <2>2
<1>5. QED
  BY <1>2, <1>3, <1>4, BillMoves

-----------------------------------------------------------------------------
(* The requests.                                                           *)

(* What a step makes of a request.                                         *)
StaysOrEnds(r) == calls'[r] \in {calls[r], Nil}

IsFound(r) == calls'[r] \in Entry /\ calls'[r].number = Nil

IsNumbered(r) ==
  /\ calls'[r] \in Entry
  /\ calls'[r].teams # {} => calls'[r].number \in calls'[r].teams

HasAskedPending(r) ==
  /\ calls[r] = Nil
  /\ calls'[r] \in Paying /\ calls'[r].asked = "pending"
  /\ bills' = bills
  /\ \A i \in BillsOf(calls'[r].by) : bills[i].status # "Pending"

HasAskedPaid(r) ==
  /\ calls[r] \in Paying /\ calls[r].asked = "pending"
  /\ calls'[r] \in Paying /\ calls'[r].by = calls[r].by
  /\ bills' = bills
  /\ \A i \in BillsOf(calls[r].by) : bills[i].status # "Paid"

IsReturning(r) == calls'[r] \in Return /\ calls'[r].bill \in DOMAIN bills

RequestMoved(r) ==
  \/ StaysOrEnds(r)
  \/ IsFound(r) \/ IsNumbered(r)
  \/ HasAskedPending(r) \/ HasAskedPaid(r)
  \/ IsReturning(r)

LEMMA RequestsMove ==
  ASSUME TeamsTypeOK, TeamsStep
  PROVE  /\ calls' = [q \in Requests |-> calls'[q]]
         /\ \A q \in Requests : RequestMoved(q)
<1>0. calls = [q \in Requests |-> calls[q]]
  BY DEF TeamsTypeOK
<1>1. ASSUME NEW r \in Requests, NEW e, calls' = [calls EXCEPT ![r] = e],
             calls'[r] = e => RequestMoved(r)
      PROVE  /\ calls' = [q \in Requests |-> calls'[q]]
             /\ \A q \in Requests : RequestMoved(q)
  BY <1>0, <1>1 DEF RequestMoved, StaysOrEnds
<1>2. ASSUME calls' = calls
      PROVE  /\ calls' = [q \in Requests |-> calls'[q]]
             /\ \A q \in Requests : RequestMoved(q)
  BY <1>0, <1>2 DEF RequestMoved, StaysOrEnds
<1>3. ASSUME NEW r \in Requests, NEW d \in Districts, NEW g \in GroupEvents,
             NEW u \in Units, NEW M \in SUBSET Members, LookForTeam(r, d, g, M, u)
      PROVE  \A q \in Requests : RequestMoved(q)
  <2> DEFINE e == [what |-> "entry", event |-> g, unit |-> u, members |-> M,
                   teams |-> UnitNumbers(g, u), number |-> Nil]
  <2>1. calls' = [calls EXCEPT ![r] = e]
    BY <1>3 DEF LookForTeam
  <2>2. UnitNumbers(g, u) \subseteq 0 .. MaxNumber
    BY RowsTyped DEF UnitNumbers, NumbersAmong, RowsOf
  <2>3. e \in Entry /\ e.number = Nil
    BY <2>2 DEF Entry
  <2> HIDE DEF e
  <2>4. QED
    BY <1>1, <2>1, <2>3 DEF RequestMoved, IsFound
<1>4. ASSUME NEW r \in Requests, NEW n \in 0 .. MaxNumber, Unnumbered(r), Numbered(r, n),
             calls[r].teams # {} => n \in calls[r].teams
      PROVE  \A q \in Requests : RequestMoved(q)
  <2> DEFINE e == [calls[r] EXCEPT !.number = n]
  <2>1. calls[r] \in Entry /\ calls' = [calls EXCEPT ![r] = e]
    BY <1>4 DEF Unnumbered, Numbered
  <2>2. e \in Entry /\ e.number = n /\ e.teams = calls[r].teams
    BY <2>1 DEF Entry
  <2> HIDE DEF e
  <2>3. QED
    BY <1>1, <1>4, <2>1, <2>2 DEF RequestMoved, IsNumbered
<1>5. ASSUME NEW r \in Requests, JoinTeam(r)
      PROVE  \A q \in Requests : RequestMoved(q)
  <2>1. PICK n \in calls[r].teams : Unnumbered(r) /\ Numbered(r, n)
    BY <1>5 DEF JoinTeam
  <2>2. n \in 0 .. MaxNumber
    BY <2>1, EntryTyped DEF Unnumbered
  <2>3. QED
    BY <1>4, <2>1, <2>2
<1>6. ASSUME NEW r \in Requests, NewTeam(r)
      PROVE  \A q \in Requests : RequestMoved(q)
  <2> DEFINE n == NextTeamNumber(calls[r].event)
  <2>1. Unnumbered(r) /\ calls[r].teams = {} /\ n <= MaxNumber /\ Numbered(r, n)
    BY <1>6 DEF NewTeam
  <2>2. n \in Nat
    BY <2>1, EntryTyped, NextTeamNumberIsNat DEF Unnumbered
  <2> HIDE DEF n
  <2>3. n \in 0 .. MaxNumber
    BY <2>1, <2>2, TeamsAssumption
  <2>4. QED
    BY <1>4, <2>1, <2>3
<1>7. ASSUME NEW r \in Requests,
             \/ AddParticipants(r) \/ Abandon(r) \/ CreateBill(r) \/ ReturnBill(r)
      PROVE  \A q \in Requests : RequestMoved(q)
  <2>1. calls' = [calls EXCEPT ![r] = Nil]
    BY <1>7 DEF AddParticipants, Abandon, CreateBill, ReturnBill
  <2>2. QED
    BY <1>1, <2>1 DEF RequestMoved, StaysOrEnds
<1>8. ASSUME NEW r \in Requests, NEW d \in Districts, AskPending(r, d)
      PROVE  \A q \in Requests : RequestMoved(q)
  <2> DEFINE e == [what |-> "bill", by |-> d, asked |-> "pending"]
  <2>1. /\ calls[r] = Nil /\ bills' = bills
        /\ calls' = [calls EXCEPT ![r] = e]
        /\ \A i \in BillsOf(d) : bills[i].status # "Pending"
    BY <1>8 DEF AskPending
  <2>2. e \in Paying /\ e.asked = "pending" /\ e.by = d
    BY DEF Paying
  <2> HIDE DEF e
  <2>3. calls'[r] = e => HasAskedPending(r)
    BY <2>1, <2>2 DEF HasAskedPending
  <2>4. QED
    BY <1>1, <2>1, <2>3 DEF RequestMoved
<1>9. ASSUME NEW r \in Requests, AskPaid(r)
      PROVE  \A q \in Requests : RequestMoved(q)
  <2> DEFINE e == [calls[r] EXCEPT !.asked = "paid"]
  <2>1. /\ calls[r] \in Paying /\ calls[r].asked = "pending" /\ bills' = bills
        /\ calls' = [calls EXCEPT ![r] = e]
        /\ \A i \in BillsOf(calls[r].by) : bills[i].status # "Paid"
    BY <1>9 DEF AskPaid
  <2>2. e \in Paying /\ e.by = calls[r].by
    BY <2>1 DEF Paying
  <2> HIDE DEF e
  <2>3. calls'[r] = e => HasAskedPaid(r)
    BY <2>1, <2>2 DEF HasAskedPaid
  <2>4. QED
    BY <1>1, <2>1, <2>3 DEF RequestMoved
<1>10. ASSUME NEW r \in Requests, NEW i \in DOMAIN bills, FindDeclined(r, i)
       PROVE  \A q \in Requests : RequestMoved(q)
  <2> DEFINE e == [what |-> "return", bill |-> i]
  <2>1. calls' = [calls EXCEPT ![r] = e]
    BY <1>10 DEF FindDeclined
  <2>2. i \in 1 .. MaxBills
    BY BillsTyped, TeamsAssumption DEF TeamsTypeOK
  <2>3. e \in Return /\ e.bill = i
    BY <2>2 DEF Return
  <2> HIDE DEF e
  <2>4. QED
    BY <1>1, <2>1, <2>3 DEF RequestMoved, IsReturning
<1>11. CASE \E r \in Requests : TeamEntry(r) \/ BillRequest(r) \/ Abandon(r)
  <2>1. \A q \in Requests : RequestMoved(q)
    BY <1>3, <1>5, <1>6, <1>7, <1>8, <1>9, <1>10, <1>11 DEF TeamEntry, BillRequest
  <2>2. \E r \in Requests : \E e : calls' = [calls EXCEPT ![r] = e]
    <3>1. ASSUME NEW r \in Requests, NEW n, Numbered(r, n)
          PROVE  \E e : calls' = [calls EXCEPT ![r] = e]
      <4>1. calls' = [calls EXCEPT ![r] = [calls[r] EXCEPT !.number = n]]
        BY <3>1 DEF Numbered
      <4>2. QED
        BY <4>1
    <3>2. ASSUME NEW r \in Requests, AskPaid(r)
          PROVE  \E e : calls' = [calls EXCEPT ![r] = e]
      <4>1. calls' = [calls EXCEPT ![r] = [calls[r] EXCEPT !.asked = "paid"]]
        BY <3>2 DEF AskPaid
      <4>2. QED
        BY <4>1
    <3>3. ASSUME NEW r \in Requests, JoinTeam(r) \/ NewTeam(r)
          PROVE  \E e : calls' = [calls EXCEPT ![r] = e]
      BY <3>1, <3>3 DEF JoinTeam, NewTeam
    <3>4. QED
      BY <1>11, <3>2, <3>3
         DEF TeamEntry, BillRequest, LookForTeam, AddParticipants, Abandon, AskPending,
             CreateBill, FindDeclined, ReturnBill
  <2>3. QED
    BY <1>0, <2>1, <2>2
<1>12. CASE \/ \E i \in DOMAIN rows : LeaveTeam(i)
            \/ AdminTeams
            \/ RosterMoves
            \/ \E i \in DOMAIN bills, s \in {"Paid", "Declined"} : ReviewBill(i, s)
  <2>1. calls' = calls
    BY <1>12 DEF LeaveTeam, AdminTeams, Renumber, Bar, Unbar, RosterMoves, Relocate,
                 Erase, ReviewBill
  <2>2. QED
    BY <1>2, <2>1
<1>13. QED
  BY <1>11, <1>12 DEF TeamsStep

LEMMA TeamsNextTyped ==
  ASSUME TeamsTypeOK, TeamsNext
  PROVE  TeamsTypeOK'
<1>1. TeamsStep /\ Noticing
  BY DEF TeamsNext
<1>2. RosterTyped'
  BY <1>1, TeamsRosterTyped
<1>3. /\ bills' \in Seq(Bill) /\ Len(bills') <= MaxBills
      /\ DOMAIN bills \subseteq DOMAIN bills'
      /\ DOMAIN bills' \subseteq 1 .. MaxBills
  BY <1>1, BillsKept
<1>4. ASSUME NEW r \in Requests
      PROVE  /\ calls'[r] \in Entry \union Paying \union Return \union {Nil}
             /\ calls'[r] \in Return => calls'[r].bill \in DOMAIN bills'
  <2>1. RequestMoved(r)
    BY <1>1, RequestsMove
  <2>2. CASE StaysOrEnds(r)
    BY <1>3, <2>2, NoCall DEF StaysOrEnds, TeamsTypeOK
  <2>3. CASE IsReturning(r)
    BY <1>3, <2>3 DEF IsReturning
  <2>4. CASE IsFound(r) \/ IsNumbered(r) \/ HasAskedPending(r) \/ HasAskedPaid(r)
    <3>1. calls'[r] \in Entry \union Paying
      BY <2>4 DEF IsFound, IsNumbered, HasAskedPending, HasAskedPaid
    <3>2. calls'[r] \notin Return
      BY <3>1 DEF Entry, Paying, Return
    <3>3. QED
      BY <3>1, <3>2
  <2>5. QED
    BY <2>1, <2>2, <2>3, <2>4 DEF RequestMoved
<1>5. calls' \in [Requests -> Entry \union Paying \union Return \union {Nil}]
  BY <1>1, <1>4, RequestsMove
<1>6. \A d : Moved(d) \subseteq 1 .. MaxBills
  BY <1>3 DEF Moved, BillsOf
<1>7. \A r \in Requests : since[r] \in SUBSET (1 .. MaxBills)
  BY DEF TeamsTypeOK
<1>8. since' \in [Requests -> SUBSET (1 .. MaxBills)]
  BY <1>1, <1>6, <1>7 DEF Noticing
<1>9. QED
  BY <1>2, <1>3, <1>4, <1>5, <1>8 DEF TeamsTypeOK, RosterTyped

-----------------------------------------------------------------------------
(* What a request knows.                                                   *)

(* A request that found numbers of the unit has one of them; and one that  *)
(* has asked for payments knows of no other than those that moved since:   *)
(* first of none under review, then of none at all.                        *)
NumberHeld(r) ==
  calls[r] \in Entry /\ calls[r].number # Nil /\ calls[r].teams # {}
  => calls[r].number \in calls[r].teams

NoOtherBills(r) ==
  \A d : calls[r] \in Paying /\ calls[r].by = d
        => \A i \in LiveOf(d) :
             bills[i].status = "Pending" \/ calls[r].asked = "paid" => i \in since[r]

AnswersHold == \A r \in Requests : NumberHeld(r) /\ NoOtherBills(r)

LEMMA NumberStaysHeld ==
  ASSUME TeamsTypeOK, NEW r \in Requests, NumberHeld(r), RequestMoved(r)
  PROVE  NumberHeld(r)'
<1>1. NumberHeld(r)' <=> (calls'[r] \in Entry /\ calls'[r].number # Nil /\ calls'[r].teams # {}
                          => calls'[r].number \in calls'[r].teams)
  BY DEF NumberHeld
<1>2. CASE StaysOrEnds(r)
  BY <1>1, <1>2, NoCall DEF StaysOrEnds, NumberHeld
<1>3. CASE IsFound(r) \/ IsNumbered(r)
  BY <1>1, <1>3 DEF IsFound, IsNumbered
<1>4. CASE HasAskedPending(r) \/ HasAskedPaid(r) \/ IsReturning(r)
  <2>1. calls'[r] \in Paying \union Return
    BY <1>4 DEF HasAskedPending, HasAskedPaid, IsReturning
  <2>2. calls'[r] \notin Entry
    BY <2>1 DEF Entry, Paying, Return
  <2>3. QED
    BY <1>1, <2>2
<1>5. QED
  BY <1>2, <1>3, <1>4 DEF RequestMoved

(* A payment that is live now was live before, or has moved.               *)
LEMMA LiveOrMoved ==
  ASSUME NEW d, NEW i \in LiveOf(d)', i \notin Moved(d)
  PROVE  i \in LiveOf(d) /\ bills'[i] = bills[i]
<1>1. i \in DOMAIN bills' /\ bills'[i].by = d /\ bills'[i].status \in {"Pending", "Paid"}
  BY DEF LiveOf, BillsOf
<1>2. i \in DOMAIN bills /\ bills'[i] = bills[i]
  BY <1>1 DEF Moved, BillsOf
<1>3. QED
  BY <1>1, <1>2 DEF LiveOf, BillsOf

LEMMA NoOtherBillsStill ==
  ASSUME TeamsTypeOK, Noticing, NEW r \in Requests, NoOtherBills(r), RequestMoved(r)
  PROVE  NoOtherBills(r)'
<1> SUFFICES ASSUME NEW d, calls'[r] \in Paying, calls'[r].by = d, NEW i \in LiveOf(d)',
                    bills'[i].status = "Pending" \/ calls'[r].asked = "paid"
             PROVE  i \in since'[r]
  BY DEF NoOtherBills
<1>1. calls'[r] # Nil /\ calls'[r] \notin Entry /\ calls'[r] \notin Return
  BY NoCall DEF Entry, Paying, Return
<1>2. CASE HasAskedPending(r)
  <2>1. i \in BillsOf(d) /\ bills[i].status # "Pending" /\ bills' = bills
    BY <1>2 DEF HasAskedPending, LiveOf, BillsOf
  <2>2. calls'[r].asked = "pending"
    BY <1>2 DEF HasAskedPending
  <2>3. QED
    BY <2>1, <2>2
<1>3. CASE StaysOrEnds(r) \/ HasAskedPaid(r)
  <2>1. calls[r] \in Paying /\ calls[r].by = d
    BY <1>1, <1>3 DEF StaysOrEnds, HasAskedPaid
  <2>2. since'[r] = since[r] \union Moved(d)
    BY <2>1 DEF Noticing
  <2>3. CASE i \in Moved(d)
    BY <2>2, <2>3
  <2>4. CASE i \notin Moved(d)
    <3>1. i \in LiveOf(d) /\ bills'[i] = bills[i]
      BY <2>1, <2>4, LiveOrMoved
    <3>2. bills[i].status = "Pending" \/ calls[r].asked = "paid"
      <4>1. CASE StaysOrEnds(r)
        BY <1>1, <3>1, <4>1 DEF StaysOrEnds
      <4>2. CASE HasAskedPaid(r)
        BY <3>1, <4>2 DEF HasAskedPaid, LiveOf
      <4>3. QED
        BY <1>3, <4>1, <4>2
    <3>3. QED
      BY <2>1, <2>2, <3>1, <3>2 DEF NoOtherBills
  <2>5. QED
    BY <2>3, <2>4
<1>4. QED
  BY <1>1, <1>2, <1>3 DEF RequestMoved, IsFound, IsNumbered, IsReturning

LEMMA AnswersStillHold ==
  ASSUME TeamsTypeOK, AnswersHold, TeamsNext
  PROVE  AnswersHold'
<1>1. ASSUME NEW r \in Requests  PROVE NumberHeld(r)' /\ NoOtherBills(r)'
  <2>1. RequestMoved(r) /\ Noticing
    BY RequestsMove DEF TeamsNext
  <2>2. QED
    BY <2>1, NumberStaysHeld, NoOtherBillsStill DEF AnswersHold
<1>2. QED
  BY <1>1 DEF AnswersHold

-----------------------------------------------------------------------------
(* Units stay in their teams.                                              *)

LEMMA OnlyEntriesAdd ==
  ASSUME TeamsTypeOK, TeamsStep, Len(rows') > Len(rows)
  PROVE  \E r \in Requests : AddParticipants(r)
<1>1. Len(rows) \in Nat
  BY RowsTyped
<1>2. ASSUME NEW I, WithoutRows(I)  PROVE FALSE
  <2>1. rows' \in Seq(Row) /\ Len(rows') <= Len(rows)
    BY <1>2, RemainingRows
  <2>2. Len(rows') \in Nat
    BY <2>1, LenProperties
  <2>3. QED
    BY <1>1, <2>1, <2>2
<1>3. ASSUME NEW i \in DOMAIN rows, NEW n \in 0 .. MaxNumber, Renumber(i, n)
      PROVE  FALSE
  <2>1. rows \in Seq(Row) /\ rows' = [rows EXCEPT ![i].number = n]
    BY <1>3 DEF Renumber, TeamsTypeOK
  <2>2. Len(rows') = Len(rows)
    BY <2>1
  <2>3. QED
    BY <1>1, <2>2
<1>4. rows' # rows
  BY <1>1
<1>5. CASE \E r \in Requests : TeamEntry(r) \/ BillRequest(r) \/ Abandon(r)
  BY <1>4, <1>5, RosterStays DEF TeamEntry, LookForTeam
<1>6. CASE \/ \E i \in DOMAIN rows : LeaveTeam(i)
           \/ AdminTeams
           \/ RosterMoves
           \/ \E i \in DOMAIN bills, s \in {"Paid", "Declined"} : ReviewBill(i, s)
  BY <1>2, <1>3, <1>4, <1>6
     DEF LeaveTeam, AdminTeams, Bar, Unbar, RosterMoves, Relocate, Erase, ReviewBill
<1>7. QED
  BY <1>5, <1>6 DEF TeamsStep

(* Members of a unit that enter with one of its numbers, or its first,     *)
(* keep it together; another unit's numbers stay.                          *)
LEMMA EntryKeepsNumbers ==
  ASSUME TeamsTypeOK, NEW r \in Requests, NumberHeld(r), AddParticipants(r),
         NEW g \in GroupEvents, NEW u \in Units,
         UnitNumbers(g, calls[r].unit) = calls[r].teams,
         \A m \in calls[r].members : home[m] = calls[r].unit,
         Cardinality(UnitNumbers(g, u)) <= 1
  PROVE  Cardinality(UnitNumbers(g, u)') \in Nat /\ Cardinality(UnitNumbers(g, u)') <= 1
<1>0. calls[r] \in Entry /\ calls[r].number # Nil
  BY DEF AddParticipants
<1>1. PICK h \in GroupEvents, n \in 0 .. MaxNumber, M \in SUBSET Members :
             /\ h = calls[r].event /\ n = calls[r].number /\ M = calls[r].members
             /\ rows' \in Seq(Row)
             /\ Len(rows') >= Len(rows)
             /\ \A i \in 1 .. Len(rows) : rows'[i] = rows[i]
             /\ \A i \in DOMAIN rows' \ DOMAIN rows :
                  rows'[i].event = h /\ rows'[i].member \in M /\ rows'[i].number = n
  BY EntryAdds
<1>2. PICK w \in Units :
             /\ \A m \in M : home[m] = w
             /\ g = h /\ UnitNumbers(h, w) # {} => n \in UnitNumbers(h, w)
             /\ UNCHANGED home
  BY <1>0, <1>1, EntryTyped DEF AddParticipants, NumberHeld
<1>3. UnitNumbers(g, u)' =
        {rows'[i].number : i \in {j \in DOMAIN rows' :
                                    rows'[j].event = g /\ home[rows'[j].member] = u}}
  BY <1>2 DEF UnitNumbers, NumbersAmong, RowsOf
<1>4. UnitNumbers(g, u) =
        {rows[i].number : i \in {j \in DOMAIN rows :
                                   rows[j].event = g /\ home[rows[j].member] = u}}
  BY DEF UnitNumbers, NumbersAmong, RowsOf
<1>5. ASSUME NEW x \in UnitNumbers(g, u)'
      PROVE  x \in UnitNumbers(g, u) \/ (x = n /\ g = h /\ u = w)
  <2>1. PICK i \in DOMAIN rows' :
               rows'[i].event = g /\ home[rows'[i].member] = u /\ x = rows'[i].number
    BY <1>3, <1>5
  <2>2. CASE i \in DOMAIN rows
    BY <1>1, <1>4, <2>1, <2>2, RowsTyped
  <2>3. CASE i \notin DOMAIN rows
    BY <1>1, <1>2, <2>1, <2>3
  <2>4. QED
    BY <2>2, <2>3
<1>6. UnitNumbers(g, u) \subseteq 0 .. MaxNumber
  BY <1>4, RowsTyped
<1>7. IsFiniteSet(0 .. MaxNumber)
  BY FS_Interval, TeamsAssumption
<1>8. IsFiniteSet(UnitNumbers(g, u))
  BY <1>6, <1>7, FS_Subset
<1>9. CASE \E x \in UnitNumbers(g, u)' : x \notin UnitNumbers(g, u)
  <2>1. g = h /\ u = w /\ n \notin UnitNumbers(g, u)
    BY <1>5, <1>9
  <2>2. UnitNumbers(g, u) = {}
    BY <1>2, <2>1
  <2>3. UnitNumbers(g, u)' \subseteq {n}
    BY <1>5, <2>2
  <2>4. IsFiniteSet({n}) /\ Cardinality({n}) = 1
    BY FS_Singleton
  <2>5. QED
    BY <2>3, <2>4, FS_Subset, FS_CardinalityType
<1>10. CASE UnitNumbers(g, u)' \subseteq UnitNumbers(g, u)
  <2>1. Cardinality(UnitNumbers(g, u)') <= Cardinality(UnitNumbers(g, u))
    BY <1>8, <1>10, FS_Subset
  <2>2. /\ Cardinality(UnitNumbers(g, u)) \in Nat
        /\ Cardinality(UnitNumbers(g, u)') \in Nat
    BY <1>8, <1>10, FS_Subset, FS_CardinalityType
  <2>3. QED
    BY <2>1, <2>2
<1>11. QED
  BY <1>9, <1>10

-----------------------------------------------------------------------------
(* Payments.                                                               *)

(* A second live payment is a declined one that is under review again, or  *)
(* the new one of a request that all the others have overtaken.            *)
LEMMA SecondPaymentReturnsOrRaces ==
  ASSUME TeamsTypeOK, AnswersHold, TeamsStep, NEW d \in Districts,
         ~(LiveOf(d)' \subseteq LiveOf(d))
  PROVE  \/ \E i \in BillsOf(d) : bills[i].status = "Declined" /\ i \in LiveOf(d)'
         \/ \E r \in Requests :
              CreateBill(r) /\ calls[r].by = d /\ LiveOf(d) \subseteq since[r]
<1>1. CASE bills' = bills
  BY <1>1 DEF LiveOf, BillsOf
<1>2. ASSUME NEW r \in Requests, CreateBill(r), calls[r].by \in Districts,
             bills' = Append(bills, [by |-> calls[r].by, status |-> "Pending"])
      PROVE  calls[r].by = d /\ LiveOf(d) \subseteq since[r]
  <2>1. /\ DOMAIN bills' = 1 .. Len(bills) + 1
        /\ \A k \in DOMAIN bills : bills'[k] = bills[k]
        /\ bills'[Len(bills) + 1].by = calls[r].by
    BY <1>2, BillAdded
  <2>2. \A k \in DOMAIN bills' : k \in DOMAIN bills \/ k = Len(bills) + 1
    BY <2>1, BillsTyped
  <2>3. calls[r].by = d
    BY <2>1, <2>2 DEF LiveOf, BillsOf
  <2>4. NoOtherBills(r) /\ calls[r] \in Paying /\ calls[r].asked = "paid"
    BY <1>2 DEF AnswersHold, CreateBill
  <2>5. QED
    BY <2>3, <2>4 DEF NoOtherBills
<1>3. ASSUME NEW i \in DOMAIN bills, NEW s \in {"Pending", "Paid", "Declined"},
             bills' = [bills EXCEPT ![i].status = s]
      PROVE  \E k \in BillsOf(d) : bills[k].status = "Declined" /\ k \in LiveOf(d)'
  <2>1. /\ DOMAIN bills' = DOMAIN bills
        /\ \A k \in DOMAIN bills :
             /\ bills'[k].by = bills[k].by
             /\ bills'[k].status = IF k = i THEN s ELSE bills[k].status
    BY <1>3, BillGiven
  <2>2. PICK k \in LiveOf(d)' : k \notin LiveOf(d)
    OBVIOUS
  <2>3. k \in BillsOf(d) /\ bills[k].status \notin {"Pending", "Paid"}
    BY <2>1, <2>2 DEF LiveOf, BillsOf
  <2>4. bills[k].status = "Declined"
    BY <2>3, BillsTyped DEF BillsOf
  <2>5. QED
    BY <2>2, <2>3, <2>4
<1>4. QED
  BY <1>1, <1>2, <1>3, BillMoves

-----------------------------------------------------------------------------
(* The catalogue.                                                          *)

(* CatalogueTypeOK is the rows of the tables and the requests in hand.     *)
CatalogueRows ==
  /\ TeamsTypeOK
  /\ codes \subseteq Codes
  /\ categories \in [Categories -> Titles \union {Nil}]
  /\ fees \in [Fees -> Fee \union {Nil}]
  /\ \A f \in Held(fees) : fees[f].code \in codes \union {Nil}
  /\ events \in [Events -> Event \union {Nil}]
  /\ \A v \in Held(events) :
       /\ events[v].category \in Held(categories) \union {Nil}
       /\ events[v].fee \in Held(fees) \union {Nil}
  /\ entered \subseteq Solo
  /\ entered \union {rows[i].event : i \in DOMAIN rows} \subseteq Held(events)
  /\ schedules \in [Slots -> Schedule \union {Nil}]

EditsTyped ==
  /\ edits \in [Admins -> Deletion \union Creation \union Update \union {Nil}]
  /\ changed \in [Admins -> SUBSET (Events \union Slots)]

LEMMA RowsAndEdits == CatalogueTypeOK <=> CatalogueRows /\ EditsTyped
BY DEF CatalogueTypeOK, CatalogueRows, EditsTyped

TablesTyped ==
  /\ codes \subseteq Codes
  /\ categories \in [Categories -> Titles \union {Nil}]
  /\ fees \in [Fees -> Fee \union {Nil}]
  /\ events \in [Events -> Event \union {Nil}]
  /\ entered \subseteq Solo
  /\ schedules \in [Slots -> Schedule \union {Nil}]

FeesNameCodes == \A f \in Held(fees) : fees[f].code \in codes \union {Nil}

EventsNameRows ==
  \A v \in Held(events) :
    /\ events[v].category \in Held(categories) \union {Nil}
    /\ events[v].fee \in Held(fees) \union {Nil}

UsedEventsStand ==
  entered \union {rows[i].event : i \in DOMAIN rows} \subseteq Held(events)

LEMMA CataloguePartsNext ==
  ASSUME TeamsTypeOK', TablesTyped', FeesNameCodes', EventsNameRows', UsedEventsStand'
  PROVE  CatalogueRows'
BY Zenon DEF CatalogueRows, TablesTyped, FeesNameCodes, EventsNameRows, UsedEventsStand

(* A deletion takes its column from the events it has loaded, and nothing  *)
(* else from any.                                                          *)
LEMMA CategoryTaken ==
  ASSUME events \in [Events -> Event \union {Nil}], NEW gone \in SUBSET Events,
         gone \subseteq Held(events), events' = Without(gone, "category")
  PROVE  /\ events' \in [Events -> Event \union {Nil}]
         /\ Held(events') = Held(events)
         /\ \A v \in Held(events) :
              /\ events'[v].fee = events[v].fee
              /\ events'[v].category = IF v \in gone THEN Nil ELSE events[v].category
<1>1. ASSUME NEW x \in Event
      PROVE  /\ [x EXCEPT !["category"] = Nil] \in Event
             /\ [x EXCEPT !["category"] = Nil].fee = x.fee
             /\ [x EXCEPT !["category"] = Nil].category = Nil
  BY DEF Event
<1>2. \A v \in Events : events'[v] = IF v \in gone THEN [events[v] EXCEPT !["category"] = Nil]
                                     ELSE events[v]
  BY DEF Without
<1>3. \A v \in gone : events[v] \in Event
  BY DEF Held
<1>4. ASSUME NEW v \in Events
      PROVE  (events'[v] # Nil) <=> (events[v] # Nil)
  <2>1. CASE v \in gone
    <3>1. events[v] \in Event /\ events'[v] \in Event
      BY <1>1, <1>2, <1>3, <2>1
    <3>2. QED
      BY <3>1, CatalogueAssumption
  <2>2. CASE v \notin gone
    BY <1>2, <2>2
  <2>3. QED
    BY <2>1, <2>2
<1>5. events' \in [Events -> Event \union {Nil}]
  BY <1>1, <1>2, <1>3 DEF Without
<1>6. Held(events') = Held(events)
  BY <1>4, <1>5 DEF Held
<1>7. QED
  BY <1>1, <1>2, <1>3, <1>5, <1>6 DEF Held

LEMMA FeeTaken ==
  ASSUME events \in [Events -> Event \union {Nil}], NEW gone \in SUBSET Events,
         gone \subseteq Held(events), events' = Without(gone, "fee")
  PROVE  /\ events' \in [Events -> Event \union {Nil}]
         /\ Held(events') = Held(events)
         /\ \A v \in Held(events) :
              /\ events'[v].category = events[v].category
              /\ events'[v].fee = IF v \in gone THEN Nil ELSE events[v].fee
<1>1. ASSUME NEW x \in Event
      PROVE  /\ [x EXCEPT !["fee"] = Nil] \in Event
             /\ [x EXCEPT !["fee"] = Nil].category = x.category
             /\ [x EXCEPT !["fee"] = Nil].fee = Nil
  BY DEF Event
<1>2. \A v \in Events : events'[v] = IF v \in gone THEN [events[v] EXCEPT !["fee"] = Nil]
                                     ELSE events[v]
  BY DEF Without
<1>3. \A v \in gone : events[v] \in Event
  BY DEF Held
<1>4. ASSUME NEW v \in Events
      PROVE  (events'[v] # Nil) <=> (events[v] # Nil)
  <2>1. CASE v \in gone
    <3>1. events[v] \in Event /\ events'[v] \in Event
      BY <1>1, <1>2, <1>3, <2>1
    <3>2. QED
      BY <3>1, CatalogueAssumption
  <2>2. CASE v \notin gone
    BY <1>2, <2>2
  <2>3. QED
    BY <2>1, <2>2
<1>5. events' \in [Events -> Event \union {Nil}]
  BY <1>1, <1>2, <1>3 DEF Without
<1>6. Held(events') = Held(events)
  BY <1>4, <1>5 DEF Held
<1>7. QED
  BY <1>1, <1>2, <1>3, <1>5, <1>6 DEF Held

(* What a request takes in hand changes no row.                            *)
LEMMA TakenRowsStay ==
  ASSUME CatalogueRows, UNCHANGED tvars, NEW a, NEW e, Takes(a, e)
  PROVE  CatalogueRows'
<1>1. UNCHANGED <<codes, categories, fees, events, entered, schedules>>
  BY DEF Takes
<1>2. TeamsTypeOK' /\ rows' = rows
  BY DEF CatalogueRows, TeamsTypeOK, tvars
<1>3. /\ Held(events)' = Held(events) /\ Held(fees)' = Held(fees)
      /\ Held(categories)' = Held(categories)
  BY <1>1
<1>4. QED
  BY <1>1, <1>2, <1>3 DEF CatalogueRows

LEMMA FeeStepRows ==
  ASSUME CatalogueRows, EditsTyped, FeeStep, UNCHANGED tvars
  PROVE  CatalogueRows'
<1> USE CatalogueAssumption
<1>1. TeamsTypeOK' /\ rows' = rows
  BY DEF CatalogueRows, TeamsTypeOK, tvars
<1>2. ASSUME NEW q \in Codes, UploadCode(q)  PROVE CatalogueRows'
  BY <1>1, <1>2 DEF UploadCode, CatalogueRows, Held, tvars
<1>3. ASSUME NEW c \in Categories, NEW n \in Titles,
             CreateCategory(c, n) \/ UpdateCategory(c, n)
      PROVE  CatalogueRows'
  <2>1. /\ categories' = [categories EXCEPT ![c] = n]
        /\ UNCHANGED <<codes, fees, events, entered, schedules>>
    BY <1>3 DEF CreateCategory, UpdateCategory
  <2>2. Held(categories) \subseteq Held(categories')
    BY <2>1 DEF CatalogueRows, Held
  <2>3. categories' \in [Categories -> Titles \union {Nil}]
    BY <2>1 DEF CatalogueRows
  <2>4. Held(events)' = Held(events) /\ Held(fees)' = Held(fees)
    BY <2>1
  <2>5. TablesTyped'
    BY <1>1, <2>1, <2>2, <2>3, <2>4 DEF CatalogueRows, TablesTyped, tvars
  <2>6. FeesNameCodes'
    BY <1>1, <2>1, <2>2, <2>3, <2>4 DEF CatalogueRows, FeesNameCodes, tvars
  <2>7. EventsNameRows'
    BY <1>1, <2>1, <2>2, <2>3, <2>4 DEF CatalogueRows, EventsNameRows, tvars
  <2>8. UsedEventsStand'
    BY <1>1, <2>1, <2>2, <2>3, <2>4 DEF CatalogueRows, UsedEventsStand, tvars
  <2>9. QED
    BY <1>1, <2>5, <2>6, <2>7, <2>8, CataloguePartsNext
<1>4. ASSUME NEW a \in Admins, DeleteCategory(a)  PROVE CatalogueRows'
  <2>1. PICK c \in Categories, gone \in SUBSET Solo :
               c = edits[a].row /\ gone = edits[a].loaded
    BY <1>4 DEF DeleteCategory, CategoryDeletion
  <2>2. /\ categories' = [categories EXCEPT ![c] = Nil]
        /\ gone \subseteq Held(events)
        /\ \A v \in Held(events) \ gone : events[v].category # c
        /\ events' = Without(gone, "category")
        /\ UNCHANGED <<codes, fees, entered, schedules>>
    BY <1>4, <2>1 DEF DeleteCategory
  <2>3. /\ events' \in [Events -> Event \union {Nil}]
        /\ Held(events') = Held(events)
        /\ \A v \in Held(events) :
             /\ events'[v].fee = events[v].fee
             /\ events'[v].category = IF v \in gone THEN Nil ELSE events[v].category
    <3>1. gone \in SUBSET Events
      BY DEF Events
    <3>2. QED
      BY <2>2, <3>1, CategoryTaken DEF CatalogueRows
  <2>4. /\ categories' \in [Categories -> Titles \union {Nil}]
        /\ Held(categories) \ {c} \subseteq Held(categories')
    BY <2>2 DEF CatalogueRows, Held
  <2>5. TablesTyped'
    BY <1>1, <2>2, <2>3, <2>4 DEF CatalogueRows, TablesTyped
  <2>6. FeesNameCodes'
    BY <2>2 DEF CatalogueRows, FeesNameCodes
  <2>7. EventsNameRows'
    <3>1. ASSUME NEW v \in Held(events)
          PROVE  /\ events'[v].category \in Held(categories') \union {Nil}
                 /\ events'[v].fee \in Held(fees') \union {Nil}
      BY <2>2, <2>3, <2>4 DEF CatalogueRows
    <3>2. QED
      BY <2>3, <3>1 DEF EventsNameRows
  <2>8. UsedEventsStand'
    BY <1>1, <2>2, <2>3 DEF CatalogueRows, UsedEventsStand
  <2>9. QED
    BY <1>1, <2>5, <2>6, <2>7, <2>8, CataloguePartsNext
<1>5. ASSUME NEW f \in Fees, NEW x \in Fee, x.code \in codes \union {Nil},
             fees' = [fees EXCEPT ![f] = x],
             UNCHANGED <<codes, categories, events, entered, schedules>>
      PROVE  CatalogueRows'
  <2>1. Held(fees) \subseteq Held(fees')
    BY <1>5 DEF CatalogueRows, Held
  <2>2. fees' \in [Fees -> Fee \union {Nil}]
    BY <1>5 DEF CatalogueRows
  <2>3. \A g \in Held(fees') : fees'[g].code \in codes \union {Nil}
    BY <1>5 DEF CatalogueRows, Held
  <2>4. Held(events)' = Held(events) /\ Held(categories)' = Held(categories)
    BY <1>5
  <2>5. TablesTyped'
    BY <1>1, <1>5, <2>1, <2>2, <2>3, <2>4 DEF CatalogueRows, TablesTyped, tvars
  <2>6. FeesNameCodes'
    BY <1>1, <1>5, <2>1, <2>2, <2>3, <2>4 DEF CatalogueRows, FeesNameCodes, tvars
  <2>7. EventsNameRows'
    BY <1>1, <1>5, <2>1, <2>2, <2>3, <2>4 DEF CatalogueRows, EventsNameRows, tvars
  <2>8. UsedEventsStand'
    BY <1>1, <1>5, <2>1, <2>2, <2>3, <2>4 DEF CatalogueRows, UsedEventsStand, tvars
  <2>9. QED
    BY <1>1, <2>5, <2>6, <2>7, <2>8, CataloguePartsNext
<1>6. ASSUME NEW f \in Fees, NEW n \in Titles, NEW q \in Codes \union {Nil},
             CreateFee(f, n, q)
      PROVE  CatalogueRows'
  <2>1. /\ q \in codes \union {Nil}
        /\ fees' = [fees EXCEPT ![f] = [name |-> n, code |-> q]]
        /\ UNCHANGED <<codes, categories, events, entered, schedules>>
    BY <1>6 DEF CreateFee
  <2>2. [name |-> n, code |-> q] \in Fee
    BY DEF Fee
  <2>3. QED
    BY <1>5, <2>1, <2>2
<1>7. ASSUME NEW f \in Fees, NEW n \in Titles, NEW q \in Codes \union {Nil},
             UpdateFee(f, n, q)
      PROVE  CatalogueRows'
  <2> DEFINE x == [name |-> n, code |-> IF q = Nil THEN fees[f].code ELSE q]
  <2>1. /\ f \in Held(fees)
        /\ q \in codes \union {Nil}
        /\ fees' = [fees EXCEPT ![f] = x]
        /\ UNCHANGED <<codes, categories, events, entered, schedules>>
    BY <1>7 DEF UpdateFee, Held, CatalogueRows
  <2>2. fees[f].code \in codes \union {Nil}
    BY <2>1 DEF CatalogueRows
  <2>3. x \in Fee /\ x.code \in codes \union {Nil}
    BY <2>1, <2>2 DEF Fee, CatalogueRows
  <2> HIDE DEF x
  <2>4. QED
    BY <1>5, <2>1, <2>3
<1>8. ASSUME NEW f \in Fees, NEW q \in Codes \union {Nil}, SetFeeCode(f, q)
      PROVE  CatalogueRows'
  <2> DEFINE x == [fees[f] EXCEPT !.code = q]
  <2>1. /\ fees[f] \in Fee
        /\ q \in codes \union {Nil}
        /\ fees' = [fees EXCEPT ![f] = x]
        /\ UNCHANGED <<codes, categories, events, entered, schedules>>
    BY <1>8 DEF SetFeeCode, Held, CatalogueRows
  <2>2. x \in Fee /\ x.code \in codes \union {Nil}
    BY <2>1 DEF Fee
  <2> HIDE DEF x
  <2>3. QED
    BY <1>5, <2>1, <2>2
<1>9. ASSUME NEW a \in Admins, DeleteFee(a)  PROVE CatalogueRows'
  <2>1. PICK f \in Fees, gone \in SUBSET Events :
               f = edits[a].row /\ gone = edits[a].loaded
    BY <1>9 DEF DeleteFee, FeeDeletion
  <2>2. /\ fees' = [fees EXCEPT ![f] = Nil]
        /\ gone \subseteq Held(events)
        /\ \A v \in Held(events) \ gone : events[v].fee # f
        /\ events' = Without(gone, "fee")
        /\ UNCHANGED <<codes, categories, entered, schedules>>
    BY <1>9, <2>1 DEF DeleteFee
  <2>3. /\ events' \in [Events -> Event \union {Nil}]
        /\ Held(events') = Held(events)
        /\ \A v \in Held(events) :
             /\ events'[v].category = events[v].category
             /\ events'[v].fee = IF v \in gone THEN Nil ELSE events[v].fee
    BY <2>2, FeeTaken DEF CatalogueRows
  <2>4. /\ fees' \in [Fees -> Fee \union {Nil}]
        /\ Held(fees) \ {f} \subseteq Held(fees')
        /\ \A g \in Held(fees') : fees'[g].code \in codes \union {Nil}
    BY <2>2 DEF CatalogueRows, Held
  <2>5. TablesTyped'
    BY <1>1, <2>2, <2>3, <2>4 DEF CatalogueRows, TablesTyped
  <2>6. FeesNameCodes'
    BY <2>2, <2>4 DEF FeesNameCodes
  <2>7. EventsNameRows'
    <3>1. ASSUME NEW v \in Held(events)
          PROVE  /\ events'[v].category \in Held(categories') \union {Nil}
                 /\ events'[v].fee \in Held(fees') \union {Nil}
      BY <2>2, <2>3, <2>4 DEF CatalogueRows
    <3>2. QED
      BY <2>3, <3>1 DEF EventsNameRows
  <2>8. UsedEventsStand'
    BY <1>1, <2>2, <2>3 DEF CatalogueRows, UsedEventsStand
  <2>9. QED
    BY <1>1, <2>5, <2>6, <2>7, <2>8, CataloguePartsNext
<1>10. ASSUME NEW a \in Admins, AskGroups(a) \/ LoadUsers(a) \/ LoadMembers(a)
       PROVE  CatalogueRows'
  BY <1>10, TakenRowsStay DEF AskGroups, LoadUsers, LoadMembers
<1>11. ASSUME NEW a \in Admins, NEW c \in Categories, AskCategory(a, c)
       PROVE  CatalogueRows'
  BY <1>11, TakenRowsStay DEF AskCategory
<1>12. ASSUME NEW a \in Admins, NEW f \in Fees, AskFee(a, f)
       PROVE  CatalogueRows'
  BY <1>12, TakenRowsStay DEF AskFee
<1>13. QED
  BY <1>2, <1>3, <1>4, <1>6, <1>7, <1>8, <1>9, <1>10, <1>11, <1>12 DEF FeeStep

LEMMA EventStepRows ==
  ASSUME CatalogueRows, EventStep, UNCHANGED tvars
  PROVE  CatalogueRows'
<1> USE CatalogueAssumption
<1>1. TeamsTypeOK' /\ rows' = rows
  BY DEF CatalogueRows, TeamsTypeOK, tvars
<1>2. ASSUME NEW v \in Events, NEW x \in Event,
             x.category \in Held(categories) \union {Nil},
             x.fee \in Held(fees) \union {Nil},
             events' = [events EXCEPT ![v] = x],
             UNCHANGED <<codes, categories, fees, entered, schedules>>
      PROVE  CatalogueRows'
  <2>1. Held(events) \subseteq Held(events')
    BY <1>2 DEF CatalogueRows, Held
  <2>2. events' \in [Events -> Event \union {Nil}]
    BY <1>2 DEF CatalogueRows
  <2>3. \A w \in Held(events') :
          /\ events'[w].category \in Held(categories) \union {Nil}
          /\ events'[w].fee \in Held(fees) \union {Nil}
    BY <1>2 DEF CatalogueRows, Held
  <2>4. Held(fees)' = Held(fees) /\ Held(categories)' = Held(categories)
    BY <1>2
  <2>5. TablesTyped'
    BY <1>1, <1>2, <2>1, <2>2, <2>3, <2>4 DEF CatalogueRows, TablesTyped
  <2>6. FeesNameCodes'
    BY <1>1, <1>2, <2>1, <2>2, <2>3, <2>4 DEF CatalogueRows, FeesNameCodes
  <2>7. EventsNameRows'
    BY <1>1, <1>2, <2>1, <2>2, <2>3, <2>4 DEF CatalogueRows, EventsNameRows
  <2>8. UsedEventsStand'
    <3>1. entered' = entered /\ rows' = rows
      BY <1>1, <1>2
    <3>2. entered \union {rows[i].event : i \in DOMAIN rows} \subseteq Held(events')
      BY <1>2, <2>1 DEF CatalogueRows
    <3>3. QED
      BY <3>1, <3>2 DEF UsedEventsStand
  <2>9. QED
    BY <1>1, <2>5, <2>6, <2>7, <2>8, CataloguePartsNext
<1>3. ASSUME NEW v \in Events, NEW c \in Categories \union {Nil},
             NEW f \in Fees \union {Nil}, NewEvent(v, c, f)
      PROVE  CatalogueRows'
  <2> DEFINE x == [category |-> c, fee |-> f]
  <2>1. /\ x \in Event
        /\ x.category \in Held(categories) \union {Nil}
        /\ x.fee \in Held(fees) \union {Nil}
    BY <1>3 DEF NewEvent, Event
  <2>2. /\ events' = [events EXCEPT ![v] = x]
        /\ UNCHANGED <<codes, categories, fees, entered, schedules>>
    BY <1>3 DEF NewEvent
  <2> HIDE DEF x
  <2>3. QED
    BY <1>2, <2>1, <2>2
<1>4. ASSUME NEW v \in Events, NEW c \in Categories \union {Nil},
             NEW f \in Fees \union {Nil}, UpdateEvent(v, c, f)
      PROVE  CatalogueRows'
  <2>1. /\ v \in Held(events)
        /\ c \in Held(categories) \union {Nil}
        /\ f \in Held(fees) \union {Nil}
        /\ events' = [events EXCEPT ![v] = Revised(events[v], c, f)]
        /\ UNCHANGED <<codes, categories, fees, entered, schedules>>
    BY <1>4 DEF UpdateEvent, Held, CatalogueRows
  <2>2. /\ events[v].category \in Held(categories) \union {Nil}
        /\ events[v].fee \in Held(fees) \union {Nil}
        /\ Held(categories) \subseteq Categories /\ Held(fees) \subseteq Fees
    BY <2>1 DEF CatalogueRows, Held
  <2>3. /\ Revised(events[v], c, f) \in Event
        /\ Revised(events[v], c, f).category \in Held(categories) \union {Nil}
        /\ Revised(events[v], c, f).fee \in Held(fees) \union {Nil}
    BY <2>1, <2>2 DEF Revised, Event
  <2>4. QED
    BY <1>2, <2>1, <2>3
<1>5. ASSUME NEW v \in Events,
             v \notin entered, v \notin {rows[i].event : i \in DOMAIN rows},
             events' = [events EXCEPT ![v] = Nil],
             UNCHANGED <<codes, categories, fees, entered, schedules>>
      PROVE  CatalogueRows'
  <2>1. Held(events) \ {v} = Held(events')
    BY <1>5 DEF CatalogueRows, Held
  <2>2. \A w \in Held(events') : events'[w] = events[w]
    BY <1>5, <2>1 DEF CatalogueRows, Held
  <2>3. events' \in [Events -> Event \union {Nil}]
    BY <1>5 DEF CatalogueRows
  <2>4. Held(fees)' = Held(fees) /\ Held(categories)' = Held(categories)
    BY <1>5
  <2>5. TablesTyped'
    BY <1>1, <1>5, <2>1, <2>2, <2>3, <2>4 DEF CatalogueRows, TablesTyped
  <2>6. FeesNameCodes'
    BY <1>1, <1>5, <2>1, <2>2, <2>3, <2>4 DEF CatalogueRows, FeesNameCodes
  <2>7. EventsNameRows'
    BY <1>1, <1>5, <2>1, <2>2, <2>3, <2>4 DEF CatalogueRows, EventsNameRows
  <2>8. UsedEventsStand'
    <3>1. entered' = entered /\ rows' = rows
      BY <1>1, <1>5
    <3>2. entered \union {rows[i].event : i \in DOMAIN rows} \subseteq Held(events')
      BY <1>5, <2>1 DEF CatalogueRows
    <3>3. QED
      BY <3>1, <3>2 DEF UsedEventsStand
  <2>9. QED
    BY <1>1, <2>5, <2>6, <2>7, <2>8, CataloguePartsNext
<1>6. ASSUME NEW v \in Solo, DeleteSoloEvent(v)  PROVE CatalogueRows'
  <2>1. /\ v \notin entered
        /\ events' = [events EXCEPT ![v] = Nil]
        /\ UNCHANGED <<codes, categories, fees, entered, schedules>>
    BY <1>6 DEF DeleteSoloEvent
  <2>2. v \notin {rows[i].event : i \in DOMAIN rows}
    BY RowsTyped DEF CatalogueRows
  <2>3. QED
    BY <1>5, <2>1, <2>2 DEF Events
<1>7. ASSUME NEW g \in GroupEvents, DeleteGroupEvent(g)  PROVE CatalogueRows'
  <2>1. /\ RowsOf(g) = {}
        /\ events' = [events EXCEPT ![g] = Nil]
        /\ UNCHANGED <<codes, categories, fees, entered, schedules>>
    BY <1>7 DEF DeleteGroupEvent
  <2>2. g \notin entered /\ g \notin {rows[i].event : i \in DOMAIN rows}
    BY <2>1 DEF CatalogueRows, RowsOf
  <2>3. QED
    BY <1>5, <2>1, <2>2 DEF Events
<1>8. ASSUME NEW v \in Solo, TakePart(v)  PROVE CatalogueRows'
  <2>1. /\ v \in Held(events)
        /\ entered' \subseteq entered \union {v}
        /\ UNCHANGED <<codes, categories, fees, events, schedules>>
    BY <1>8 DEF TakePart, Held, CatalogueRows, Events
  <2>2. /\ Held(events)' = Held(events) /\ Held(fees)' = Held(fees)
        /\ Held(categories)' = Held(categories)
    BY <2>1
  <2>3. QED
    BY <1>1, <2>1, <2>2 DEF CatalogueRows
<1>9. CASE \E c \in Categories \union {Nil}, f \in Fees \union {Nil} :
             \/ \E v \in Solo : CreateSoloEvent(v, c, f)
             \/ \E v \in Events : UpdateEvent(v, c, f)
  BY <1>3, <1>4, <1>9 DEF CreateSoloEvent, Events
<1>10. CASE \E g \in GroupEvents, f \in Fees \union {Nil} : CreateGroupEvent(g, f)
  BY <1>3, <1>10 DEF CreateGroupEvent, Events
<1>11. QED
  BY <1>6, <1>7, <1>8, <1>9, <1>10 DEF EventStep

(* The columns that an update gives, over a row, make a row; over the row  *)
(* that was read, the one that was given.                                  *)
LEMMA RewrittenTyped ==
  ASSUME NEW x \in Schedule, NEW y \in Schedule, NEW z \in Schedule
  PROVE  Rewritten(x, y, z) \in Schedule /\ Rewritten(x, x, z) = z
<1> DEFINE given(k) == IF z[k] = y[k] THEN x[k] ELSE z[k]
<1>1. /\ DOMAIN x = {"event", "stage", "from", "to", "live"}
      /\ DOMAIN z = DOMAIN x
  BY DEF Schedule
<1>2. /\ x.event \in Events /\ x.stage \in Stages /\ x.from \in Times
      /\ x.to \in Times /\ x.live \in BOOLEAN
      /\ z.event \in Events /\ z.stage \in Stages /\ z.from \in Times
      /\ z.to \in Times /\ z.live \in BOOLEAN
  BY DEF Schedule
<1>3. Rewritten(x, y, z) = [event |-> given("event"), stage |-> given("stage"),
                            from |-> given("from"), to |-> given("to"),
                            live |-> given("live")]
  BY <1>1 DEF Rewritten
<1>4. Rewritten(x, y, z) \in Schedule
  <2>1. /\ given("event") \in Events /\ given("stage") \in Stages
        /\ given("from") \in Times /\ given("to") \in Times /\ given("live") \in BOOLEAN
    BY <1>2
  <2> HIDE DEF given
  <2>2. QED
    BY <1>3, <2>1 DEF Schedule
<1>5. Rewritten(x, x, z) = z
  <2>1. \A k \in DOMAIN x : Rewritten(x, x, z)[k] = z[k]
    BY DEF Rewritten
  <2>2. Rewritten(x, x, z) = [k \in DOMAIN x |-> z[k]]
    BY <2>1 DEF Rewritten
  <2>3. z = [k \in DOMAIN z |-> z[k]]
    BY DEF Schedule
  <2>4. QED
    BY <1>1, <2>2, <2>3
<1>6. QED
  BY <1>4, <1>5

(* The request in hand is one of these.                                    *)
LEMMA EditTyped ==
  ASSUME EditsTyped, NEW a \in Admins
  PROVE  /\ edits[a] \in Creation => edits[a].new \in Schedule
         /\ edits[a] \in Update =>
              edits[a].row \in Slots /\ edits[a].old \in Schedule /\ edits[a].new \in Schedule
BY DEF Creation, Update

LEMMA ScheduleStepRows ==
  ASSUME CatalogueRows, EditsTyped, ScheduleStep, UNCHANGED tvars
  PROVE  CatalogueRows'
<1>1. ASSUME schedules' \in [Slots -> Schedule \union {Nil}],
             UNCHANGED <<codes, categories, fees, events, entered>>
      PROVE  CatalogueRows'
  <2>1. TeamsTypeOK' /\ rows' = rows
    BY DEF CatalogueRows, TeamsTypeOK, tvars
  <2>2. /\ Held(events)' = Held(events) /\ Held(fees)' = Held(fees)
        /\ Held(categories)' = Held(categories)
    BY <1>1
  <2>3. QED
    BY <1>1, <2>1, <2>2 DEF CatalogueRows
<1>2. ASSUME NEW a \in Admins, NEW s \in Slots, CreateSchedule(a, s)
      PROVE  CatalogueRows'
  <2>1. edits[a].new \in Schedule
    BY <1>2, EditTyped DEF CreateSchedule
  <2>2. QED
    BY <1>1, <1>2, <2>1 DEF CreateSchedule, CatalogueRows
<1>3. ASSUME NEW a \in Admins, UpdateSchedule(a)  PROVE CatalogueRows'
  <2>1. PICK s \in Slots, old \in Schedule, new \in Schedule :
               s = edits[a].row /\ old = edits[a].old /\ new = edits[a].new
    BY <1>3, EditTyped DEF UpdateSchedule
  <2>2. /\ schedules[s] # Nil
        /\ schedules' = [schedules EXCEPT ![s] = Rewritten(schedules[s], old, new)]
        /\ UNCHANGED <<codes, categories, fees, events, entered>>
    BY <1>3, <2>1 DEF UpdateSchedule
  <2>3. Rewritten(schedules[s], old, new) \in Schedule
    BY <2>2, RewrittenTyped DEF CatalogueRows
  <2>4. QED
    BY <1>1, <2>2, <2>3 DEF CatalogueRows
<1>4. ASSUME NEW s \in Slots, DeleteSchedule(s)  PROVE CatalogueRows'
  BY <1>1, <1>4 DEF DeleteSchedule, CatalogueRows
<1>5. ASSUME NEW a \in Admins, NEW x \in Schedule, CheckSchedule(a, x)
      PROVE  CatalogueRows'
  BY <1>5, TakenRowsStay DEF CheckSchedule
<1>6. ASSUME NEW a \in Admins, NEW x \in Schedule, NEW s \in Slots, CheckUpdate(a, s, x)
      PROVE  CatalogueRows'
  BY <1>6, TakenRowsStay DEF CheckUpdate
<1>7. QED
  BY <1>2, <1>3, <1>4, <1>5, <1>6 DEF ScheduleStep

LEMMA AdminStepRows ==
  ASSUME CatalogueRows, EditsTyped, AdminStep, UNCHANGED tvars
  PROVE  CatalogueRows'
<1>1. ASSUME NEW a \in Admins, GiveUp(a)  PROVE CatalogueRows'
  BY <1>1, TakenRowsStay DEF GiveUp
<1>2. QED
  BY <1>1, FeeStepRows, EventStepRows, ScheduleStepRows DEF AdminStep

LEMMA TeamStepRows ==
  ASSUME CatalogueRows, TeamStep, UNCHANGED cvars
  PROVE  CatalogueRows'
<1>1. TeamsTypeOK'
  BY TeamsNextTyped DEF TeamStep, CatalogueRows
<1>2. UNCHANGED <<codes, categories, fees, events, entered, schedules>>
  BY DEF cvars
<1>3. /\ Held(events)' = Held(events) /\ Held(fees)' = Held(fees)
      /\ Held(categories)' = Held(categories)
  BY <1>2
<1>4. ASSUME NEW i \in DOMAIN rows'  PROVE rows'[i].event \in Held(events)
  <2>1. events[rows'[i].event] # Nil
    BY DEF TeamStep
  <2>2. rows' \in Seq(Row) /\ i \in 1 .. Len(rows')
    BY <1>1, LenProperties DEF TeamsTypeOK
  <2>3. rows'[i] \in Row
    BY <2>2, ElementOfSeq
  <2>4. QED
    BY <2>1, <2>3 DEF CatalogueRows, Held, Events, Row
<1>5. QED
  BY <1>1, <1>2, <1>3, <1>4 DEF CatalogueRows

-----------------------------------------------------------------------------
(* The admins' requests.                                                   *)

LEMMA EditKinds ==
  /\ \A x \in FeeDeletion : x.what = "fee" /\ x # Nil
  /\ \A x \in CategoryDeletion : x.what = "category" /\ x # Nil
  /\ \A x \in Creation : x.what = "create" /\ x # Nil
  /\ \A x \in Update : x.what = "update" /\ x # Nil
<1>1. \A x \in Deletion \union Creation \union Update : x # Nil
  BY CatalogueAssumption
<1>2. QED
  BY <1>1 DEF Deletion, FeeDeletion, CategoryDeletion, Creation, Update

(* Neither of two schedules holds the other's time at its stage.           *)
Apart(x, y) == ~Overlap(x, y) /\ ~Overlap(y, x)

(* What a step makes of an admin's request.                                *)
EditStaysOrEnds(a) == edits'[a] \in {edits[a], Nil}

HasAskedCategory(a) ==
  /\ edits[a] = Nil /\ events' = events
  /\ edits'[a] \in CategoryDeletion /\ edits'[a].loaded = {}
  /\ \A v \in Held(events) \intersect Solo : events[v].category # edits'[a].row

HasLoadedMembers(a) ==
  /\ edits[a] \in CategoryDeletion /\ events' = events
  /\ edits'[a] \in CategoryDeletion /\ edits'[a].row = edits[a].row
  /\ edits'[a].loaded =
       {v \in Held(events) \intersect Solo : events[v].category = edits[a].row}

HasAskedFee(a) ==
  /\ edits[a] = Nil /\ events' = events
  /\ edits'[a] \in FeeDeletion /\ edits'[a].step = "solo" /\ edits'[a].loaded = {}
  /\ \A v \in Held(events) \intersect Solo : events[v].fee # edits'[a].row

HasAskedGroups(a) ==
  /\ edits[a] \in FeeDeletion /\ edits[a].step = "solo" /\ events' = events
  /\ edits'[a] \in FeeDeletion /\ edits'[a].row = edits[a].row
  /\ edits'[a].loaded = edits[a].loaded
  /\ \A v \in Held(events) \intersect GroupEvents : events[v].fee # edits[a].row

HasLoadedUsers(a) ==
  /\ edits[a] \in FeeDeletion /\ edits[a].step = "asked" /\ events' = events
  /\ edits'[a] \in FeeDeletion /\ edits'[a].row = edits[a].row
  /\ edits'[a].loaded = {v \in Held(events) : events[v].fee = edits[a].row}

HasCheckedNew(a) ==
  /\ edits[a] = Nil /\ schedules' = schedules
  /\ edits'[a] \in Creation
  /\ \A t \in Held(schedules) : Apart(edits'[a].new, schedules[t])

HasCheckedUpdate(a) ==
  /\ edits[a] = Nil /\ schedules' = schedules
  /\ edits'[a] \in Update
  /\ schedules[edits'[a].row] = edits'[a].old
  /\ \/ SamePlace(edits'[a].new, edits'[a].old)
     \/ \A t \in Held(schedules) \ {edits'[a].row} : Apart(edits'[a].new, schedules[t])

EditMoved(a) ==
  \/ EditStaysOrEnds(a)
  \/ HasAskedCategory(a) \/ HasLoadedMembers(a)
  \/ HasAskedFee(a) \/ HasAskedGroups(a) \/ HasLoadedUsers(a)
  \/ HasCheckedNew(a) \/ HasCheckedUpdate(a)

(* The three cases of the conflict check are all the ways there are for    *)
(* two intervals to overlap.                                               *)
LEMMA NoConflictNoOverlap ==
  ASSUME schedules \in [Slots -> Schedule \union {Nil}],
         NEW s, NEW x \in Schedule,
         ~Conflict(s, x.stage, x.from, x.to),
         NEW t \in Held(schedules) \ {s}
  PROVE  Apart(x, schedules[t])
<1>1. schedules[t] \in Schedule
  BY DEF Held
<1>2. /\ x.from \in Int /\ x.to \in Int
      /\ schedules[t].from \in Int /\ schedules[t].to \in Int
  BY <1>1 DEF Schedule, Times
<1>3. QED
  BY <1>2 DEF Conflict, Overlap, Apart

(* One request is taken a step further, and the others stay as they are.   *)
LEMMA OneEditMoves ==
  ASSUME EditsTyped, NEW a \in Admins, NEW e, edits' = [edits EXCEPT ![a] = e],
         edits'[a] = e => EditMoved(a)
  PROVE  /\ edits' = [b \in Admins |-> edits'[b]]
         /\ \A b \in Admins : EditMoved(b)
BY DEF EditsTyped, EditMoved, EditStaysOrEnds

LEMMA DeletionMoves ==
  ASSUME CatalogueRows, EditsTyped, NEW a \in Admins,
         \/ \E c \in Categories : AskCategory(a, c)
         \/ \E f \in Fees : AskFee(a, f)
         \/ LoadMembers(a) \/ AskGroups(a) \/ LoadUsers(a)
  PROVE  /\ edits' = [b \in Admins |-> edits'[b]]
         /\ \A b \in Admins : EditMoved(b)
<1>1. CASE \E c \in Categories : AskCategory(a, c)
  <2>1. PICK c \in Categories : AskCategory(a, c)
    BY <1>1
  <2> DEFINE e == [what |-> "category", row |-> c, step |-> "asked", loaded |-> {}]
  <2>2. /\ edits[a] = Nil /\ events' = events
        /\ edits' = [edits EXCEPT ![a] = e]
        /\ \A v \in Held(events) \intersect Solo : events[v].category # c
    BY <2>1 DEF AskCategory, Takes
  <2>3. e \in CategoryDeletion /\ e.row = c /\ e.loaded = {}
    BY DEF CategoryDeletion
  <2> HIDE DEF e
  <2>4. edits'[a] = e => EditMoved(a)
    BY <2>2, <2>3 DEF EditMoved, HasAskedCategory
  <2>5. QED
    BY <2>2, <2>4, OneEditMoves
<1>2. CASE \E f \in Fees : AskFee(a, f)
  <2>1. PICK f \in Fees : AskFee(a, f)
    BY <1>2
  <2> DEFINE e == [what |-> "fee", row |-> f, step |-> "solo", loaded |-> {}]
  <2>2. /\ edits[a] = Nil /\ events' = events
        /\ edits' = [edits EXCEPT ![a] = e]
        /\ \A v \in Held(events) \intersect Solo : events[v].fee # f
    BY <2>1 DEF AskFee, Takes
  <2>3. e \in FeeDeletion /\ e.row = f /\ e.step = "solo" /\ e.loaded = {}
    BY DEF FeeDeletion
  <2> HIDE DEF e
  <2>4. edits'[a] = e => EditMoved(a)
    BY <2>2, <2>3 DEF EditMoved, HasAskedFee
  <2>5. QED
    BY <2>2, <2>4, OneEditMoves
<1>3. CASE LoadMembers(a)
  <2> DEFINE gone == {v \in Held(events) \intersect Solo : events[v].category = edits[a].row}
             e == [edits[a] EXCEPT !.step = "loaded", !.loaded = gone]
  <2>1. /\ edits[a] \in CategoryDeletion /\ events' = events
        /\ edits' = [edits EXCEPT ![a] = e]
    BY <1>3 DEF LoadMembers, Takes
  <2>2. gone \subseteq Solo
    OBVIOUS
  <2> HIDE DEF gone
  <2>3. e \in CategoryDeletion /\ e.row = edits[a].row /\ e.loaded = gone
    BY <2>1, <2>2 DEF CategoryDeletion
  <2> HIDE DEF e
  <2>4. edits'[a] = e => EditMoved(a)
    BY <2>1, <2>3 DEF EditMoved, HasLoadedMembers, gone
  <2>5. QED
    BY <2>1, <2>4, OneEditMoves
<1>4. CASE AskGroups(a)
  <2> DEFINE e == [edits[a] EXCEPT !.step = "asked"]
  <2>1. /\ edits[a] \in FeeDeletion /\ edits[a].step = "solo" /\ events' = events
        /\ edits' = [edits EXCEPT ![a] = e]
        /\ \A v \in Held(events) \intersect GroupEvents : events[v].fee # edits[a].row
    BY <1>4 DEF AskGroups, Takes
  <2>2. e \in FeeDeletion /\ e.row = edits[a].row /\ e.loaded = edits[a].loaded
    BY <2>1 DEF FeeDeletion
  <2> HIDE DEF e
  <2>3. edits'[a] = e => EditMoved(a)
    BY <2>1, <2>2 DEF EditMoved, HasAskedGroups
  <2>4. QED
    BY <2>1, <2>3, OneEditMoves
<1>5. CASE LoadUsers(a)
  <2> DEFINE gone == {v \in Held(events) : events[v].fee = edits[a].row}
             e == [edits[a] EXCEPT !.step = "loaded", !.loaded = gone]
  <2>1. /\ edits[a] \in FeeDeletion /\ edits[a].step = "asked" /\ events' = events
        /\ edits' = [edits EXCEPT ![a] = e]
    BY <1>5 DEF LoadUsers, Takes
  <2>2. gone \subseteq Events
    BY DEF CatalogueRows, Held
  <2> HIDE DEF gone
  <2>3. e \in FeeDeletion /\ e.row = edits[a].row /\ e.loaded = gone
    BY <2>1, <2>2 DEF FeeDeletion
  <2> HIDE DEF e
  <2>4. edits'[a] = e => EditMoved(a)
    BY <2>1, <2>3 DEF EditMoved, HasLoadedUsers, gone
  <2>5. QED
    BY <2>1, <2>4, OneEditMoves
<1>6. QED
  BY <1>1, <1>2, <1>3, <1>4, <1>5

LEMMA ScheduleMoves ==
  ASSUME CatalogueRows, EditsTyped, NEW a \in Admins, NEW x \in Schedule,
         CheckSchedule(a, x) \/ \E s \in Slots : CheckUpdate(a, s, x)
  PROVE  /\ edits' = [b \in Admins |-> edits'[b]]
         /\ \A b \in Admins : EditMoved(b)
<1>0. schedules \in [Slots -> Schedule \union {Nil}]
  BY DEF CatalogueRows
<1>1. CASE CheckSchedule(a, x)
  <2> DEFINE e == [what |-> "create", new |-> x]
  <2>1. /\ edits[a] = Nil /\ schedules' = schedules
        /\ edits' = [edits EXCEPT ![a] = e]
        /\ ~Conflict(Nil, x.stage, x.from, x.to)
    BY <1>1 DEF CheckSchedule, Takes
  <2>2. e \in Creation /\ e.new = x
    BY DEF Creation
  <2> HIDE DEF e
  <2>3. \A t \in Held(schedules) : t # Nil => Apart(x, schedules[t])
    BY <1>0, <2>1, NoConflictNoOverlap
  <2>4. edits'[a] = e => EditMoved(a)
    BY <2>1, <2>2, <2>3, CatalogueAssumption DEF EditMoved, HasCheckedNew, Held, CatalogueRows
  <2>5. QED
    BY <2>1, <2>4, OneEditMoves
<1>2. CASE \E s \in Slots : CheckUpdate(a, s, x)
  <2>1. PICK s \in Slots : CheckUpdate(a, s, x)
    BY <1>2
  <2> DEFINE e == [what |-> "update", row |-> s, old |-> schedules[s], new |-> x]
  <2>2. /\ edits[a] = Nil /\ schedules' = schedules /\ schedules[s] # Nil
        /\ edits' = [edits EXCEPT ![a] = e]
        /\ ~SamePlace(x, schedules[s]) => ~Conflict(s, x.stage, x.from, x.to)
    BY <2>1 DEF CheckUpdate, Takes
  <2>3. schedules[s] \in Schedule
    BY <1>0, <2>2
  <2>4. e \in Update /\ e.row = s /\ e.old = schedules[s] /\ e.new = x
    BY <2>3 DEF Update
  <2> HIDE DEF e
  <2>5. SamePlace(x, schedules[s]) \/ \A t \in Held(schedules) \ {s} : Apart(x, schedules[t])
    BY <1>0, <2>2, NoConflictNoOverlap
  <2>6. edits'[a] = e => EditMoved(a)
    BY <2>2, <2>4, <2>5 DEF EditMoved, HasCheckedUpdate
  <2>7. QED
    BY <2>2, <2>6, OneEditMoves
<1>3. QED
  BY <1>1, <1>2

LEMMA EditsMove ==
  ASSUME CatalogueRows, EditsTyped, AdminStep
  PROVE  /\ edits' = [b \in Admins |-> edits'[b]]
         /\ \A b \in Admins : EditMoved(b)
<1> DEFINE Goal == /\ edits' = [b \in Admins |-> edits'[b]]
                   /\ \A b \in Admins : EditMoved(b)
<1> SUFFICES Goal
  OBVIOUS
<1>1. ASSUME edits' = edits  PROVE Goal
  BY <1>1 DEF EditsTyped, EditMoved, EditStaysOrEnds
<1>2. ASSUME NEW a \in Admins, edits' = [edits EXCEPT ![a] = Nil]  PROVE Goal
  BY <1>2, OneEditMoves DEF EditMoved, EditStaysOrEnds
<1> HIDE DEF Goal
<1>3. ASSUME NEW a \in Admins, NEW c \in Categories, AskCategory(a, c)  PROVE Goal
  BY <1>3, DeletionMoves DEF Goal
<1>4. ASSUME NEW a \in Admins, NEW f \in Fees, AskFee(a, f)  PROVE Goal
  BY <1>4, DeletionMoves DEF Goal
<1>5. ASSUME NEW a \in Admins, LoadMembers(a) \/ AskGroups(a) \/ LoadUsers(a)  PROVE Goal
  BY <1>5, DeletionMoves DEF Goal
<1>6. ASSUME NEW a \in Admins, DeleteFee(a) \/ DeleteCategory(a)  PROVE Goal
  BY <1>2, <1>6 DEF DeleteFee, DeleteCategory
<1>7. CASE FeeStep
  <2>1. CASE \E q \in Codes : UploadCode(q)
    BY <1>1, <2>1 DEF UploadCode
  <2>2. CASE \E c \in Categories, n \in Titles : CreateCategory(c, n) \/ UpdateCategory(c, n)
    BY <1>1, <2>2 DEF CreateCategory, UpdateCategory
  <2>3. CASE \E f \in Fees, n \in Titles, q \in Codes \union {Nil} :
               CreateFee(f, n, q) \/ UpdateFee(f, n, q)
    BY <1>1, <2>3 DEF CreateFee, UpdateFee
  <2>4. CASE \E f \in Fees, q \in Codes \union {Nil} : SetFeeCode(f, q)
    BY <1>1, <2>4 DEF SetFeeCode
  <2>5. QED
    BY <1>3, <1>4, <1>5, <1>6, <1>7, <2>1, <2>2, <2>3, <2>4 DEF FeeStep
<1>8. CASE EventStep
  <2>1. edits' = edits
    BY <1>8 DEF EventStep, CreateSoloEvent, CreateGroupEvent, NewEvent, UpdateEvent,
                DeleteSoloEvent, DeleteGroupEvent, TakePart
  <2>2. QED
    BY <1>1, <2>1
<1>9. CASE ScheduleStep
  <2>1. ASSUME NEW a \in Admins, NEW x \in Schedule,
               CheckSchedule(a, x) \/ \E s \in Slots : CheckUpdate(a, s, x)
        PROVE  Goal
    BY <2>1, ScheduleMoves DEF Goal
  <2>2. ASSUME NEW a \in Admins, UpdateSchedule(a) \/ \E s \in Slots : CreateSchedule(a, s)
        PROVE  Goal
    BY <1>2, <2>2 DEF UpdateSchedule, CreateSchedule
  <2>3. ASSUME NEW s \in Slots, DeleteSchedule(s)  PROVE Goal
    BY <1>1, <2>3 DEF DeleteSchedule
  <2>4. QED
    BY <1>9, <2>1, <2>2, <2>3 DEF ScheduleStep
<1>10. CASE \E a \in Admins : GiveUp(a)
  BY <1>2, <1>10 DEF GiveUp, Takes
<1>11. QED
  BY <1>7, <1>8, <1>9, <1>10 DEF AdminStep

-----------------------------------------------------------------------------
(* What an admin's request knows.                                          *)

(* A deletion knows of no event that names its row, of those it has asked  *)
(* about, but for those that others have changed since; a schedule that is *)
(* about to be written is apart from all those that were there and that    *)
(* nobody has changed since.                                               *)
FeeAsked(a) ==
  edits[a] \in FeeDeletion =>
    /\ edits[a].loaded \subseteq changed[a]
    /\ \A v \in Held(events) :
         /\ events[v].fee = edits[a].row
         /\ v \in Solo \/ edits[a].step # "solo"
         => v \in changed[a]

CategoryAsked(a) ==
  edits[a] \in CategoryDeletion =>
    /\ edits[a].loaded \subseteq changed[a]
    /\ \A v \in Held(events) \intersect Solo :
         events[v].category = edits[a].row => v \in changed[a]

NewChecked(a) ==
  edits[a] \in Creation =>
    \A t \in Held(schedules) \ changed[a] : Apart(edits[a].new, schedules[t])

UpdateChecked(a) ==
  edits[a] \in Update =>
    /\ edits[a].row \in changed[a] \/ schedules[edits[a].row] = edits[a].old
    /\ \/ SamePlace(edits[a].new, edits[a].old)
       \/ \A t \in Held(schedules) \ (changed[a] \union {edits[a].row}) :
            Apart(edits[a].new, schedules[t])

EditsHold ==
  \A a \in Admins : FeeAsked(a) /\ CategoryAsked(a) /\ NewChecked(a) /\ UpdateChecked(a)

(* What is not among the rows changed since a request looked is as it was. *)
LEMMA UnchangedSince ==
  ASSUME Watching, NEW a \in Admins, edits[a] # Nil, edits'[a] # Nil
  PROVE  /\ changed[a] \subseteq changed'[a]
         /\ \A v \in Events \ changed'[a] : events'[v] = events[v]
         /\ \A s \in Slots \ changed'[a] : schedules'[s] = schedules[s]
<1>1. changed'[a] = changed[a] \union Altered
  BY DEF Watching
<1>2. QED
  BY <1>1 DEF Altered

LEMMA FeeStaysAsked ==
  ASSUME CatalogueRows, CatalogueRows', EditsTyped, Watching,
         NEW a \in Admins, FeeAsked(a), EditMoved(a)
  PROVE  FeeAsked(a)'
<1> SUFFICES ASSUME edits'[a] \in FeeDeletion
             PROVE  /\ edits'[a].loaded \subseteq changed'[a]
                    /\ \A v \in Held(events') :
                         /\ events'[v].fee = edits'[a].row
                         /\ v \in Solo \/ edits'[a].step # "solo"
                         => v \in changed'[a]
  BY DEF FeeAsked
<1>1. edits'[a] # Nil /\ edits'[a] \notin CategoryDeletion \union Creation \union Update
  BY EditKinds
<1>2. Held(events') \subseteq Events /\ Held(events) \subseteq Events
  BY DEF CatalogueRows, Held
<1>3. CASE edits'[a] = edits[a]
  <2>1. edits[a] # Nil /\ edits[a] \in FeeDeletion
    BY <1>1, <1>3
  <2>2. /\ changed[a] \subseteq changed'[a]
        /\ \A v \in Events \ changed'[a] : events'[v] = events[v]
    BY <1>1, <2>1, UnchangedSince
  <2>3. \A v \in Held(events') \ changed'[a] : v \in Held(events) /\ events'[v] = events[v]
    BY <1>2, <2>2 DEF Held, CatalogueRows
  <2>4. QED
    BY <1>3, <2>1, <2>2, <2>3 DEF FeeAsked
<1>4. CASE HasAskedFee(a)
  BY <1>4 DEF HasAskedFee
<1>5. CASE HasAskedGroups(a)
  <2>1. /\ edits[a] \in FeeDeletion /\ edits[a] # Nil
        /\ events' = events
        /\ edits'[a].row = edits[a].row /\ edits'[a].loaded = edits[a].loaded
        /\ \A v \in Held(events) \intersect GroupEvents : events[v].fee # edits[a].row
    BY <1>5, EditKinds DEF HasAskedGroups
  <2>2. changed[a] \subseteq changed'[a]
    BY <1>1, <2>1, UnchangedSince
  <2>3. \A v \in Held(events) : v \in Solo \/ v \in GroupEvents
    BY <1>2 DEF Events
  <2>4. QED
    BY <2>1, <2>2, <2>3 DEF FeeAsked
<1>6. CASE HasLoadedUsers(a)
  <2>1. /\ edits[a] \in FeeDeletion /\ edits[a] # Nil /\ edits[a].step # "solo"
        /\ events' = events
        /\ edits'[a].row = edits[a].row
        /\ edits'[a].loaded = {v \in Held(events) : events[v].fee = edits[a].row}
    BY <1>6, EditKinds DEF HasLoadedUsers
  <2>2. changed[a] \subseteq changed'[a]
    BY <1>1, <2>1, UnchangedSince
  <2>3. QED
    BY <2>1, <2>2 DEF FeeAsked
<1>7. QED
  BY <1>1, <1>3, <1>4, <1>5, <1>6
     DEF EditMoved, EditStaysOrEnds, HasAskedCategory, HasLoadedMembers, HasCheckedNew,
         HasCheckedUpdate

LEMMA CategoryStaysAsked ==
  ASSUME CatalogueRows, CatalogueRows', EditsTyped, Watching,
         NEW a \in Admins, CategoryAsked(a), EditMoved(a)
  PROVE  CategoryAsked(a)'
<1> SUFFICES ASSUME edits'[a] \in CategoryDeletion
             PROVE  /\ edits'[a].loaded \subseteq changed'[a]
                    /\ \A v \in Held(events') \intersect Solo :
                         events'[v].category = edits'[a].row => v \in changed'[a]
  BY DEF CategoryAsked
<1>1. edits'[a] # Nil /\ edits'[a] \notin FeeDeletion \union Creation \union Update
  BY EditKinds
<1>2. CASE edits'[a] = edits[a]
  <2>1. edits[a] # Nil /\ edits[a] \in CategoryDeletion
    BY <1>1, <1>2
  <2>2. /\ changed[a] \subseteq changed'[a]
        /\ \A v \in Events \ changed'[a] : events'[v] = events[v]
    BY <1>1, <2>1, UnchangedSince
  <2>3. \A v \in Held(events') \ changed'[a] : v \in Held(events) /\ events'[v] = events[v]
    BY <2>2 DEF Held, CatalogueRows
  <2>4. QED
    BY <1>2, <2>1, <2>2, <2>3 DEF CategoryAsked
<1>3. CASE HasAskedCategory(a)
  BY <1>3 DEF HasAskedCategory
<1>4. CASE HasLoadedMembers(a)
  <2>1. /\ edits[a] \in CategoryDeletion /\ edits[a] # Nil
        /\ events' = events
        /\ edits'[a].row = edits[a].row
        /\ edits'[a].loaded =
             {v \in Held(events) \intersect Solo : events[v].category = edits[a].row}
    BY <1>4, EditKinds DEF HasLoadedMembers
  <2>2. changed[a] \subseteq changed'[a]
    BY <1>1, <2>1, UnchangedSince
  <2>3. QED
    BY <2>1, <2>2 DEF CategoryAsked
<1>5. QED
  BY <1>1, <1>2, <1>3, <1>4
     DEF EditMoved, EditStaysOrEnds, HasAskedFee, HasAskedGroups, HasLoadedUsers,
         HasCheckedNew, HasCheckedUpdate

LEMMA NewStaysChecked ==
  ASSUME CatalogueRows, CatalogueRows', EditsTyped, Watching,
         NEW a \in Admins, NewChecked(a), EditMoved(a)
  PROVE  NewChecked(a)'
<1> SUFFICES ASSUME edits'[a] \in Creation, NEW t \in Held(schedules'), t \notin changed'[a]
             PROVE  Apart(edits'[a].new, schedules'[t])
  BY DEF NewChecked, Apart, Overlap
<1>1. edits'[a] # Nil /\ edits'[a] \notin Deletion \union Update
  BY EditKinds DEF Deletion
<1>2. CASE edits'[a] = edits[a]
  <2>1. edits[a] # Nil /\ edits[a] \in Creation
    BY <1>1, <1>2
  <2>2. t \in Slots
    BY DEF Held, CatalogueRows
  <2>3. t \notin changed[a] /\ schedules'[t] = schedules[t]
    BY <1>1, <2>1, <2>2, UnchangedSince
  <2>4. t \in Held(schedules)
    BY <2>2, <2>3 DEF Held, CatalogueRows
  <2>5. QED
    BY <1>2, <2>1, <2>3, <2>4 DEF NewChecked
<1>3. CASE HasCheckedNew(a)
  BY <1>3 DEF HasCheckedNew
<1>4. QED
  BY <1>1, <1>2, <1>3
     DEF EditMoved, EditStaysOrEnds, HasAskedFee, HasAskedGroups, HasLoadedUsers,
         HasAskedCategory, HasLoadedMembers, HasCheckedUpdate, Deletion

LEMMA UpdateStaysChecked ==
  ASSUME CatalogueRows, CatalogueRows', EditsTyped, Watching,
         NEW a \in Admins, UpdateChecked(a), EditMoved(a)
  PROVE  UpdateChecked(a)'
<1> SUFFICES ASSUME edits'[a] \in Update
             PROVE  /\ edits'[a].row \in changed'[a] \/ schedules'[edits'[a].row] = edits'[a].old
                    /\ \/ SamePlace(edits'[a].new, edits'[a].old)
                       \/ \A t \in Held(schedules') \ (changed'[a] \union {edits'[a].row}) :
                            Apart(edits'[a].new, schedules'[t])
  BY DEF UpdateChecked, Apart, Overlap, SamePlace
<1>1. edits'[a] # Nil /\ edits'[a] \notin Deletion \union Creation
  BY EditKinds DEF Deletion
<1>2. CASE edits'[a] = edits[a]
  <2>1. edits[a] # Nil /\ edits[a] \in Update /\ edits[a].row \in Slots
    BY <1>1, <1>2 DEF Update
  <2>2. /\ changed[a] \subseteq changed'[a]
        /\ \A t \in Slots \ changed'[a] : schedules'[t] = schedules[t]
    BY <1>1, <2>1, UnchangedSince
  <2>3. \A t \in Held(schedules') \ changed'[a] :
          t \in Held(schedules) /\ schedules'[t] = schedules[t]
    BY <2>2 DEF Held, CatalogueRows
  <2>4. edits'[a].row \in changed'[a] \/ schedules'[edits'[a].row] = edits'[a].old
    BY <1>2, <2>1, <2>2 DEF UpdateChecked
  <2>5. CASE SamePlace(edits[a].new, edits[a].old)
    BY <1>2, <2>4, <2>5
  <2>6. CASE \A t \in Held(schedules) \ (changed[a] \union {edits[a].row}) :
               Apart(edits[a].new, schedules[t])
    <3>1. ASSUME NEW t \in Held(schedules') \ (changed'[a] \union {edits'[a].row})
          PROVE  Apart(edits'[a].new, schedules'[t])
      BY <1>2, <2>2, <2>3, <2>6
    <3>2. QED
      BY <2>4, <3>1
  <2>7. QED
    BY <2>1, <2>5, <2>6 DEF UpdateChecked
<1>3. CASE HasCheckedUpdate(a)
  BY <1>3 DEF HasCheckedUpdate
<1>4. QED
  BY <1>1, <1>2, <1>3
     DEF EditMoved, EditStaysOrEnds, HasAskedFee, HasAskedGroups, HasLoadedUsers,
         HasAskedCategory, HasLoadedMembers, HasCheckedNew, Deletion

(* The inductive invariant: the types of the rows and of the requests, and *)
(* what each request in hand still knows.                                  *)
CatalogueInv == CatalogueTypeOK /\ AnswersHold /\ EditsHold

LEMMA CatalogueInitHolds ==
  ASSUME CatalogueInit
  PROVE  CatalogueInv
<1> USE CatalogueAssumption, TeamsAssumption DEF CatalogueInit
<1>1. rows = << >> /\ DOMAIN rows = {} /\ bills = << >>
  BY DEF TeamsInit
<1>2. TeamsTypeOK
  <2>1. \A r \in Requests : calls[r] \notin Return
    BY NoCall DEF TeamsInit
  <2>2. QED
    BY <1>1, <2>1, EmptySeq DEF TeamsInit, TeamsTypeOK
<1>3. events \in [Events -> Event \union {Nil}]
  BY DEF Bare, Event
<1>4. \A v \in Held(events) : events[v].category = Nil /\ events[v].fee = Nil
  BY DEF Held, Bare
<1>5. Held(fees) = {}
  BY DEF Held
<1>6. EditsTyped
  BY DEF EditsTyped
<1>7. CatalogueRows
  BY <1>1, <1>2, <1>3, <1>4, <1>5 DEF CatalogueRows
<1>8. AnswersHold
  BY NoCall DEF TeamsInit, AnswersHold, NumberHeld, NoOtherBills
<1>9. EditsHold
  BY EditKinds DEF EditsHold, FeeAsked, CategoryAsked, NewChecked, UpdateChecked
<1>10. QED
  BY <1>6, <1>7, <1>8, <1>9, RowsAndEdits DEF CatalogueInv

LEMMA CatalogueAdminHolds ==
  ASSUME CatalogueInv, AdminStep, Watching, UNCHANGED tvars
  PROVE  CatalogueInv'
<1>1. CatalogueRows /\ EditsTyped
  BY RowsAndEdits DEF CatalogueInv
<1>2. CatalogueRows'
  BY <1>1, AdminStepRows
<1>3. /\ edits' = [b \in Admins |-> edits'[b]]
      /\ \A b \in Admins : EditMoved(b)
  BY <1>1, EditsMove
<1>4. ASSUME NEW a \in Admins
      PROVE  edits'[a] \in Deletion \union Creation \union Update \union {Nil}
  BY <1>1, <1>3, <1>4
     DEF EditsTyped, EditMoved, EditStaysOrEnds, HasAskedCategory, HasLoadedMembers,
         HasAskedFee, HasAskedGroups, HasLoadedUsers, HasCheckedNew, HasCheckedUpdate,
         Deletion
<1>5. changed' \in [Admins -> SUBSET (Events \union Slots)]
  <2>1. Altered \subseteq Events \union Slots
    BY DEF Altered
  <2>2. QED
    BY <1>1, <2>1 DEF Watching, EditsTyped
<1>6. EditsTyped'
  BY <1>3, <1>4, <1>5 DEF EditsTyped
<1>7. AnswersHold'
  BY DEF CatalogueInv, tvars, AnswersHold, NumberHeld, NoOtherBills, LiveOf, BillsOf
<1>8. ASSUME NEW a \in Admins
      PROVE  FeeAsked(a)' /\ CategoryAsked(a)' /\ NewChecked(a)' /\ UpdateChecked(a)'
  <2>1. FeeAsked(a) /\ CategoryAsked(a) /\ NewChecked(a) /\ UpdateChecked(a)
    BY DEF CatalogueInv, EditsHold
  <2>2. QED
    BY <1>1, <1>2, <1>3, <2>1, FeeStaysAsked, CategoryStaysAsked, NewStaysChecked,
       UpdateStaysChecked
<1>9. EditsHold'
  BY <1>8 DEF EditsHold
<1>10. CatalogueTypeOK'
  <2>1. CatalogueRows' /\ EditsTyped'
    BY <1>2, <1>6
  <2>2. QED
    BY <2>1 DEF CatalogueTypeOK, CatalogueRows, EditsTyped
<1>11. QED
  BY <1>7, <1>9, <1>10 DEF CatalogueInv

LEMMA CatalogueStays ==
  ASSUME CatalogueInv, UNCHANGED cvars, TeamsTypeOK', AnswersHold', CatalogueRows'
  PROVE  CatalogueInv'
<1>1. UNCHANGED <<edits, changed, events, schedules>>
  BY DEF cvars
<1>2. EditsTyped'
  BY <1>1 DEF CatalogueInv, CatalogueTypeOK, EditsTyped
<1>3. EditsHold'
  BY <1>1 DEF CatalogueInv, EditsHold, FeeAsked, CategoryAsked, NewChecked, UpdateChecked
<1>4. CatalogueTypeOK'
  BY <1>2 DEF CatalogueTypeOK, CatalogueRows, EditsTyped
<1>5. QED
  BY <1>3, <1>4 DEF CatalogueInv

LEMMA CatalogueNextHolds ==
  ASSUME CatalogueInv, [CatalogueNext]_<<tvars, cvars>>
  PROVE  CatalogueInv'
<1>1. CatalogueRows /\ TeamsTypeOK /\ AnswersHold
  BY RowsAndEdits DEF CatalogueInv, CatalogueRows
<1>2. CASE TeamStep /\ UNCHANGED cvars
  <2>1. TeamsTypeOK' /\ AnswersHold'
    BY <1>1, <1>2, TeamsNextTyped, AnswersStillHold DEF TeamStep
  <2>2. QED
    BY <1>1, <1>2, <2>1, TeamStepRows, CatalogueStays
<1>3. CASE AdminStep /\ Watching /\ UNCHANGED tvars
  BY <1>3, CatalogueAdminHolds
<1>4. CASE UNCHANGED <<tvars, cvars>>
  <2>1. UNCHANGED cvars /\ UNCHANGED tvars
    BY <1>4
  <2>2. TeamsTypeOK'
    BY <1>1, <2>1 DEF TeamsTypeOK, tvars
  <2>3. AnswersHold'
    BY <1>1, <2>1 DEF tvars, AnswersHold, NumberHeld, NoOtherBills, LiveOf, BillsOf
  <2>4. CatalogueRows'
    BY <1>1, <2>1, <2>2 DEF CatalogueRows, cvars, tvars, Held
  <2>5. QED
    BY <2>1, <2>2, <2>3, <2>4, CatalogueStays
<1>5. QED
  BY <1>2, <1>3, <1>4 DEF CatalogueNext

LEMMA CatalogueAlwaysHolds == CatalogueSpec => []CatalogueInv
BY CatalogueInitHolds, CatalogueNextHolds, PTL DEF CatalogueSpec

-----------------------------------------------------------------------------
(* Fees and categories of events.                                          *)

(* An event that has lost its fee or its category is one of those that a   *)
(* deletion has taken in hand.                                             *)
FeesLostByRace ==
  \A v \in Held(events) \intersect Held(events') :
    /\ events[v].fee # Nil /\ events'[v].fee = Nil
       => \E a \in Admins : DeleteFee(a) /\ v \in changed[a]
    /\ events[v].category # Nil /\ events'[v].category = Nil
       => v \in Solo /\ \E a \in Admins : DeleteCategory(a) /\ v \in changed[a]

LEMMA EventStepKeeps ==
  ASSUME events \in [Events -> Event \union {Nil}], EventStep
  PROVE  FeesLostByRace
<1> DEFINE Kept == \A v \in Held(events) \intersect Held(events') :
                     /\ events[v].fee # Nil => events'[v].fee # Nil
                     /\ events[v].category # Nil => events'[v].category # Nil
<1>1. ASSUME NEW v \in Events, NEW c \in Categories \union {Nil},
             NEW f \in Fees \union {Nil}, NewEvent(v, c, f)
      PROVE  Kept
  BY <1>1 DEF NewEvent, Held
<1>2. ASSUME NEW v \in Events, NEW c \in Categories \union {Nil},
             NEW f \in Fees \union {Nil}, UpdateEvent(v, c, f)
      PROVE  Kept
  <2>1. events' = [events EXCEPT ![v] = Revised(events[v], c, f)]
    BY <1>2 DEF UpdateEvent
  <2>2. /\ events[v].fee # Nil => Revised(events[v], c, f).fee # Nil
        /\ events[v].category # Nil => Revised(events[v], c, f).category # Nil
    BY DEF Revised
  <2>3. QED
    BY <2>1, <2>2 DEF Held
<1>3. ASSUME NEW v \in Events, events' = [events EXCEPT ![v] = Nil]
      PROVE  Kept
  BY <1>3 DEF Held
<1>4. ASSUME events' = events  PROVE Kept
  BY <1>4 DEF Held
<1> SUFFICES Kept
  BY DEF FeesLostByRace
<1> HIDE DEF Kept
<1>5. CASE \E c \in Categories \union {Nil}, f \in Fees \union {Nil} :
             \/ \E v \in Solo : CreateSoloEvent(v, c, f)
             \/ \E v \in Events : UpdateEvent(v, c, f)
  BY <1>1, <1>2, <1>5 DEF CreateSoloEvent, Events
<1>6. CASE \E g \in GroupEvents, f \in Fees \union {Nil} : CreateGroupEvent(g, f)
  BY <1>1, <1>6 DEF CreateGroupEvent, Events
<1>7. CASE \E v \in Solo : DeleteSoloEvent(v) \/ TakePart(v)
  BY <1>3, <1>4, <1>7 DEF DeleteSoloEvent, TakePart, Events
<1>8. CASE \E g \in GroupEvents : DeleteGroupEvent(g)
  BY <1>3, <1>8 DEF DeleteGroupEvent, Events
<1>9. QED
  BY <1>5, <1>6, <1>7, <1>8 DEF EventStep

LEMMA DeletionLosesByRace ==
  ASSUME CatalogueRows, EditsTyped, EditsHold, NEW a \in Admins,
         DeleteFee(a) \/ DeleteCategory(a)
  PROVE  FeesLostByRace
<1>0. events \in [Events -> Event \union {Nil}]
  BY DEF CatalogueRows
<1>1. CASE DeleteFee(a)
  <2>1. PICK gone \in SUBSET Events :
               /\ gone = edits[a].loaded /\ gone \subseteq Held(events)
               /\ events' = Without(gone, "fee")
    BY <1>1 DEF DeleteFee, FeeDeletion
  <2>2. \A v \in Held(events) :
          /\ events'[v].category = events[v].category
          /\ events'[v].fee = IF v \in gone THEN Nil ELSE events[v].fee
    BY <1>0, <2>1, FeeTaken
  <2>3. gone \subseteq changed[a]
    BY <1>1, <2>1 DEF EditsHold, FeeAsked, DeleteFee
  <2>4. QED
    BY <1>1, <2>2, <2>3 DEF FeesLostByRace
<1>2. CASE DeleteCategory(a)
  <2>1. PICK gone \in SUBSET Solo :
               /\ gone = edits[a].loaded /\ gone \subseteq Held(events)
               /\ events' = Without(gone, "category")
    BY <1>2 DEF DeleteCategory, CategoryDeletion
  <2>2. gone \in SUBSET Events
    BY DEF Events
  <2>3. \A v \in Held(events) :
          /\ events'[v].fee = events[v].fee
          /\ events'[v].category = IF v \in gone THEN Nil ELSE events[v].category
    BY <1>0, <2>1, <2>2, CategoryTaken
  <2>4. gone \subseteq changed[a]
    BY <1>2, <2>1 DEF EditsHold, CategoryAsked, DeleteCategory
  <2>5. QED
    BY <1>2, <2>3, <2>4 DEF FeesLostByRace
<1>3. QED
  BY <1>1, <1>2

LEMMA AdminStepLosesByRace ==
  ASSUME CatalogueRows, EditsTyped, EditsHold, AdminStep
  PROVE  FeesLostByRace
<1>1. CASE events' = events
  BY <1>1 DEF Held, FeesLostByRace
<1>2. CASE EventStep
  BY <1>2, EventStepKeeps DEF CatalogueRows
<1>3. CASE FeeStep
  BY <1>1, <1>3, DeletionLosesByRace
     DEF FeeStep, UploadCode, CreateCategory, UpdateCategory, CreateFee, UpdateFee,
         SetFeeCode, AskCategory, AskFee, AskGroups, LoadUsers, LoadMembers, Takes
<1>4. CASE ScheduleStep \/ \E a \in Admins : GiveUp(a)
  BY <1>1, <1>4
     DEF ScheduleStep, CheckSchedule, CheckUpdate, CreateSchedule, UpdateSchedule,
         DeleteSchedule, GiveUp, Takes
<1>5. QED
  BY <1>2, <1>3, <1>4 DEF AdminStep

-----------------------------------------------------------------------------
(* Schedules.                                                              *)

(* What a property of two schedules says of a step.                        *)
RevivedOrBefore(s, t) ==
  \/ {s, t} \subseteq Held(schedules) /\ Overlap(schedules[s], schedules[t])
  \/ \E x \in {s, t} :
       /\ x \in Held(schedules)
       /\ ~schedules[x].live
       /\ SamePlace(schedules[x], schedules[x]')

Overtaken(s, t) ==
  \E a \in Admins :
    \/ CreateSchedule(a, s) /\ t \in changed[a]
    \/ CreateSchedule(a, t) /\ s \in changed[a]
    \/ UpdateSchedule(a) /\ changed[a] \intersect {s, t} # {}

(* One schedule is written: in its place, or apart from the other one.     *)
LEMMA WrittenOverlaps ==
  ASSUME schedules \in [Slots -> Schedule \union {Nil}],
         NEW w \in Slots, NEW x \in Schedule,
         schedules' = [schedules EXCEPT ![w] = x],
         NEW s \in Held(schedules'), NEW t \in Held(schedules'), s # t,
         \/ w \in Held(schedules) /\ SamePlace(x, schedules[w])
         \/ \A b \in (Held(schedules) \intersect {s, t}) \ {w} : Apart(x, schedules[b]),
         Overlap(schedules'[s], schedules'[t])
  PROVE  RevivedOrBefore(s, t)
<1>1. \A b \in Held(schedules') \ {w} :
        b \in Held(schedules) /\ schedules'[b] = schedules[b]
  BY DEF Held
<1>2. schedules'[w] = x
  OBVIOUS
<1>3. CASE w \notin {s, t}
  BY <1>1, <1>3 DEF RevivedOrBefore
<1>4. CASE /\ w \in {s, t}
           /\ \A b \in (Held(schedules) \intersect {s, t}) \ {w} : Apart(x, schedules[b])
  BY <1>1, <1>2, <1>4 DEF Apart
<1>5. CASE w \in {s, t} /\ w \in Held(schedules) /\ SamePlace(x, schedules[w])
  <2>1. CASE schedules[w].live
    <3>1. {s, t} \subseteq Held(schedules)
      BY <1>1, <1>5
    <3>2. Overlap(schedules[s], schedules[t])
      <4>1. CASE s = w
        <5>1. schedules'[s] = x /\ schedules'[t] = schedules[t]
          BY <1>1, <1>2, <4>1
        <5>2. QED
          BY <1>5, <2>1, <4>1, <5>1 DEF Overlap, SamePlace
      <4>2. CASE t = w
        <5>1. schedules'[t] = x /\ schedules'[s] = schedules[s]
          BY <1>1, <1>2, <4>2
        <5>2. QED
          BY <1>5, <2>1, <4>2, <5>1 DEF Overlap, SamePlace
      <4>3. QED
        BY <1>5, <4>1, <4>2
    <3>3. QED
      BY <3>1, <3>2 DEF RevivedOrBefore
  <2>2. CASE ~schedules[w].live
    <3>1. SamePlace(schedules[w], schedules[w]')
      BY <1>2, <1>5 DEF SamePlace
    <3>2. QED
      BY <1>5, <2>2, <3>1 DEF RevivedOrBefore
  <2>3. QED
    BY <2>1, <2>2
<1>6. QED
  BY <1>3, <1>4, <1>5

LEMMA CreationOverlaps ==
  ASSUME CatalogueRows, EditsTyped, EditsHold, NEW a \in Admins, NEW w \in Slots,
         CreateSchedule(a, w),
         NEW s \in Held(schedules'), NEW t \in Held(schedules'), s # t,
         Overlap(schedules'[s], schedules'[t])
  PROVE  RevivedOrBefore(s, t) \/ Overtaken(s, t)
<1>1. schedules \in [Slots -> Schedule \union {Nil}]
  BY DEF CatalogueRows
<1>2. PICK x \in Schedule : x = edits[a].new
  BY EditTyped DEF CreateSchedule
<1>3. schedules' = [schedules EXCEPT ![w] = x]
  BY <1>2 DEF CreateSchedule
<1>4. \A b \in Held(schedules) \ changed[a] : Apart(x, schedules[b])
  BY <1>2 DEF EditsHold, NewChecked, CreateSchedule
<1>5. CASE \E b \in (Held(schedules) \intersect {s, t}) \ {w} : b \in changed[a]
  <2>1. CASE w \in {s, t}
    BY <1>5, <2>1 DEF Overtaken
  <2>2. CASE w \notin {s, t}
    BY <1>1, <1>3, <2>2 DEF RevivedOrBefore, Held
  <2>3. QED
    BY <2>1, <2>2
<1>6. CASE \A b \in (Held(schedules) \intersect {s, t}) \ {w} : b \notin changed[a]
  <2>1. \A b \in (Held(schedules) \intersect {s, t}) \ {w} : Apart(x, schedules[b])
    BY <1>4, <1>6
  <2>2. QED
    BY <1>1, <1>3, <2>1, WrittenOverlaps
<1>7. QED
  BY <1>5, <1>6

LEMMA UpdateOverlaps ==
  ASSUME CatalogueRows, EditsTyped, EditsHold, NEW a \in Admins, UpdateSchedule(a),
         NEW s \in Held(schedules'), NEW t \in Held(schedules'), s # t,
         Overlap(schedules'[s], schedules'[t])
  PROVE  RevivedOrBefore(s, t) \/ Overtaken(s, t)
<1>1. schedules \in [Slots -> Schedule \union {Nil}]
  BY DEF CatalogueRows
<1>2. PICK w \in Slots, old \in Schedule, new \in Schedule :
             w = edits[a].row /\ old = edits[a].old /\ new = edits[a].new
  BY EditTyped DEF UpdateSchedule
<1>3. /\ w \in Held(schedules)
      /\ schedules[w] \in Schedule
      /\ schedules' = [schedules EXCEPT ![w] = Rewritten(schedules[w], old, new)]
  BY <1>1, <1>2 DEF UpdateSchedule, Held
<1>4. /\ w \in changed[a] \/ schedules[w] = old
      /\ \/ SamePlace(new, old)
         \/ \A b \in Held(schedules) \ (changed[a] \union {w}) : Apart(new, schedules[b])
  BY <1>2 DEF EditsHold, UpdateChecked, UpdateSchedule
<1>5. CASE changed[a] \intersect {s, t} # {}
  BY <1>5 DEF Overtaken
<1>6. CASE w \notin {s, t}
  BY <1>1, <1>3, <1>6 DEF RevivedOrBefore, Held
<1>7. CASE w \in {s, t} /\ changed[a] \intersect {s, t} = {}
  <2>1. schedules[w] = old
    BY <1>4, <1>7
  <2>2. schedules' = [schedules EXCEPT ![w] = new]
    BY <1>3, <2>1, RewrittenTyped
  <2>3. \/ w \in Held(schedules) /\ SamePlace(new, schedules[w])
        \/ \A b \in (Held(schedules) \intersect {s, t}) \ {w} : Apart(new, schedules[b])
    BY <1>3, <1>4, <1>7, <2>1
  <2>4. QED
    BY <1>1, <2>2, <2>3, WrittenOverlaps
<1>8. QED
  BY <1>5, <1>6, <1>7

LEMMA AdminStepOverlaps ==
  ASSUME CatalogueRows, EditsTyped, EditsHold, AdminStep,
         NEW s \in Held(schedules'), NEW t \in Held(schedules'), s # t,
         Overlap(schedules'[s], schedules'[t])
  PROVE  RevivedOrBefore(s, t) \/ Overtaken(s, t)
<1>1. CASE schedules' = schedules
  BY <1>1 DEF RevivedOrBefore
<1>2. ASSUME NEW w \in Slots, DeleteSchedule(w)  PROVE RevivedOrBefore(s, t)
  BY <1>2 DEF DeleteSchedule, Held, RevivedOrBefore, CatalogueRows
<1>3. CASE ScheduleStep
  BY <1>1, <1>2, <1>3, CreationOverlaps, UpdateOverlaps
     DEF ScheduleStep, CheckSchedule, CheckUpdate, Takes
<1>4. CASE FeeStep
  BY <1>1, <1>4
     DEF FeeStep, UploadCode, CreateCategory, UpdateCategory, DeleteCategory, CreateFee,
         UpdateFee, SetFeeCode, DeleteFee, AskCategory, AskFee, AskGroups, LoadUsers,
         LoadMembers, Takes
<1>5. CASE EventStep
  BY <1>1, <1>5
     DEF EventStep, NewEvent, CreateSoloEvent, CreateGroupEvent, UpdateEvent,
         DeleteSoloEvent, DeleteGroupEvent, TakePart
<1>6. CASE \E a \in Admins : GiveUp(a)
  BY <1>1, <1>6 DEF GiveUp, Takes
<1>7. QED
  BY <1>3, <1>4, <1>5, <1>6 DEF AdminStep

-----------------------------------------------------------------------------
(* The theorems.                                                           *)

(* Rows, fees and events keep their types; rows are of members there are;  *)
(* and no deletion, whatever it overtakes, leaves a fee whose QR code, an  *)
(* event whose fee or category, or an entry whose event there is not: for  *)
(* any number of members, events, fees, categories and requests in hand.   *)
THEOREM CatalogueTyped == CatalogueSpec => []CatalogueTypeOK
BY CatalogueAlwaysHolds, PTL DEF CatalogueInv

(* An entry splits a unit only when the unit's teams are not those it has  *)
(* found, or a member has left the unit, between its question and its      *)
(* rows: for any number of requests in hand.                               *)
THEOREM EntriesKeepTeams == CatalogueSpec => EntriesKeepUnitsTogether
<1>1. ASSUME CatalogueInv, [CatalogueNext]_<<tvars, cvars>>
      PROVE  [\A g \in GroupEvents, u \in Units :
                /\ Len(rows') > Len(rows)
                /\ Cardinality(UnitNumbers(g, u)) <= 1
                /\ Cardinality(UnitNumbers(g, u)') > 1
                => \E r \in Requests :
                     /\ AddParticipants(r)
                     /\ \/ UnitNumbers(g, calls[r].unit) # calls[r].teams
                        \/ \E m \in calls[r].members : home[m] # calls[r].unit]_tvars
  <2>1. CASE UNCHANGED tvars
    BY <2>1
  <2>2. CASE TeamsNext
    <3>1. TeamsTypeOK /\ AnswersHold /\ TeamsStep
      BY <1>1, <2>2 DEF CatalogueInv, CatalogueTypeOK, TeamsNext
    <3>2. ASSUME NEW g \in GroupEvents, NEW u \in Units, Len(rows') > Len(rows),
                 Cardinality(UnitNumbers(g, u)) <= 1,
                 Cardinality(UnitNumbers(g, u)') > 1
          PROVE  \E r \in Requests :
                   /\ AddParticipants(r)
                   /\ \/ UnitNumbers(g, calls[r].unit) # calls[r].teams
                      \/ \E m \in calls[r].members : home[m] # calls[r].unit
      <4>1. PICK r \in Requests : AddParticipants(r)
        BY <3>1, <3>2, OnlyEntriesAdd
      <4>2. CASE /\ UnitNumbers(g, calls[r].unit) = calls[r].teams
                 /\ \A m \in calls[r].members : home[m] = calls[r].unit
        <5>1. NumberHeld(r)
          BY <3>1 DEF AnswersHold
        <5>2. /\ Cardinality(UnitNumbers(g, u)') \in Nat
              /\ Cardinality(UnitNumbers(g, u)') <= 1
          BY <3>1, <3>2, <4>1, <4>2, <5>1, EntryKeepsNumbers
        <5>3. QED
          BY <3>2, <5>2
      <4>3. QED
        BY <4>1, <4>2
    <3>3. QED
      BY <3>2
  <2>3. QED
    BY <1>1, <2>1, <2>2 DEF CatalogueNext, TeamStep
<1>2. QED
  BY <1>1, CatalogueAlwaysHolds, PTL DEF CatalogueSpec, EntriesKeepUnitsTogether

(* A second live payment of a district is a declined one brought back, or  *)
(* made by a request that every live one has overtaken: for any number of  *)
(* requests in hand.                                                       *)
THEOREM SecondPaymentsReturn == CatalogueSpec => SecondPaymentOnlyByReturn
<1>1. ASSUME CatalogueInv, [CatalogueNext]_<<tvars, cvars>>
      PROVE  [\A d \in Districts :
                LiveOf(d) # {} /\ ~(LiveOf(d)' \subseteq LiveOf(d))
                => \/ \E i \in BillsOf(d) : bills[i].status = "Declined" /\ i \in LiveOf(d)'
                   \/ \E r \in Requests :
                        CreateBill(r) /\ calls[r].by = d /\ LiveOf(d) \subseteq since[r]]_tvars
  <2>1. CASE UNCHANGED tvars
    BY <2>1
  <2>2. CASE TeamsNext
    <3>1. TeamsTypeOK /\ AnswersHold /\ TeamsStep
      BY <1>1, <2>2 DEF CatalogueInv, CatalogueTypeOK, TeamsNext
    <3>2. QED
      BY <3>1, SecondPaymentReturnsOrRaces
  <2>3. QED
    BY <1>1, <2>1, <2>2 DEF CatalogueNext, TeamStep
<1>2. QED
  BY <1>1, CatalogueAlwaysHolds, PTL DEF CatalogueSpec, SecondPaymentOnlyByReturn

(* An event loses its fee or its category only to a deletion that asked    *)
(* before the event was changed, and a group event never its category.     *)
THEOREM FeesLostByRaces == CatalogueSpec => FeeLostOnlyByRace
<1>1. ASSUME CatalogueInv, [CatalogueNext]_<<tvars, cvars>>
      PROVE  [\A v \in Held(events) \intersect Held(events') :
                /\ events[v].fee # Nil /\ events[v]'.fee = Nil
                   => \E a \in Admins : DeleteFee(a) /\ v \in changed[a]
                /\ events[v].category # Nil /\ events[v]'.category = Nil
                   => v \in Solo /\ \E a \in Admins : DeleteCategory(a) /\ v \in changed[a]
             ]_<<tvars, cvars>>
  <2>1. CASE UNCHANGED <<tvars, cvars>>
    BY <2>1
  <2>2. CASE TeamStep /\ UNCHANGED cvars
    BY <2>2 DEF cvars, Held
  <2>3. CASE AdminStep
    <3>1. FeesLostByRace
      BY <1>1, <2>3, RowsAndEdits, AdminStepLosesByRace DEF CatalogueInv
    <3>2. QED
      BY <3>1 DEF FeesLostByRace
  <2>4. QED
    BY <1>1, <2>1, <2>2, <2>3 DEF CatalogueNext
<1>2. QED
  BY <1>1, CatalogueAlwaysHolds, PTL DEF CatalogueSpec, FeeLostOnlyByRace

(* Two schedules come to overlap only by a cancelled one that is brought   *)
(* back where it was, or by a request checked before the other was         *)
(* written.                                                                *)
THEOREM OverlapsAreRevivalsOrRaces == CatalogueSpec => OverlapOnlyByRevivalOrRace
<1>1. ASSUME CatalogueInv, [CatalogueNext]_<<tvars, cvars>>
      PROVE  [\A s, t \in Held(schedules') :
                s # t /\ Overlap(schedules[s]', schedules[t]')
                => \/ {s, t} \subseteq Held(schedules) /\ Overlap(schedules[s], schedules[t])
                   \/ \E x \in {s, t} :
                        /\ x \in Held(schedules)
                        /\ ~schedules[x].live
                        /\ SamePlace(schedules[x], schedules[x]')
                   \/ \E a \in Admins :
                        \/ CreateSchedule(a, s) /\ t \in changed[a]
                        \/ CreateSchedule(a, t) /\ s \in changed[a]
                        \/ UpdateSchedule(a) /\ changed[a] \intersect {s, t} # {}
             ]_<<tvars, cvars>>
  <2>1. CASE UNCHANGED <<tvars, cvars>>
    BY <2>1
  <2>2. CASE TeamStep /\ UNCHANGED cvars
    BY <2>2 DEF cvars, Held
  <2>3. CASE AdminStep
    <3>1. ASSUME NEW s \in Held(schedules'), NEW t \in Held(schedules'), s # t,
                 Overlap(schedules'[s], schedules'[t])
          PROVE  RevivedOrBefore(s, t) \/ Overtaken(s, t)
      BY <1>1, <2>3, <3>1, RowsAndEdits, AdminStepOverlaps DEF CatalogueInv
    <3>2. QED
      BY <3>1 DEF RevivedOrBefore, Overtaken
  <2>4. QED
    BY <1>1, <2>1, <2>2, <2>3 DEF CatalogueNext
<1>2. QED
  BY <1>1, CatalogueAlwaysHolds, PTL DEF CatalogueSpec, OverlapOnlyByRevivalOrRace

=============================================================================
