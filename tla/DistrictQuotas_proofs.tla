------------------------ MODULE DistrictQuotas_proofs ------------------------
(***************************************************************************)
(* Quotas that are checked in one statement and used up in a later one:    *)
(* the entries of a unit for the Kalamela, the delegates of a district for *)
(* the conference, the accounts of units and officials.  For any members,  *)
(* events, districts, officials and limits, and any finite number of       *)
(* requests at a time: the type invariants, the correspondence of chest    *)
(* numbers and members, and each quota as an instance of BoundedAdmission. *)
(***************************************************************************)
EXTENDS MCDistrictQuotas, FiniteSetTheorems, SequenceTheorems, TLAPS

(***************************************************************************)
(* KalamelaEntries.                                                        *)
(***************************************************************************)

(* The entries are finitely many, so that counting them means something.   *)
EntriesInv ==
  /\ TypeOK
  /\ IsFiniteSet(entries)

LEMMA RequestCount == Cardinality(Requests) \in Nat
BY EntriesAssumption, FS_CardinalityType

LEMMA EntriesInvStarts == Init => EntriesInv
BY FS_EmptySet DEF Init, EntriesInv, TypeOK

LEMMA NextNumberIsNat ==
  ASSUME TypeOK, NEW m \in Members, NEW s \in Seniorities, NEW n \in NextNumber(m, s)
  PROVE  n \in Nat
<1>1. \A e \in entries : e.chest \in Nat
  BY DEF TypeOK, Entry
<1>2. Base(s) \in Nat
  BY EntriesAssumption DEF Base
<1> QED BY <1>1, <1>2 DEF NextNumber, NumbersOf, ChestNumbers, IsLast

LEMMA EntriesInvStep == EntriesInv /\ [Next]_evars => EntriesInv'
<1> SUFFICES ASSUME EntriesInv, [Next]_evars PROVE EntriesInv'
  OBVIOUS
<1> USE DEF EntriesInv
<1>1. CASE UNCHANGED evars
  BY <1>1 DEF evars, TypeOK
<1>2. ASSUME NEW r \in Requests, NEW m \in Members, NEW v \in Events,
             NEW d \in Districts, NEW s \in Seniorities, CheckEntry(r, m, v, d, s)
      PROVE  EntriesInv'
  <2>1. PICK n \in NextNumber(m, s) : pending' = [pending EXCEPT ![r] =
          [event |-> v, member |-> m, by |-> d, seniority |-> s, chest |-> n]]
    BY <1>2 DEF CheckEntry
  <2>2. n \in Nat
    BY NextNumberIsNat
  <2>3. [event |-> v, member |-> m, by |-> d, seniority |-> s, chest |-> n] \in Entry
    BY <2>2 DEF Entry
  <2>4. pending' \in [Requests -> Entry \union {Nil}]
    BY <2>1, <2>3 DEF TypeOK
  <2> QED BY <1>2, <2>4 DEF CheckEntry, TypeOK
<1>3. ASSUME NEW r \in Requests, InsertEntry(r)
      PROVE  EntriesInv'
  <2>1. pending[r] \in Entry
    BY <1>3 DEF InsertEntry, TypeOK
  <2>2. IsFiniteSet(entries')
    BY <1>3, FS_AddElement DEF InsertEntry
  <2>3. \A e \in entries' : home[e.member] # Nil
    BY <1>3 DEF InsertEntry, Accepted, TypeOK
  <2>4. entries' \subseteq Entry
    BY <1>3, <2>1 DEF InsertEntry, TypeOK
  <2> QED BY <1>3, <2>2, <2>3, <2>4 DEF InsertEntry, TypeOK
<1>4. ASSUME NEW r \in Requests, FailEntry(r)
      PROVE  EntriesInv'
  BY <1>4 DEF FailEntry, TypeOK
<1>5. ASSUME NEW e \in entries, RemoveEntry(e)
      PROVE  EntriesInv'
  BY <1>5, FS_RemoveElement DEF RemoveEntry, TypeOK
<1>6. ASSUME NEW m \in Members, Exclude(m) \/ Readmit(m)
      PROVE  EntriesInv'
  BY <1>6 DEF Exclude, Readmit, TypeOK
<1>7. ASSUME NEW m \in Members, NEW u \in Units, MoveMember(m, u) \/ NewMember(m, u)
      PROVE  EntriesInv'
  <2>1. home' = [home EXCEPT ![m] = u] /\ UNCHANGED <<entries, excluded, pending>>
    BY <1>7 DEF MoveMember, NewMember
  <2>2. u # Nil
    BY EntriesAssumption
  <2>3. \A n \in Members : home[n] # Nil => home'[n] # Nil
    BY <2>1, <2>2 DEF TypeOK
  <2>4. \A e \in entries : e.member \in Members
    BY DEF TypeOK, Entry
  <2> QED BY <2>1, <2>3, <2>4 DEF TypeOK
<1>8. ASSUME NEW m \in Members, DeleteMember(m)
      PROVE  EntriesInv'
  <2>1. entries' \in SUBSET entries
    BY <1>8 DEF DeleteMember
  <2>2. IsFiniteSet(entries')
    BY <2>1, FS_Subset
  <2>3. \A e \in entries' : e \in entries /\ e.member # m
    BY <1>8 DEF DeleteMember, EntriesOf
  <2>4. \A e \in entries' : home'[e.member] # Nil
    <3> SUFFICES ASSUME NEW e \in entries' PROVE home'[e.member] # Nil
      OBVIOUS
    <3>1. e \in Entry /\ home[e.member] # Nil /\ e.member # m
      BY <2>3 DEF TypeOK
    <3> QED BY <3>1, <1>8 DEF DeleteMember, Entry, TypeOK
  <2> QED BY <1>8, <2>1, <2>2, <2>4 DEF DeleteMember, TypeOK
<1> QED
  BY <1>1, <1>2, <1>3, <1>4, <1>5, <1>6, <1>7, <1>8 DEF Next, EntryRequest, RosterStep

(* Every reachable state is well typed, with finitely many entries.        *)
THEOREM EntriesTyped == Spec => [](TypeOK /\ EntriesInv)
<1>1. EntriesInv => TypeOK
  BY DEF EntriesInv
<1> QED BY <1>1, EntriesInvStarts, EntriesInvStep, PTL DEF Spec

-----------------------------------------------------------------------------
(* Chest numbers.                                                          *)

LEMMA ImageBounded ==
  ASSUME NEW S, IsFiniteSet(S), NEW f, NEW T, T = {f[x] : x \in S},
         f = [x \in S |-> f[x]]
  PROVE  /\ IsFiniteSet(T)
         /\ Cardinality(T) <= Cardinality(S)
<1>1. f \in Surjection(S, T)
  BY DEF Surjection
<1> QED BY <1>1, FS_Surjection

(* No more members are about to take a number than there are requests.     *)
LEMMA HeirsFew ==
  ASSUME EntriesInv, NEW n
  PROVE  /\ IsFiniteSet(Heirs(n))
         /\ Cardinality(Heirs(n)) <= Cardinality(Requests)
<1> DEFINE S == {q \in Serving : RowOf(q).chest = n}
           f == [q \in S |-> RowOf(q).member]
<1>1. S \in SUBSET Requests
  BY DEF Serving
<1>2. IsFiniteSet(S) /\ Cardinality(S) <= Cardinality(Requests)
  BY <1>1, FS_Subset, EntriesAssumption
<1>3. Heirs(n) = {f[q] : q \in S}
  BY DEF Heirs
<1>4. f = [q \in S |-> f[q]]
  OBVIOUS
<1>5. IsFiniteSet(Heirs(n)) /\ Cardinality(Heirs(n)) <= Cardinality(S)
  <2> HIDE DEF f, S
  <2> QED BY <1>2, <1>3, <1>4, ImageBounded
<1>6. Cardinality(Heirs(n)) \in Nat /\ Cardinality(S) \in Nat
  BY <1>2, <1>5, FS_CardinalityType
<1> QED BY <1>2, <1>5, <1>6, RequestCount

LEMMA ComingFew ==
  ASSUME EntriesInv, NEW m
  PROVE  /\ IsFiniteSet(Coming(m))
         /\ Cardinality(Coming(m)) <= Cardinality(Requests)
<1> DEFINE S == {q \in Serving : RowOf(q).member = m}
           f == [q \in S |-> RowOf(q).chest]
<1>1. S \in SUBSET Requests
  BY DEF Serving
<1>2. IsFiniteSet(S) /\ Cardinality(S) <= Cardinality(Requests)
  BY <1>1, FS_Subset, EntriesAssumption
<1>3. Coming(m) = {f[q] : q \in S}
  BY DEF Coming
<1>4. f = [q \in S |-> f[q]]
  OBVIOUS
<1>5. IsFiniteSet(Coming(m)) /\ Cardinality(Coming(m)) <= Cardinality(S)
  <2> HIDE DEF f, S
  <2> QED BY <1>2, <1>3, <1>4, ImageBounded
<1>6. Cardinality(Coming(m)) \in Nat /\ Cardinality(S) \in Nat
  BY <1>2, <1>5, FS_CardinalityType
<1> QED BY <1>2, <1>5, <1>6, RequestCount

(* The same, of the next state.                                            *)
LEMMA HeirsFewNext ==
  ASSUME NEW n
  PROVE  EntriesInv' => (Cardinality(Heirs(n)) <= Cardinality(Requests))'
<1>1. EntriesInv => Cardinality(Heirs(n)) <= Cardinality(Requests)
  BY HeirsFew
<1> QED BY <1>1, PTL

LEMMA ComingFewNext ==
  ASSUME NEW m
  PROVE  EntriesInv' => (Cardinality(Coming(m)) <= Cardinality(Requests))'
<1>1. EntriesInv => Cardinality(Coming(m)) <= Cardinality(Requests)
  BY ComingFew
<1> QED BY <1>1, PTL

LEMMA HoldersFinite ==
  ASSUME EntriesInv, NEW n
  PROVE  IsFiniteSet(HoldersOf(n) \union Heirs(n))
<1> DEFINE S == {f \in entries : f.chest = n}
           f == [e \in S |-> e.member]
<1>1. IsFiniteSet(S)
  BY FS_Subset DEF EntriesInv
<1>2. HoldersOf(n) = {f[e] : e \in S} /\ f = [e \in S |-> f[e]]
  BY DEF HoldersOf
<1>3. IsFiniteSet(HoldersOf(n))
  <2> HIDE DEF f, S
  <2> QED BY <1>1, <1>2, ImageBounded
<1> QED BY <1>3, HeirsFew, FS_Union

LEMMA NumbersFinite ==
  ASSUME EntriesInv, NEW m
  PROVE  IsFiniteSet(NumbersOf(m) \union Coming(m))
<1> DEFINE S == {f \in entries : f.member = m}
           f == [e \in S |-> e.chest]
<1>1. IsFiniteSet(S)
  BY FS_Subset DEF EntriesInv
<1>2. NumbersOf(m) = {f[e] : e \in S} /\ f = [e \in S |-> f[e]]
  BY DEF NumbersOf
<1>3. IsFiniteSet(NumbersOf(m))
  <2> HIDE DEF f, S
  <2> QED BY <1>1, <1>2, ImageBounded
<1> QED BY <1>3, ComingFew, FS_Union

(* A number computed anew has no holder: it follows the last of them, and  *)
(* below Wide the last as text is the greatest.                            *)
LEMMA NewNumberIsFree ==
  ASSUME EntriesInv, NEW m \in Members, NEW s \in Seniorities, NEW n \in NextNumber(m, s),
         NumbersOf(m) = {}, n < Wide
  PROVE  HoldersOf(n) = {}
<1>0. \A e \in entries : e.chest \in Nat
  BY DEF EntriesInv, TypeOK, Entry
<1>1. CASE entries = {}
  BY <1>1 DEF HoldersOf
<1>2. CASE entries # {}
  <2>1. PICK k \in ChestNumbers : IsLast(k) /\ n = k + 1
    BY <1>2 DEF NextNumber
  <2>2. SUFFICES ASSUME NEW e \in entries, e.chest = n PROVE FALSE
    BY DEF HoldersOf
  <2>3. n \in ChestNumbers /\ k \in Nat /\ n \in Nat
    BY <2>1, <2>2, <1>0 DEF ChestNumbers
  <2>4. TextRank(n) <= TextRank(k)
    BY <2>1, <2>3 DEF IsLast
  <2>5. k < Wide /\ Wide \in Nat
    BY <2>1, <2>3, EntriesAssumption
  <2> QED BY <2>1, <2>3, <2>4, <2>5 DEF TextRank
<1> QED BY <1>1, <1>2

(* What the other steps do: nothing is added to what is held or coming.    *)
Settling ==
  /\ \A n : (HoldersOf(n) \union Heirs(n))' \subseteq HoldersOf(n) \union Heirs(n)
  /\ \A m : (NumbersOf(m) \union Coming(m))' \subseteq NumbersOf(m) \union Coming(m)

LEMMA SettlingKeeps ==
  ASSUME EntriesInv, EntriesInv', NumbersFollowMembers, Settling
  PROVE  NumbersFollowMembers'
<1>1. ASSUME NEW n \in JuniorBase .. (Wide - 1)
      PROVE  (Cardinality(HoldersOf(n) \union Heirs(n)) <= Cardinality(Requests))'
  <2> DEFINE U == HoldersOf(n) \union Heirs(n)
  <2>1. IsFiniteSet(U) /\ U' \in SUBSET U
    BY HoldersFinite DEF Settling
  <2>2. Cardinality(U') <= Cardinality(U) /\ Cardinality(U) \in Nat /\ Cardinality(U') \in Nat
    <3> HIDE DEF U
    <3> QED BY <2>1, FS_Subset, FS_CardinalityType
  <2>3. Cardinality(U) <= Cardinality(Requests)
    BY DEF NumbersFollowMembers, NumbersSharedByFew
  <2> QED BY <2>2, <2>3, RequestCount
<1>2. ASSUME NEW m \in Members
      PROVE  (Cardinality(NumbersOf(m) \union Coming(m)) <= Cardinality(Requests))'
  <2> DEFINE U == NumbersOf(m) \union Coming(m)
  <2>1. IsFiniteSet(U) /\ U' \in SUBSET U
    BY NumbersFinite DEF Settling
  <2>2. Cardinality(U') <= Cardinality(U) /\ Cardinality(U) \in Nat /\ Cardinality(U') \in Nat
    <3> HIDE DEF U
    <3> QED BY <2>1, FS_Subset, FS_CardinalityType
  <2>3. Cardinality(U) <= Cardinality(Requests)
    BY DEF NumbersFollowMembers, MembersHaveFewNumbers
  <2> QED BY <2>2, <2>3, RequestCount
<1> QED BY <1>1, <1>2 DEF NumbersFollowMembers, NumbersSharedByFew, MembersHaveFewNumbers

LEMMA RowsGo ==
  ASSUME entries' \subseteq entries, UNCHANGED pending
  PROVE  Settling
BY DEF Settling, HoldersOf, Heirs, NumbersOf, Coming, Serving, RowOf

LEMMA RequestEnds ==
  ASSUME EntriesInv, NEW r \in Requests, pending[r] # Nil,
         pending' = [pending EXCEPT ![r] = Nil],
         entries' \subseteq entries \union {pending[r]}
  PROVE  Settling
<1>1. ASSUME NEW n
      PROVE  (HoldersOf(n) \union Heirs(n))' \subseteq HoldersOf(n) \union Heirs(n)
  <2>1. Heirs(n)' \subseteq Heirs(n)
    BY DEF Heirs, Serving, RowOf, EntriesInv, TypeOK
  <2>2. HoldersOf(n)' \subseteq HoldersOf(n) \union Heirs(n)
    BY DEF HoldersOf, Heirs, Serving, RowOf
  <2> QED BY <2>1, <2>2
<1>2. ASSUME NEW m
      PROVE  (NumbersOf(m) \union Coming(m))' \subseteq NumbersOf(m) \union Coming(m)
  <2>1. Coming(m)' \subseteq Coming(m)
    BY DEF Coming, Serving, RowOf, EntriesInv, TypeOK
  <2>2. NumbersOf(m)' \subseteq NumbersOf(m) \union Coming(m)
    BY DEF NumbersOf, Coming, Serving, RowOf
  <2> QED BY <2>1, <2>2
<1> QED BY <1>1, <1>2 DEF Settling

LEMMA CheckKeepsNumbers ==
  ASSUME EntriesInv, EntriesInv', NumbersFollowMembers,
         NEW r \in Requests, NEW m \in Members, NEW v \in Events,
         NEW d \in Districts, NEW s \in Seniorities, CheckEntry(r, m, v, d, s)
  PROVE  NumbersFollowMembers'
<1> DEFINE row(n) == [event |-> v, member |-> m, by |-> d, seniority |-> s, chest |-> n]
<1>1. PICK k \in NextNumber(m, s) : pending' = [pending EXCEPT ![r] = row(k)]
  BY DEF CheckEntry
<1>2. /\ pending[r] = Nil /\ entries' = entries /\ pending'[r] = row(k)
      /\ \A q \in Requests : q # r => pending'[q] = pending[q]
  BY <1>1 DEF CheckEntry, EntriesInv, TypeOK
<1>3. \A n : HoldersOf(n)' = HoldersOf(n)
  BY <1>2 DEF HoldersOf
<1>4. \A p : NumbersOf(p)' = NumbersOf(p)
  BY <1>2 DEF NumbersOf
<1>5. ASSUME NEW n PROVE Heirs(n)' \subseteq Heirs(n) \union (IF n = k THEN {m} ELSE {})
  BY <1>2 DEF Heirs, Serving, RowOf
<1>6. ASSUME NEW p PROVE Coming(p)' \subseteq Coming(p) \union (IF p = m THEN {k} ELSE {})
  BY <1>2 DEF Coming, Serving, RowOf
<1>7. CASE NumbersOf(m) # {}
  <2>1. k \in NumbersOf(m) /\ m \in HoldersOf(k)
    BY <1>7 DEF NextNumber, NumbersOf, HoldersOf
  <2>2. Settling
    BY <2>1, <1>3, <1>4, <1>5, <1>6 DEF Settling
  <2> QED BY <2>2, SettlingKeeps
<1>8. CASE NumbersOf(m) = {}
  <2>1. ASSUME NEW n \in JuniorBase .. (Wide - 1)
        PROVE  (Cardinality(HoldersOf(n) \union Heirs(n)) <= Cardinality(Requests))'
    <3>1. CASE n = k
      <4>1. n < Wide
        BY EntriesAssumption
      <4>2. HoldersOf(n)' = {}
        BY <4>1, <3>1, <1>3, <1>8, NewNumberIsFree
      <4>3. (HoldersOf(n) \union Heirs(n))' = Heirs(n)'
        BY <4>2
      <4>4. (Cardinality(Heirs(n)) <= Cardinality(Requests))'
        BY HeirsFewNext
      <4> QED BY <4>3, <4>4
    <3>2. CASE n # k
      <4>1. (HoldersOf(n) \union Heirs(n))' \in SUBSET (HoldersOf(n) \union Heirs(n))
        BY <3>2, <1>3, <1>5
      <4>2. IsFiniteSet(HoldersOf(n) \union Heirs(n))
        BY HoldersFinite
      <4>3. Cardinality(HoldersOf(n) \union Heirs(n)) <= Cardinality(Requests)
        BY DEF NumbersFollowMembers, NumbersSharedByFew
      <4>4. /\ Cardinality((HoldersOf(n) \union Heirs(n))') <= Cardinality(HoldersOf(n) \union Heirs(n))
            /\ Cardinality(HoldersOf(n) \union Heirs(n)) \in Nat
            /\ Cardinality((HoldersOf(n) \union Heirs(n))') \in Nat
        BY <4>1, <4>2, FS_Subset, FS_CardinalityType
      <4> QED BY <4>3, <4>4, RequestCount
    <3> QED BY <3>1, <3>2
  <2>2. ASSUME NEW p \in Members
        PROVE  (Cardinality(NumbersOf(p) \union Coming(p)) <= Cardinality(Requests))'
    <3>1. CASE p = m
      <4>1. (NumbersOf(p) \union Coming(p))' = Coming(p)'
        BY <3>1, <1>4, <1>8
      <4>2. (Cardinality(Coming(p)) <= Cardinality(Requests))'
        BY ComingFewNext
      <4> QED BY <4>1, <4>2
    <3>2. CASE p # m
      <4>1. (NumbersOf(p) \union Coming(p))' \in SUBSET (NumbersOf(p) \union Coming(p))
        BY <3>2, <1>4, <1>6
      <4>2. IsFiniteSet(NumbersOf(p) \union Coming(p))
        BY NumbersFinite
      <4>3. Cardinality(NumbersOf(p) \union Coming(p)) <= Cardinality(Requests)
        BY DEF NumbersFollowMembers, MembersHaveFewNumbers
      <4>4. /\ Cardinality((NumbersOf(p) \union Coming(p))') <= Cardinality(NumbersOf(p) \union Coming(p))
            /\ Cardinality(NumbersOf(p) \union Coming(p)) \in Nat
            /\ Cardinality((NumbersOf(p) \union Coming(p))') \in Nat
        BY <4>1, <4>2, FS_Subset, FS_CardinalityType
      <4> QED BY <4>3, <4>4, RequestCount
    <3> QED BY <3>1, <3>2
  <2> QED BY <2>1, <2>2 DEF NumbersFollowMembers, NumbersSharedByFew, MembersHaveFewNumbers
<1> QED BY <1>7, <1>8

LEMMA NumbersStep ==
  ASSUME EntriesInv, NumbersFollowMembers, [Next]_evars
  PROVE  NumbersFollowMembers'
<1>0. EntriesInv'
  BY EntriesInvStep
<1>1. ASSUME NEW r \in Requests, NEW m \in Members, NEW v \in Events,
             NEW d \in Districts, NEW s \in Seniorities, CheckEntry(r, m, v, d, s)
      PROVE  NumbersFollowMembers'
  BY <1>0, <1>1, CheckKeepsNumbers
<1>2. ASSUME NEW r \in Requests, InsertEntry(r) \/ FailEntry(r)
      PROVE  NumbersFollowMembers'
  <2>1. Settling
    BY <1>2, RequestEnds DEF InsertEntry, FailEntry
  <2> QED BY <2>1, <1>0, SettlingKeeps
<1>3. ASSUME entries' \subseteq entries, UNCHANGED pending
      PROVE  NumbersFollowMembers'
  BY <1>0, <1>3, RowsGo, SettlingKeeps
<1>4. CASE UNCHANGED evars
  BY <1>3, <1>4 DEF evars
<1>5. ASSUME NEW e \in entries, RemoveEntry(e)
      PROVE  NumbersFollowMembers'
  BY <1>3, <1>5 DEF RemoveEntry
<1>6. ASSUME NEW m \in Members, Exclude(m) \/ Readmit(m) \/ DeleteMember(m)
      PROVE  NumbersFollowMembers'
  BY <1>3, <1>6 DEF Exclude, Readmit, DeleteMember
<1>7. ASSUME NEW m \in Members, NEW u \in Units, MoveMember(m, u) \/ NewMember(m, u)
      PROVE  NumbersFollowMembers'
  BY <1>3, <1>7 DEF MoveMember, NewMember
<1> QED BY <1>1, <1>2, <1>4, <1>5, <1>6, <1>7 DEF Next, EntryRequest, RosterStep

LEMMA NumbersStart == Init => NumbersFollowMembers
<1> SUFFICES ASSUME Init PROVE NumbersFollowMembers
  OBVIOUS
<1>1. entries = {} /\ Serving = {}
  BY DEF Init, Serving
<1>2. \A n : HoldersOf(n) \union Heirs(n) = {}
  BY <1>1 DEF HoldersOf, Heirs
<1>3. \A m : NumbersOf(m) \union Coming(m) = {}
  BY <1>1 DEF NumbersOf, Coming
<1> QED
  BY <1>2, <1>3, FS_EmptySet, RequestCount
  DEF NumbersFollowMembers, NumbersSharedByFew, MembersHaveFewNumbers

(* A chest number below Wide belongs to no more members, and a member has  *)
(* no more numbers, than there are requests at a time.                     *)
THEOREM ChestNumbersFollowMembers == Spec => []NumbersFollowMembers
<1>1. EntriesInv /\ NumbersFollowMembers /\ [Next]_evars => NumbersFollowMembers'
  BY NumbersStep
<1> QED BY <1>1, NumbersStart, EntriesInvStarts, EntriesInvStep, PTL DEF Spec

-----------------------------------------------------------------------------
(* The quotas.  A member's rows first.                                     *)

LEMMA PersonConstants == PersonQuota!AdmissionConstants
BY EntriesAssumption DEF PersonQuota!AdmissionConstants, PersonQuota!IsFiniteSet, IsFiniteSet

LEMMA PersonStarts == Init => PersonQuota!AdmissionInit
<1> SUFFICES ASSUME Init PROVE PersonQuota!AdmissionInit
  OBVIOUS
<1>1. \A m \in Members : Cardinality(EntriesOf(m)) = 0
  <2>1. \A m \in Members : EntriesOf(m) = {}
    BY DEF Init, EntriesOf
  <2> QED BY <2>1, FS_EmptySet
<1>2. PersonCount = [m \in Members |-> 0]
  BY <1>1 DEF PersonCount
<1>3. PersonPassed = [r \in Requests |-> Nil]
  BY DEF PersonPassed, Init
<1> QED BY <1>2, <1>3 DEF PersonQuota!AdmissionInit

(* Removing rows, of whatever members, is a step of the admission.         *)
LEMMA PersonRowsGo ==
  ASSUME EntriesInv, EntriesInv', entries' \subseteq entries, UNCHANGED pending
  PROVE  PersonQuota!Leave
<1>1. PersonCount' \in [Members -> Nat]
  <2>1. ASSUME NEW m \in Members PROVE Cardinality(EntriesOf(m)') \in Nat
    <3>1. EntriesOf(m)' \in SUBSET entries'
      BY DEF EntriesOf
    <3> QED BY <3>1, FS_Subset, FS_CardinalityType DEF EntriesInv
  <2> QED BY <2>1 DEF PersonCount
<1>2. ASSUME NEW m \in Members PROVE PersonCount'[m] <= PersonCount[m]
  <2>1. EntriesOf(m)' \in SUBSET EntriesOf(m)
    BY DEF EntriesOf
  <2>2. IsFiniteSet(EntriesOf(m))
    BY FS_Subset DEF EntriesInv, EntriesOf
  <2>3. Cardinality(EntriesOf(m)') <= Cardinality(EntriesOf(m))
    BY <2>1, <2>2, FS_Subset
  <2> QED BY <2>3 DEF PersonCount
<1>3. UNCHANGED PersonPassed
  BY DEF PersonPassed, RowOf
<1> QED BY <1>1, <1>2, <1>3 DEF PersonQuota!Leave

LEMMA PersonCheck ==
  ASSUME EntriesInv, NEW r \in Requests, NEW m \in Members, NEW v \in Events,
         NEW d \in Districts, NEW s \in Seniorities, CheckEntry(r, m, v, d, s)
  PROVE  PersonQuota!Pass(r, m)
<1>1. \E row \in Entry : /\ pending' = [pending EXCEPT ![r] = row]
                         /\ row.member = m
  <2>1. PICK n \in NextNumber(m, s) : pending' = [pending EXCEPT ![r] =
          [event |-> v, member |-> m, by |-> d, seniority |-> s, chest |-> n]]
    BY DEF CheckEntry
  <2>2. n \in Nat
    BY NextNumberIsNat DEF EntriesInv
  <2>3. [event |-> v, member |-> m, by |-> d, seniority |-> s, chest |-> n] \in Entry
    BY <2>2 DEF Entry
  <2> QED BY <2>1, <2>3
<1>a. PICK row \in Entry : /\ pending' = [pending EXCEPT ![r] = row]
                           /\ row.member = m
  BY <1>1
<1>2. pending[r] = Nil /\ pending \in [Requests -> Entry \union {Nil}]
  BY DEF CheckEntry, EntriesInv, TypeOK
<1>3. PersonPassed[r] = Nil
  BY <1>2 DEF PersonPassed
<1>4. PersonCount[m] < PersonLimit
  BY DEF CheckEntry, HasRoom, PersonCount
<1>5. PersonPassed' = [PersonPassed EXCEPT ![r] = m]
  BY <1>a, <1>2, NoEntry DEF PersonPassed, RowOf
<1>6. UNCHANGED PersonCount
  BY DEF CheckEntry, PersonCount, EntriesOf
<1> QED BY <1>3, <1>4, <1>5, <1>6 DEF PersonQuota!Pass

LEMMA PersonInsert ==
  ASSUME EntriesInv, NEW r \in Requests, InsertEntry(r)
  PROVE  PersonQuota!Admit(r)
<1> DEFINE row == pending[r]
<1>1. row \in Entry /\ row # Nil /\ row.member \in Members
  BY DEF InsertEntry, EntriesInv, TypeOK, Entry
<1>2. PersonPassed[r] = row.member /\ row.member # Nil
  BY <1>1, EntriesAssumption DEF PersonPassed, RowOf
<1>3. PersonPassed' = [PersonPassed EXCEPT ![r] = Nil]
  BY DEF InsertEntry, PersonPassed, RowOf, EntriesInv, TypeOK
<1>4. row \notin entries /\ entries' = entries \union {row}
  BY DEF InsertEntry, Accepted
<1>5. ASSUME NEW m \in Members
      PROVE  Cardinality(EntriesOf(m)') =
               IF m = row.member THEN Cardinality(EntriesOf(m)) + 1 ELSE Cardinality(EntriesOf(m))
  <2>1. IsFiniteSet(EntriesOf(m)) /\ row \notin EntriesOf(m)
    BY <1>4, FS_Subset DEF EntriesInv, EntriesOf
  <2>2. CASE m = row.member
    <3>1. EntriesOf(m)' = EntriesOf(m) \union {row}
      BY <1>4, <2>2 DEF EntriesOf
    <3> QED BY <3>1, <2>1, <2>2, FS_AddElement
  <2>3. CASE m # row.member
    <3>1. EntriesOf(m)' = EntriesOf(m)
      BY <1>4, <2>3 DEF EntriesOf
    <3> QED BY <3>1, <2>3
  <2> QED BY <2>2, <2>3
<1>6. PersonCount' = [PersonCount EXCEPT ![row.member] = @ + 1]
  BY <1>1, <1>5 DEF PersonCount
<1> QED BY <1>2, <1>3, <1>6 DEF PersonQuota!Admit

LEMMA PersonFail ==
  ASSUME EntriesInv, NEW r \in Requests, FailEntry(r)
  PROVE  PersonQuota!Refuse(r)
<1>1. pending[r] \in Entry /\ pending[r] # Nil /\ pending[r].member \in Members
  BY DEF FailEntry, EntriesInv, TypeOK, Entry
<1>2. PersonPassed[r] # Nil
  BY <1>1, EntriesAssumption DEF PersonPassed, RowOf
<1>3. PersonPassed' = [PersonPassed EXCEPT ![r] = Nil]
  BY DEF FailEntry, PersonPassed, RowOf, EntriesInv, TypeOK
<1>4. UNCHANGED PersonCount
  BY DEF FailEntry, PersonCount, EntriesOf
<1> QED BY <1>2, <1>3, <1>4 DEF PersonQuota!Refuse

LEMMA PersonStep ==
  ASSUME EntriesInv, EntriesInv', [Next]_evars
  PROVE  [PersonQuota!AdmissionNext]_(PersonQuota!avars)
<1>1. ASSUME NEW r \in Requests, NEW m \in Members, NEW v \in Events,
             NEW d \in Districts, NEW s \in Seniorities, CheckEntry(r, m, v, d, s)
      PROVE  PersonQuota!AdmissionNext
  BY <1>1, PersonCheck DEF PersonQuota!AdmissionNext
<1>2. ASSUME NEW r \in Requests, InsertEntry(r) \/ FailEntry(r)
      PROVE  PersonQuota!AdmissionNext
  BY <1>2, PersonInsert, PersonFail DEF PersonQuota!AdmissionNext
<1>3. ASSUME NEW e \in entries, RemoveEntry(e)
      PROVE  PersonQuota!AdmissionNext
  BY <1>3, PersonRowsGo DEF PersonQuota!AdmissionNext, RemoveEntry
<1>4. ASSUME NEW m \in Members, DeleteMember(m)
      PROVE  PersonQuota!AdmissionNext
  BY <1>4, PersonRowsGo DEF PersonQuota!AdmissionNext, DeleteMember
<1>5. ASSUME UNCHANGED <<entries, pending>>
      PROVE  UNCHANGED PersonQuota!avars
  BY <1>5 DEF PersonQuota!avars, PersonCount, PersonPassed, EntriesOf, RowOf
<1>6. ASSUME NEW m \in Members, Exclude(m) \/ Readmit(m)
      PROVE  UNCHANGED PersonQuota!avars
  BY <1>5, <1>6 DEF Exclude, Readmit
<1>7. ASSUME NEW m \in Members, NEW u \in Units, MoveMember(m, u) \/ NewMember(m, u)
      PROVE  UNCHANGED PersonQuota!avars
  BY <1>5, <1>7 DEF MoveMember, NewMember
<1>8. CASE UNCHANGED evars
  BY <1>5, <1>8 DEF evars
<1> QED
  BY <1>1, <1>2, <1>3, <1>4, <1>6, <1>7, <1>8 DEF Next, EntryRequest, RosterStep

(* The entries of a member are admitted as BoundedAdmission says ...       *)
THEOREM PersonQuotaImplements == Spec => PersonQuotaKept
<1>1. EntriesInv /\ EntriesInv' /\ [Next]_evars => [PersonQuota!AdmissionNext]_(PersonQuota!avars)
  BY PersonStep
<1> QED
  BY <1>1, PersonStarts, EntriesInvStarts, EntriesInvStep, PTL
  DEF Spec, PersonQuotaKept, PersonQuota!AdmissionSpec

(* ... so no member has more than PersonLimit and the other requests.      *)
THEOREM PersonQuotaBounded == Spec => []PersonQuota!OvershootBounded
<1>1. PersonQuota!AdmissionSpec => []PersonQuota!OvershootBounded
  <2>1. PersonQuota!AdmissionSpec => [](PersonQuota!AdmissionInv /\ PersonQuota!OvershootBounded)
    BY PersonConstants, EntriesAssumption, PersonQuota!AdmissionBounded
  <2> QED BY <2>1, PTL
<1> QED BY <1>1, PersonQuotaImplements DEF PersonQuotaKept

-----------------------------------------------------------------------------
(* A district's rows in one event and seniority.                           *)

SlotEntries(q) == DistrictEntries(q[1], q[2], q[3])
SlotOf(row)    == <<row.event, row.by, row.seniority>>

LEMMA DistrictConstants == DistrictQuota!AdmissionConstants
BY EntriesAssumption, NoEntry
DEF DistrictQuota!AdmissionConstants, DistrictQuota!IsFiniteSet, IsFiniteSet, DistrictSlots

LEMMA DistrictStarts == Init => DistrictQuota!AdmissionInit
<1> SUFFICES ASSUME Init PROVE DistrictQuota!AdmissionInit
  OBVIOUS
<1>1. \A q \in DistrictSlots : Cardinality(SlotEntries(q)) = 0
  <2>1. \A q \in DistrictSlots : SlotEntries(q) = {}
    BY DEF Init, SlotEntries, DistrictEntries
  <2> QED BY <2>1, FS_EmptySet
<1>2. DistrictCount = [q \in DistrictSlots |-> 0]
  BY <1>1 DEF DistrictCount, SlotEntries
<1>3. DistrictPassed = [r \in Requests |-> Nil]
  BY DEF DistrictPassed, Init
<1> QED BY <1>2, <1>3 DEF DistrictQuota!AdmissionInit

LEMMA DistrictRowsGo ==
  ASSUME EntriesInv, EntriesInv', entries' \subseteq entries, UNCHANGED pending
  PROVE  DistrictQuota!Leave
<1>1. DistrictCount' \in [DistrictSlots -> Nat]
  <2>1. ASSUME NEW q \in DistrictSlots PROVE Cardinality(SlotEntries(q)') \in Nat
    <3>1. SlotEntries(q)' \in SUBSET entries'
      BY DEF SlotEntries, DistrictEntries
    <3> QED BY <3>1, FS_Subset, FS_CardinalityType DEF EntriesInv
  <2> QED BY <2>1 DEF DistrictCount, SlotEntries
<1>2. ASSUME NEW q \in DistrictSlots PROVE DistrictCount'[q] <= DistrictCount[q]
  <2>1. SlotEntries(q)' \in SUBSET SlotEntries(q)
    BY DEF SlotEntries, DistrictEntries
  <2>2. IsFiniteSet(SlotEntries(q))
    BY FS_Subset DEF EntriesInv, SlotEntries, DistrictEntries
  <2>3. Cardinality(SlotEntries(q)') <= Cardinality(SlotEntries(q))
    BY <2>1, <2>2, FS_Subset
  <2> QED BY <2>3 DEF DistrictCount, SlotEntries
<1>3. UNCHANGED DistrictPassed
  BY DEF DistrictPassed, RowOf
<1> QED BY <1>1, <1>2, <1>3 DEF DistrictQuota!Leave

LEMMA DistrictCheck ==
  ASSUME EntriesInv, NEW r \in Requests, NEW m \in Members, NEW v \in Events,
         NEW d \in Districts, NEW s \in Seniorities, CheckEntry(r, m, v, d, s)
  PROVE  DistrictQuota!Pass(r, <<v, d, s>>)
<1>1. \E row \in Entry : /\ pending' = [pending EXCEPT ![r] = row]
                         /\ SlotOf(row) = <<v, d, s>>
  <2>1. PICK n \in NextNumber(m, s) : pending' = [pending EXCEPT ![r] =
          [event |-> v, member |-> m, by |-> d, seniority |-> s, chest |-> n]]
    BY DEF CheckEntry
  <2>2. n \in Nat
    BY NextNumberIsNat DEF EntriesInv
  <2>3. [event |-> v, member |-> m, by |-> d, seniority |-> s, chest |-> n] \in Entry
    BY <2>2 DEF Entry
  <2> QED BY <2>1, <2>3 DEF SlotOf
<1>2. PICK row \in Entry : /\ pending' = [pending EXCEPT ![r] = row]
                           /\ SlotOf(row) = <<v, d, s>>
  BY <1>1
<1>3. pending[r] = Nil /\ pending \in [Requests -> Entry \union {Nil}]
  BY DEF CheckEntry, EntriesInv, TypeOK
<1>4. DistrictPassed[r] = Nil
  BY <1>3 DEF DistrictPassed
<1>5. DistrictCount[<<v, d, s>>] < DistrictLimit
  BY DEF CheckEntry, HasRoom, DistrictCount, DistrictSlots
<1>6. DistrictPassed' = [DistrictPassed EXCEPT ![r] = <<v, d, s>>]
  BY <1>2, <1>3, NoEntry DEF DistrictPassed, RowOf, SlotOf
<1>7. UNCHANGED DistrictCount
  BY DEF CheckEntry, DistrictCount, DistrictEntries
<1> QED BY <1>4, <1>5, <1>6, <1>7 DEF DistrictQuota!Pass

LEMMA DistrictInsert ==
  ASSUME EntriesInv, NEW r \in Requests, InsertEntry(r)
  PROVE  DistrictQuota!Admit(r)
<1> DEFINE row == pending[r]
<1>1. row \in Entry /\ row # Nil /\ SlotOf(row) \in DistrictSlots
  BY DEF InsertEntry, EntriesInv, TypeOK, Entry, SlotOf, DistrictSlots
<1>2. DistrictPassed[r] = SlotOf(row) /\ SlotOf(row) # Nil
  BY <1>1, NoEntry DEF DistrictPassed, RowOf, SlotOf, DistrictSlots
<1>3. DistrictPassed' = [DistrictPassed EXCEPT ![r] = Nil]
  BY DEF InsertEntry, DistrictPassed, RowOf, EntriesInv, TypeOK
<1>4. row \notin entries /\ entries' = entries \union {row}
  BY DEF InsertEntry, Accepted
<1>5. ASSUME NEW q \in DistrictSlots
      PROVE  Cardinality(SlotEntries(q)') =
               IF q = SlotOf(row) THEN Cardinality(SlotEntries(q)) + 1
                                  ELSE Cardinality(SlotEntries(q))
  <2>1. IsFiniteSet(SlotEntries(q)) /\ row \notin SlotEntries(q)
    BY <1>4, FS_Subset DEF EntriesInv, SlotEntries, DistrictEntries
  <2>2. CASE q = SlotOf(row)
    <3>1. SlotEntries(q)' = SlotEntries(q) \union {row}
      BY <1>4, <2>2 DEF SlotEntries, DistrictEntries, SlotOf
    <3> QED BY <3>1, <2>1, <2>2, FS_AddElement
  <2>3. CASE q # SlotOf(row)
    <3>1. ~(row.event = q[1] /\ row.by = q[2] /\ row.seniority = q[3])
      BY <2>3 DEF SlotOf, DistrictSlots
    <3>2. SlotEntries(q)' = SlotEntries(q)
      BY <1>4, <3>1 DEF SlotEntries, DistrictEntries
    <3> QED BY <3>2, <2>3
  <2> QED BY <2>2, <2>3
<1>6. DistrictCount' = [DistrictCount EXCEPT ![SlotOf(row)] = @ + 1]
  BY <1>1, <1>5 DEF DistrictCount, SlotEntries
<1> QED BY <1>2, <1>3, <1>6 DEF DistrictQuota!Admit

LEMMA DistrictFail ==
  ASSUME EntriesInv, NEW r \in Requests, FailEntry(r)
  PROVE  DistrictQuota!Refuse(r)
<1>1. pending[r] # Nil /\ SlotOf(pending[r]) \in DistrictSlots
  BY DEF FailEntry, EntriesInv, TypeOK, Entry, SlotOf, DistrictSlots
<1>2. DistrictPassed[r] # Nil
  BY <1>1, NoEntry DEF DistrictPassed, RowOf, SlotOf, DistrictSlots
<1>3. DistrictPassed' = [DistrictPassed EXCEPT ![r] = Nil]
  BY DEF FailEntry, DistrictPassed, RowOf, EntriesInv, TypeOK
<1>4. UNCHANGED DistrictCount
  BY DEF FailEntry, DistrictCount, DistrictEntries
<1> QED BY <1>2, <1>3, <1>4 DEF DistrictQuota!Refuse

LEMMA DistrictStep ==
  ASSUME EntriesInv, EntriesInv', [Next]_evars
  PROVE  [DistrictQuota!AdmissionNext]_(DistrictQuota!avars)
<1>1. ASSUME NEW r \in Requests, NEW m \in Members, NEW v \in Events,
             NEW d \in Districts, NEW s \in Seniorities, CheckEntry(r, m, v, d, s)
      PROVE  DistrictQuota!AdmissionNext
  <2>1. <<v, d, s>> \in DistrictSlots
    BY DEF DistrictSlots
  <2> QED BY <1>1, <2>1, DistrictCheck DEF DistrictQuota!AdmissionNext
<1>2. ASSUME NEW r \in Requests, InsertEntry(r) \/ FailEntry(r)
      PROVE  DistrictQuota!AdmissionNext
  BY <1>2, DistrictInsert, DistrictFail DEF DistrictQuota!AdmissionNext
<1>3. ASSUME NEW e \in entries, RemoveEntry(e)
      PROVE  DistrictQuota!AdmissionNext
  BY <1>3, DistrictRowsGo DEF DistrictQuota!AdmissionNext, RemoveEntry
<1>4. ASSUME NEW m \in Members, DeleteMember(m)
      PROVE  DistrictQuota!AdmissionNext
  BY <1>4, DistrictRowsGo DEF DistrictQuota!AdmissionNext, DeleteMember
<1>5. ASSUME UNCHANGED <<entries, pending>>
      PROVE  UNCHANGED DistrictQuota!avars
  BY <1>5 DEF DistrictQuota!avars, DistrictCount, DistrictPassed, DistrictEntries, RowOf
<1>6. ASSUME NEW m \in Members, Exclude(m) \/ Readmit(m)
      PROVE  UNCHANGED DistrictQuota!avars
  BY <1>5, <1>6 DEF Exclude, Readmit
<1>7. ASSUME NEW m \in Members, NEW u \in Units, MoveMember(m, u) \/ NewMember(m, u)
      PROVE  UNCHANGED DistrictQuota!avars
  BY <1>5, <1>7 DEF MoveMember, NewMember
<1>8. CASE UNCHANGED evars
  BY <1>5, <1>8 DEF evars
<1> QED
  BY <1>1, <1>2, <1>3, <1>4, <1>6, <1>7, <1>8 DEF Next, EntryRequest, RosterStep

(* The entries of a district are admitted as BoundedAdmission says ...     *)
THEOREM DistrictQuotaImplements == Spec => DistrictQuotaKept
<1>1. EntriesInv /\ EntriesInv' /\ [Next]_evars
        => [DistrictQuota!AdmissionNext]_(DistrictQuota!avars)
  BY DistrictStep
<1> QED
  BY <1>1, DistrictStarts, EntriesInvStarts, EntriesInvStep, PTL
  DEF Spec, DistrictQuotaKept, DistrictQuota!AdmissionSpec

(* ... so no district has more than DistrictLimit and the other requests   *)
(* in an event and seniority.                                              *)
THEOREM DistrictQuotaBounded == Spec => []DistrictQuota!OvershootBounded
<1>1. DistrictQuota!AdmissionSpec => []DistrictQuota!OvershootBounded
  <2>1. DistrictQuota!AdmissionSpec
          => [](DistrictQuota!AdmissionInv /\ DistrictQuota!OvershootBounded)
    BY DistrictConstants, EntriesAssumption, DistrictQuota!AdmissionBounded
  <2> QED BY <2>1, PTL
<1> QED BY <1>1, DistrictQuotaImplements DEF DistrictQuotaKept

(* One check admits to both.                                               *)
THEOREM EntryQuotasImplement == Spec => EntryQuotasKept
BY PersonQuotaImplements, DistrictQuotaImplements DEF EntryQuotasKept

-----------------------------------------------------------------------------
(***************************************************************************)
(* ConferenceDelegates.                                                    *)
(***************************************************************************)

NewRow(k) == [by |-> calls[k].by, person |-> calls[k].person, call |-> k]

(* The rows are finitely many, and the one a call will insert is not there *)
(* yet: so every insert counts.                                            *)
DelegatesInv ==
  /\ DelegatesTypeOK
  /\ IsFiniteSet(delegates)
  /\ \A k \in Calls : calls[k].kind = "names" => NewRow(k) \notin delegates

(* Rewriting an entry, should there be one, keeps a sequence a sequence.   *)
LEMMA Rewritten ==
  ASSUME NEW S, NEW s \in Seq(S), NEW i, NEW v \in S
  PROVE  [s EXCEPT ![i] = v] \in Seq(S)
<1>1. s \in [1 .. Len(s) -> S] /\ Len(s) \in Nat
  OBVIOUS
<1>2. [s EXCEPT ![i] = v] \in [1 .. Len(s) -> S]
  BY <1>1
<1> QED BY <1>1, <1>2, SeqDef

LEMMA DelegatesStart == DelegatesInit => DelegatesInv
BY FS_EmptySet
DEF DelegatesInit, DelegatesInv, DelegatesTypeOK, CallStates, Waiting

(* A call that is naming or feeding, and for whom.                         *)
LEMMA CallShapes ==
  ASSUME DelegatesTypeOK, NEW k \in Calls
  PROVE  /\ calls[k].kind = "names"
              => calls[k].by \in Officials /\ calls[k].person \in People
                   /\ calls[k].reopens \in BOOLEAN
                   /\ desk[calls[k].by] \in Desk /\ calls[k] # Waiting
         /\ calls[k].kind = "feeds"
              => calls[k].by \in Officials /\ desk[calls[k].by] \in Desk
                   /\ calls[k] # Waiting
         /\ calls[k] = Waiting <=> calls[k].kind \notin {"names", "feeds"}
<1>1. calls[k] \in CallStates /\ (calls[k] # Waiting => desk[calls[k].by] # None)
  BY DEF DelegatesTypeOK
<1>2. CASE calls[k] = Waiting
  BY <1>2 DEF Waiting
<1>3. ASSUME NEW o \in Officials, NEW p \in People, NEW b \in BOOLEAN, calls[k] = Names(o, p, b)
      PROVE  /\ calls[k].kind = "names" /\ calls[k] # Waiting
             /\ calls[k].by \in Officials /\ calls[k].person \in People
             /\ calls[k].reopens \in BOOLEAN
  BY <1>3 DEF Names, Waiting
<1>4. ASSUME NEW o \in Officials, calls[k] = Feeds(o)
      PROVE  calls[k].kind = "feeds" /\ calls[k].by \in Officials /\ calls[k] # Waiting
  BY <1>4 DEF Feeds, Waiting
<1>5. \A o \in Officials : desk[o] \in Desk \union {None}
  BY DEF DelegatesTypeOK
<1> QED BY <1>1, <1>2, <1>3, <1>4, <1>5 DEF CallStates

LEMMA CheckDelegateKeeps ==
  ASSUME DelegatesInv, NEW k \in Calls, NEW o \in Officials, NEW p \in People,
         CheckDelegate(k, o, p)
  PROVE  DelegatesInv'
<1> DEFINE t == Names(o, p, bills[o] = <<"PAID">>)
<1>1. /\ calls' = [calls EXCEPT ![k] = t] /\ desk[o] # None
      /\ UNCHANGED <<desk, present, delegates, bills, food>>
      /\ Delegations(desk[o].conference, p) = {}
  BY DEF CheckDelegate, MayName
<1>2. t \in CallStates /\ t.by = o /\ t.person = p /\ t.kind = "names"
  <2>1. (bills[o] = <<"PAID">>) \in BOOLEAN
    OBVIOUS
  <2>2. PICK b \in BOOLEAN : t = Names(o, p, b)
    BY <2>1
  <2>3. Names(o, p, b) \in CallStates
    BY DEF CallStates
  <2> QED BY <2>2, <2>3 DEF Names
<1>3. calls \in [Calls -> CallStates]
  BY DEF DelegatesInv, DelegatesTypeOK
<1>4. calls' \in [Calls -> CallStates] /\ calls'[k] = t
  <2> HIDE DEF t
  <2> QED BY <1>1, <1>2, <1>3
<1>5. \A q \in Calls : q # k => calls'[q] = calls[q]
  BY <1>1, <1>3
<1>6. DelegatesTypeOK'
  <2> HIDE DEF t
  <2> QED BY <1>1, <1>2, <1>4, <1>5 DEF DelegatesInv, DelegatesTypeOK
<1>7. NewRow(k)' \notin delegates'
  <2>1. NewRow(k)' = [by |-> o, person |-> p, call |-> k]
    <3> HIDE DEF t
    <3> QED BY <1>2, <1>4 DEF NewRow
  <2>2. \A e \in delegates : ~(e.person = p /\ e.by = o)
    BY <1>1 DEF Delegations
  <2> QED BY <1>1, <2>1, <2>2
<1>8. \A q \in Calls : q # k /\ calls'[q].kind = "names" => NewRow(q)' \notin delegates'
  BY <1>1, <1>5 DEF DelegatesInv, NewRow
<1> QED BY <1>1, <1>6, <1>7, <1>8 DEF DelegatesInv

(* A call that ends waits again.                                           *)
LEMMA EndedCalls ==
  ASSUME DelegatesTypeOK, NEW k \in Calls, calls' = [calls EXCEPT ![k] = Waiting],
         UNCHANGED desk
  PROVE  /\ calls' \in [Calls -> CallStates]
         /\ calls'[k] = Waiting
         /\ \A q \in Calls : q # k => calls'[q] = calls[q]
         /\ \A q \in Calls : calls'[q] # Waiting => desk'[calls'[q].by] # None
BY DEF DelegatesTypeOK, CallStates

LEMMA InsertDelegateKeeps ==
  ASSUME DelegatesInv, NEW k \in Calls, InsertDelegate(k)
  PROVE  DelegatesInv'
<1>1. /\ calls[k].kind = "names"
      /\ delegates' = delegates \union {NewRow(k)}
      /\ calls' = [calls EXCEPT ![k] = Waiting]
      /\ UNCHANGED <<desk, present, food>>
      /\ bills' = IF calls[k].reopens THEN [bills EXCEPT ![calls[k].by][1] = "OPEN"] ELSE bills
  BY DEF InsertDelegate, NewRow
<1>2. /\ calls' \in [Calls -> CallStates]
      /\ calls'[k] = Waiting
      /\ \A q \in Calls : q # k => calls'[q] = calls[q]
      /\ \A q \in Calls : calls'[q] # Waiting => desk'[calls'[q].by] # None
  BY <1>1, EndedCalls DEF DelegatesInv
<1>3. calls[k].by \in Officials /\ calls[k].person \in People /\ desk[calls[k].by] # None
  BY <1>1, CallShapes DEF DelegatesInv, DelegatesTypeOK
<1>4. delegates' \subseteq Delegate
  BY <1>1, <1>3 DEF NewRow, Delegate, DelegatesInv, DelegatesTypeOK
<1>5. \A e \in delegates' : desk'[e.by] # None
  BY <1>1, <1>3 DEF NewRow, DelegatesInv, DelegatesTypeOK
<1>6. bills' \in [Officials -> Seq(BillStatuses)]
  <2>1. \A s \in Seq(BillStatuses) : [s EXCEPT ![1] = "OPEN"] \in Seq(BillStatuses)
    BY Rewritten DEF BillStatuses
  <2> QED BY <1>1, <1>3, <2>1 DEF DelegatesInv, DelegatesTypeOK
<1>7. DelegatesTypeOK'
  BY <1>1, <1>2, <1>4, <1>5, <1>6 DEF DelegatesInv, DelegatesTypeOK
<1>8. IsFiniteSet(delegates')
  BY <1>1, FS_AddElement DEF DelegatesInv
<1>9. ASSUME NEW q \in Calls, calls'[q].kind = "names"
      PROVE  NewRow(q)' \notin delegates'
  <2>1. q # k
    BY <1>2, <1>9 DEF Waiting
  <2>2. NewRow(q)' = NewRow(q) /\ NewRow(q) \notin delegates
    BY <1>2, <1>9, <2>1 DEF NewRow, DelegatesInv
  <2>3. NewRow(q) # NewRow(k)
    BY <2>1 DEF NewRow
  <2> QED BY <1>1, <2>2, <2>3
<1> QED BY <1>7, <1>8, <1>9 DEF DelegatesInv

LEMMA FoodKeeps ==
  ASSUME DelegatesInv, NEW k \in Calls,
         InsertFood(k) \/ FailCall(k) \/ \E o \in Officials : CheckFood(k, o)
  PROVE  DelegatesInv'
<1>1. CASE InsertFood(k) \/ FailCall(k)
  <2>1. /\ calls' = [calls EXCEPT ![k] = Waiting]
        /\ UNCHANGED <<desk, present, delegates, bills>>
    BY <1>1 DEF InsertFood, FailCall
  <2>2. /\ calls' \in [Calls -> CallStates]
        /\ calls'[k] = Waiting
        /\ \A q \in Calls : q # k => calls'[q] = calls[q]
        /\ \A q \in Calls : calls'[q] # Waiting => desk'[calls'[q].by] # None
    BY <2>1, EndedCalls DEF DelegatesInv
  <2>3. food' \in [Officials -> Nat]
    <3>1. CASE InsertFood(k)
      <4>1. calls[k].by \in Officials
        BY <3>1, CallShapes DEF InsertFood, DelegatesInv
      <4> QED BY <3>1, <4>1 DEF InsertFood, DelegatesInv, DelegatesTypeOK
    <3>2. CASE FailCall(k)
      BY <3>2 DEF FailCall, DelegatesInv, DelegatesTypeOK
    <3> QED BY <1>1, <3>1, <3>2
  <2>4. \A q \in Calls : calls'[q].kind = "names" => calls'[q] = calls[q]
    BY <2>2 DEF Waiting
  <2> QED BY <2>1, <2>2, <2>3, <2>4 DEF DelegatesInv, DelegatesTypeOK, NewRow
<1>2. ASSUME NEW o \in Officials, CheckFood(k, o) PROVE DelegatesInv'
  <2>1. /\ calls' = [calls EXCEPT ![k] = Feeds(o)] /\ desk[o] # None
        /\ UNCHANGED <<desk, present, delegates, bills, food>>
    BY <1>2 DEF CheckFood, MayFeed
  <2>2. Feeds(o) \in CallStates /\ Feeds(o).by = o /\ Feeds(o).kind # "names"
    BY DEF CallStates, Feeds
  <2>3. calls \in [Calls -> CallStates]
    BY DEF DelegatesInv, DelegatesTypeOK
  <2>4. /\ calls' \in [Calls -> CallStates]
        /\ \A q \in Calls : calls'[q] # Waiting => desk'[calls'[q].by] # None
        /\ \A q \in Calls : calls'[q].kind = "names" => calls'[q] = calls[q]
    BY <2>1, <2>2, <2>3 DEF DelegatesInv, DelegatesTypeOK
  <2> QED BY <2>1, <2>4 DEF DelegatesInv, DelegatesTypeOK, NewRow
<1> QED BY <1>1, <1>2

LEMMA OfficeKeeps == ASSUME DelegatesInv, OfficeStep PROVE DelegatesInv'
<1> USE DEF DelegatesInv, DelegatesTypeOK
<1>1. ASSUME NEW o \in Officials, NEW c \in Conferences, NEW q \in StartQuotas,
             AddOfficial(o, c, q)
      PROVE  DelegatesInv'
  <2>1. [conference |-> c, quota |-> q] \in Desk
    BY DelegatesAssumption DEF Desk
  <2>2. [conference |-> c, quota |-> q] # None
    BY <2>1, NoDesk
  <2>3. desk' = [desk EXCEPT ![o] = [conference |-> c, quota |-> q]] /\ desk[o] = None
        /\ UNCHANGED <<present, delegates, bills, food, calls>>
    BY <1>1 DEF AddOfficial
  <2>4. \A e \in delegates : e.by # o /\ e.by \in Officials
    BY <2>3 DEF Delegate
  <2>5. \A k \in Calls : calls[k] # Waiting => calls[k].by # o /\ calls[k].by \in Officials
    <3> SUFFICES ASSUME NEW k \in Calls, calls[k] # Waiting
                 PROVE  calls[k].by # o /\ calls[k].by \in Officials
      OBVIOUS
    <3>1. calls[k].by \in Officials
      BY CallShapes
    <3> QED BY <2>3, <3>1
  <2> QED BY <2>1, <2>2, <2>3, <2>4, <2>5 DEF NewRow
<1>2. ASSUME NEW o \in Officials, NEW q \in 0 .. MaxQuota, SetQuota(o, q)
      PROVE  DelegatesInv'
  <2>1. desk[o] \in Desk /\ desk' = [desk EXCEPT ![o].quota = q]
        /\ UNCHANGED <<present, delegates, bills, food, calls>>
    BY <1>2 DEF SetQuota
  <2>2. [desk[o] EXCEPT !.quota = q] \in Desk
    BY <2>1 DEF Desk
  <2>3. desk' = [desk EXCEPT ![o] = [desk[o] EXCEPT !.quota = q]]
    BY <2>1
  <2>4. desk' \in [Officials -> Desk \union {None}]
    BY <2>2, <2>3
  <2>5. ASSUME NEW e \in Officials, desk[e] # None PROVE desk'[e] # None
    <3>1. CASE e = o
      BY <2>2, <2>3, <3>1, NoDesk
    <3>2. CASE e # o
      BY <2>3, <2>5, <3>2
    <3> QED BY <3>1, <3>2
  <2>6. \A e \in delegates : e.by \in Officials
    BY DEF Delegate
  <2>7. \A k \in Calls : calls[k] # Waiting => calls[k].by \in Officials
    BY CallShapes
  <2> QED BY <2>1, <2>4, <2>5, <2>6, <2>7 DEF NewRow
<1>3. ASSUME NEW o \in Officials, CreatePayment(o) \/ MarkPaid(o)
      PROVE  DelegatesInv'
  <2>1. UNCHANGED <<desk, present, delegates, food, calls>>
    BY <1>3 DEF CreatePayment, MarkPaid
  <2>2. bills' \in [Officials -> Seq(BillStatuses)]
    <3>1. bills[o] \in Seq(BillStatuses) /\ {"OPEN", "PAID"} \subseteq BillStatuses
      BY DEF BillStatuses
    <3>2. CASE CreatePayment(o)
      BY <3>1, <3>2 DEF CreatePayment
    <3>3. CASE MarkPaid(o)
      <4>1. [bills[o] EXCEPT ![Len(bills[o])] = "PAID"] \in Seq(BillStatuses)
        BY <3>1, Rewritten
      <4> QED BY <4>1, <3>3 DEF MarkPaid
    <3> QED BY <1>3, <3>2, <3>3
  <2> QED BY <2>1, <2>2 DEF NewRow
<1>4. ASSUME NEW p \in People, DeletePerson(p)
      PROVE  DelegatesInv'
  <2>1. /\ delegates' \in SUBSET delegates
        /\ present' \subseteq present
        /\ UNCHANGED <<desk, bills, food, calls>>
    BY <1>4 DEF DeletePerson
  <2>2. IsFiniteSet(delegates')
    BY <2>1, FS_Subset
  <2> QED BY <2>1, <2>2 DEF NewRow
<1>5. ASSUME NEW c \in Conferences, NEW p \in People, RemoveDelegate(c, p)
      PROVE  DelegatesInv'
  <2>1. /\ delegates' \in SUBSET delegates
        /\ UNCHANGED <<desk, present, bills, food, calls>>
    BY <1>5 DEF RemoveDelegate
  <2>2. IsFiniteSet(delegates')
    BY <2>1, FS_Subset
  <2> QED BY <2>1, <2>2 DEF NewRow
<1> QED BY <1>1, <1>2, <1>3, <1>4, <1>5 DEF OfficeStep

LEMMA DelegatesStep == DelegatesInv /\ [DelegatesNext]_dvars => DelegatesInv'
<1> SUFFICES ASSUME DelegatesInv, [DelegatesNext]_dvars PROVE DelegatesInv'
  OBVIOUS
<1>1. CASE UNCHANGED dvars
  BY <1>1 DEF dvars, DelegatesInv, DelegatesTypeOK, NewRow
<1>2. CASE OfficeStep
  BY <1>2, OfficeKeeps
<1>3. ASSUME NEW k \in Calls, CallStep(k) PROVE DelegatesInv'
  BY <1>3, CheckDelegateKeeps, InsertDelegateKeeps, FoodKeeps DEF CallStep
<1> QED BY <1>1, <1>2, <1>3 DEF DelegatesNext

(* Every reachable state is well typed, and each call's row is still to    *)
(* come.                                                                   *)
THEOREM DelegatesTyped == DelegatesSpec => [](DelegatesTypeOK /\ DelegatesInv)
<1>1. DelegatesInv => DelegatesTypeOK
  BY DEF DelegatesInv
<1> QED BY <1>1, DelegatesStart, DelegatesStep, PTL DEF DelegatesSpec

-----------------------------------------------------------------------------
(* What a step does to the rows of a slot, whichever slots are counted.    *)

LEMMA NamesPassed ==
  ASSUME DelegatesInv, NEW k \in Calls, NEW o \in Officials, NEW p \in People,
         CheckDelegate(k, o, p)
  PROVE  /\ calls[k] = Waiting
         /\ calls' = [calls EXCEPT ![k] = calls'[k]]
         /\ calls'[k].kind = "names" /\ calls'[k].by = o /\ calls'[k].person = p
         /\ UNCHANGED <<desk, delegates, food>>
<1> DEFINE t == Names(o, p, bills[o] = <<"PAID">>)
<1>1. calls' = [calls EXCEPT ![k] = t] /\ calls \in [Calls -> CallStates]
  BY DEF CheckDelegate, DelegatesInv, DelegatesTypeOK
<1>2. t.kind = "names" /\ t.by = o /\ t.person = p
  BY DEF Names
<1>3. calls'[k] = t
  BY <1>1
<1> QED BY <1>1, <1>2, <1>3 DEF CheckDelegate

LEMMA FeedsPassed ==
  ASSUME DelegatesInv, NEW k \in Calls, NEW o \in Officials, CheckFood(k, o)
  PROVE  /\ calls[k] = Waiting
         /\ calls' = [calls EXCEPT ![k] = calls'[k]]
         /\ calls'[k].kind = "feeds" /\ calls'[k].by = o
         /\ UNCHANGED <<desk, delegates, food>>
<1>1. calls' = [calls EXCEPT ![k] = Feeds(o)] /\ calls \in [Calls -> CallStates]
  BY DEF CheckFood, DelegatesInv, DelegatesTypeOK
<1>2. Feeds(o).kind = "feeds" /\ Feeds(o).by = o
  BY DEF Feeds
<1> QED BY <1>1, <1>2 DEF CheckFood

LEMMA Inserted ==
  ASSUME DelegatesInv, NEW k \in Calls, InsertDelegate(k)
  PROVE  /\ calls[k].kind = "names" /\ calls' = [calls EXCEPT ![k] = Waiting]
         /\ calls[k].by \in Officials /\ calls[k].person \in People
         /\ desk[calls[k].by] \in Desk
         /\ NewRow(k) \notin delegates
         /\ delegates' = delegates \union {NewRow(k)}
         /\ NewRow(k).by = calls[k].by /\ NewRow(k).person = calls[k].person
         /\ UNCHANGED <<desk, food>>
<1>1. calls[k].kind = "names"
  BY DEF InsertDelegate
<1>2. calls[k].by \in Officials /\ calls[k].person \in People /\ desk[calls[k].by] \in Desk
  BY <1>1, CallShapes DEF DelegatesInv
<1> QED BY <1>1, <1>2 DEF InsertDelegate, NewRow, DelegatesInv

(* The conference of an official, once given, stays.                       *)
LEMMA OfficeRows ==
  ASSUME DelegatesInv, OfficeStep
  PROVE  /\ delegates' \in SUBSET delegates
         /\ \A o \in Officials : desk[o] # None => desk'[o].conference = desk[o].conference
         /\ UNCHANGED <<calls, food>>
<1> USE DEF DelegatesInv, DelegatesTypeOK
<1>1. ASSUME NEW o \in Officials, NEW c \in Conferences, NEW q \in StartQuotas,
             AddOfficial(o, c, q)
      PROVE  /\ UNCHANGED <<delegates, calls, food>>
             /\ \A d \in Officials : desk[d] # None => desk'[d].conference = desk[d].conference
  BY <1>1 DEF AddOfficial
<1>2. ASSUME NEW o \in Officials, NEW q \in 0 .. MaxQuota, SetQuota(o, q)
      PROVE  /\ UNCHANGED <<delegates, calls, food>>
             /\ \A d \in Officials : desk[d] # None => desk'[d].conference = desk[d].conference
  <2>1. desk[o] \in Desk /\ desk' = [desk EXCEPT ![o] = [desk[o] EXCEPT !.quota = q]]
    BY <1>2 DEF SetQuota
  <2>2. [desk[o] EXCEPT !.quota = q].conference = desk[o].conference
    BY <2>1 DEF Desk
  <2> QED BY <1>2, <2>1, <2>2 DEF SetQuota
<1>3. ASSUME NEW o \in Officials, CreatePayment(o) \/ MarkPaid(o)
      PROVE  UNCHANGED <<desk, delegates, calls, food>>
  BY <1>3 DEF CreatePayment, MarkPaid
<1>4. ASSUME NEW p \in People, DeletePerson(p)
      PROVE  delegates' \in SUBSET delegates /\ UNCHANGED <<desk, calls, food>>
  BY <1>4 DEF DeletePerson
<1>5. ASSUME NEW c \in Conferences, NEW p \in People, RemoveDelegate(c, p)
      PROVE  delegates' \in SUBSET delegates /\ UNCHANGED <<desk, calls, food>>
  BY <1>5 DEF RemoveDelegate
<1> QED BY <1>1, <1>2, <1>3, <1>4, <1>5 DEF OfficeStep

LEMMA NobodyWaits == Waiting.kind = "waiting"
BY DEF Waiting

-----------------------------------------------------------------------------
(* The delegates of an official.                                           *)

LEMMA QuotaConstants == DelegateQuota!AdmissionConstants
BY DelegatesAssumption
DEF DelegateQuota!AdmissionConstants, DelegateQuota!IsFiniteSet, IsFiniteSet

LEMMA QuotaStarts == DelegatesInit => DelegateQuota!AdmissionInit
<1> SUFFICES ASSUME DelegatesInit PROVE DelegateQuota!AdmissionInit
  OBVIOUS
<1>1. \A o \in Officials : Cardinality(DelegatesBy(o)) = 0
  <2>1. \A o \in Officials : DelegatesBy(o) = {}
    BY DEF DelegatesInit, DelegatesBy
  <2> QED BY <2>1, FS_EmptySet
<1>2. QuotaPassed = [k \in Calls |-> None]
  BY NobodyWaits DEF QuotaPassed, DelegatesInit
<1> QED BY <1>1, <1>2 DEF DelegateQuota!AdmissionInit, QuotaCount

LEMMA QuotaRowsGo ==
  ASSUME DelegatesInv, DelegatesInv', delegates' \in SUBSET delegates, UNCHANGED calls
  PROVE  DelegateQuota!Leave
<1>1. ASSUME NEW o \in Officials
      PROVE  /\ Cardinality(DelegatesBy(o)') \in Nat
             /\ Cardinality(DelegatesBy(o)') <= Cardinality(DelegatesBy(o))
  <2>1. DelegatesBy(o)' \in SUBSET DelegatesBy(o) /\ DelegatesBy(o) \in SUBSET delegates
    BY DEF DelegatesBy
  <2>2. IsFiniteSet(DelegatesBy(o))
    BY <2>1, FS_Subset DEF DelegatesInv
  <2> QED BY <2>1, <2>2, FS_Subset, FS_CardinalityType
<1>2. UNCHANGED QuotaPassed
  BY DEF QuotaPassed
<1> QED BY <1>1, <1>2 DEF DelegateQuota!Leave, QuotaCount

LEMMA QuotaCheck ==
  ASSUME DelegatesInv, NEW k \in Calls, NEW o \in Officials, NEW p \in People,
         CheckDelegate(k, o, p)
  PROVE  DelegateQuota!Pass(k, o)
<1>1. QuotaPassed[k] = None
  BY NamesPassed, NobodyWaits DEF QuotaPassed
<1>2. QuotaPassed' = [QuotaPassed EXCEPT ![k] = o]
  BY NamesPassed DEF QuotaPassed, DelegatesInv, DelegatesTypeOK
<1>3. QuotaCount[o] < MaxQuota
  <2>1. desk[o].quota \in 0 .. MaxQuota
    BY DEF CheckDelegate, DelegatesInv, DelegatesTypeOK, Desk
  <2>2. IsFiniteSet(DelegatesBy(o))
    BY FS_Subset DEF DelegatesInv, DelegatesBy
  <2>3. Cardinality(DelegatesBy(o)) \in Nat
    BY <2>2, FS_CardinalityType
  <2> QED BY <2>1, <2>3, DelegatesAssumption DEF CheckDelegate, MayName, QuotaCount
<1>4. UNCHANGED QuotaCount
  BY NamesPassed DEF QuotaCount, DelegatesBy
<1> QED BY <1>1, <1>2, <1>3, <1>4 DEF DelegateQuota!Pass

LEMMA QuotaInsert ==
  ASSUME DelegatesInv, NEW k \in Calls, InsertDelegate(k)
  PROVE  DelegateQuota!Admit(k)
<1> DEFINE o == calls[k].by
<1>1. QuotaPassed[k] = o /\ o \in Officials /\ o # None
  BY Inserted, DelegatesAssumption DEF QuotaPassed
<1>2. QuotaPassed' = [QuotaPassed EXCEPT ![k] = None]
  <2>1. calls'[k] = Waiting /\ \A q \in Calls : q # k => calls'[q] = calls[q]
    BY Inserted, EndedCalls DEF DelegatesInv
  <2> QED BY <2>1, NobodyWaits DEF QuotaPassed
<1>3. ASSUME NEW d \in Officials
      PROVE  Cardinality(DelegatesBy(d)') =
               IF d = o THEN Cardinality(DelegatesBy(d)) + 1 ELSE Cardinality(DelegatesBy(d))
  <2>1. IsFiniteSet(DelegatesBy(d)) /\ NewRow(k) \notin DelegatesBy(d)
    BY Inserted, FS_Subset DEF DelegatesInv, DelegatesBy
  <2>2. CASE d = o
    <3>1. DelegatesBy(d)' = DelegatesBy(d) \union {NewRow(k)}
      BY Inserted, <2>2 DEF DelegatesBy
    <3> QED BY <3>1, <2>1, <2>2, FS_AddElement
  <2>3. CASE d # o
    <3>1. DelegatesBy(d)' = DelegatesBy(d)
      BY Inserted, <2>3 DEF DelegatesBy
    <3> QED BY <3>1, <2>3
  <2> QED BY <2>2, <2>3
<1>4. QuotaCount' = [QuotaCount EXCEPT ![o] = @ + 1]
  BY <1>1, <1>3 DEF QuotaCount
<1> QED BY <1>1, <1>2, <1>4 DEF DelegateQuota!Admit

(* A call about food, or one that fails.                                   *)
LEMMA QuotaOther ==
  ASSUME DelegatesInv, NEW k \in Calls,
         InsertFood(k) \/ FailCall(k) \/ \E o \in Officials : CheckFood(k, o)
  PROVE  DelegateQuota!Refuse(k) \/ UNCHANGED DelegateQuota!avars
<1>1. UNCHANGED QuotaCount
  BY DEF InsertFood, FailCall, CheckFood, QuotaCount, DelegatesBy
<1>2. CASE FailCall(k) /\ calls[k].kind = "names"
  <2>1. QuotaPassed[k] # None
    BY <1>2, CallShapes, DelegatesAssumption DEF QuotaPassed, DelegatesInv
  <2>2. QuotaPassed' = [QuotaPassed EXCEPT ![k] = None]
    BY <1>2, NobodyWaits DEF FailCall, QuotaPassed, DelegatesInv, DelegatesTypeOK
  <2> QED BY <1>1, <2>1, <2>2 DEF DelegateQuota!Refuse
<1>3. CASE (FailCall(k) /\ calls[k].kind # "names") \/ InsertFood(k)
  <2>1. calls[k].kind # "names" /\ calls' = [calls EXCEPT ![k] = Waiting]
    BY <1>3 DEF FailCall, InsertFood
  <2>2. UNCHANGED QuotaPassed
    BY <2>1, NobodyWaits DEF QuotaPassed, DelegatesInv, DelegatesTypeOK
  <2> QED BY <1>1, <2>2 DEF DelegateQuota!avars
<1>4. ASSUME NEW o \in Officials, CheckFood(k, o) PROVE UNCHANGED QuotaPassed
  BY <1>4, FeedsPassed, NobodyWaits DEF QuotaPassed, DelegatesInv, DelegatesTypeOK
<1> QED BY <1>1, <1>2, <1>3, <1>4 DEF DelegateQuota!avars

LEMMA QuotaStep ==
  ASSUME DelegatesInv, DelegatesInv', [DelegatesNext]_dvars
  PROVE  [DelegateQuota!AdmissionNext]_(DelegateQuota!avars)
<1>1. ASSUME NEW k \in Calls, CallStep(k)
      PROVE  [DelegateQuota!AdmissionNext]_(DelegateQuota!avars)
  BY <1>1, QuotaCheck, QuotaInsert, QuotaOther DEF CallStep, DelegateQuota!AdmissionNext
<1>2. CASE OfficeStep
  BY <1>2, OfficeRows, QuotaRowsGo DEF DelegateQuota!AdmissionNext
<1>3. CASE UNCHANGED dvars
  BY <1>3 DEF dvars, DelegateQuota!avars, QuotaCount, QuotaPassed, DelegatesBy
<1> QED BY <1>1, <1>2, <1>3 DEF DelegatesNext

(* The delegates of an official are admitted as BoundedAdmission says ...  *)
THEOREM DelegateQuotaImplements == DelegatesSpec => DelegateQuotaKept
<1>1. DelegatesInv /\ DelegatesInv' /\ [DelegatesNext]_dvars
        => [DelegateQuota!AdmissionNext]_(DelegateQuota!avars)
  BY QuotaStep
<1> QED
  BY <1>1, QuotaStarts, DelegatesStart, DelegatesStep, PTL
  DEF DelegatesSpec, DelegateQuotaKept, DelegateQuota!AdmissionSpec

(* ... so no official has more than the largest quota and the other calls. *)
THEOREM DelegateQuotaBounded == DelegatesSpec => []DelegateQuota!OvershootBounded
<1>1. DelegateQuota!AdmissionSpec => []DelegateQuota!OvershootBounded
  <2>1. DelegateQuota!AdmissionSpec
          => [](DelegateQuota!AdmissionInv /\ DelegateQuota!OvershootBounded)
    BY QuotaConstants, DelegatesAssumption, DelegateQuota!AdmissionBounded
  <2> QED BY <2>1, PTL
<1> QED BY <1>1, DelegateQuotaImplements DEF DelegateQuotaKept

-----------------------------------------------------------------------------
(* The rows that name one member in a conference.                          *)

SeatOf(k) == <<desk[calls[k].by].conference, calls[k].person>>
Seats     == Conferences \X People

LEMMA SeatConstants == DelegateOnce!AdmissionConstants
BY DelegatesAssumption
DEF DelegateOnce!AdmissionConstants, DelegateOnce!IsFiniteSet, IsFiniteSet

LEMMA SeatStarts == DelegatesInit => DelegateOnce!AdmissionInit
<1> SUFFICES ASSUME DelegatesInit PROVE DelegateOnce!AdmissionInit
  OBVIOUS
<1>1. \A s \in Seats : Cardinality(Delegations(s[1], s[2])) = 0
  <2>1. \A s \in Seats : Delegations(s[1], s[2]) = {}
    BY DEF DelegatesInit, Delegations
  <2> QED BY <2>1, FS_EmptySet
<1>2. SeatPassed = [k \in Calls |-> None]
  BY NobodyWaits DEF SeatPassed, DelegatesInit
<1> QED BY <1>1, <1>2 DEF DelegateOnce!AdmissionInit, SeatCount, Seats

(* A row keeps its conference, whatever the office does.                   *)
LEMMA SeatRowsGo ==
  ASSUME DelegatesInv, DelegatesInv', OfficeStep
  PROVE  DelegateOnce!Leave
<1>1. /\ delegates' \in SUBSET delegates /\ UNCHANGED calls
      /\ \A o \in Officials : desk[o] # None => desk'[o].conference = desk[o].conference
  BY OfficeRows
<1>2. ASSUME NEW s \in Seats
      PROVE  /\ Cardinality(Delegations(s[1], s[2])') \in Nat
             /\ Cardinality(Delegations(s[1], s[2])') <= Cardinality(Delegations(s[1], s[2]))
  <2>1. \A e \in delegates : desk'[e.by].conference = desk[e.by].conference
    BY <1>1 DEF DelegatesInv, DelegatesTypeOK, Delegate
  <2>2. Delegations(s[1], s[2])' \in SUBSET Delegations(s[1], s[2])
    BY <1>1, <2>1 DEF Delegations
  <2>3. IsFiniteSet(Delegations(s[1], s[2]))
    BY FS_Subset DEF DelegatesInv, Delegations
  <2> QED BY <2>2, <2>3, FS_Subset, FS_CardinalityType
<1>3. ASSUME NEW k \in Calls PROVE SeatPassed'[k] = SeatPassed[k]
  <2>1. CASE calls[k].kind = "names"
    <3>1. desk'[calls[k].by].conference = desk[calls[k].by].conference
      BY <1>1, <2>1, CallShapes, NoDesk DEF DelegatesInv
    <3> QED BY <1>1, <3>1 DEF SeatPassed
  <2>2. CASE calls[k].kind # "names"
    BY <1>1, <2>2 DEF SeatPassed
  <2> QED BY <2>1, <2>2
<1>4. UNCHANGED SeatPassed
  BY <1>3 DEF SeatPassed
<1> QED BY <1>2, <1>4 DEF DelegateOnce!Leave, SeatCount, Seats

LEMMA SeatCheck ==
  ASSUME DelegatesInv, NEW k \in Calls, NEW o \in Officials, NEW p \in People,
         CheckDelegate(k, o, p)
  PROVE  \E s \in Seats : DelegateOnce!Pass(k, s)
<1> DEFINE s == <<desk[o].conference, p>>
<1>1. s \in Seats
  BY DEF CheckDelegate, DelegatesInv, DelegatesTypeOK, Desk, Seats
<1>2. SeatPassed[k] = None
  BY NamesPassed, NobodyWaits DEF SeatPassed
<1>3. SeatPassed' = [SeatPassed EXCEPT ![k] = s]
  <2>1. SeatPassed'[k] = s
    BY NamesPassed DEF SeatPassed
  <2>2. \A q \in Calls : q # k => calls'[q] = calls[q]
    BY NamesPassed DEF DelegatesInv, DelegatesTypeOK
  <2>3. \A q \in Calls : q # k => SeatPassed'[q] = SeatPassed[q]
    BY <2>2, NamesPassed DEF SeatPassed
  <2> QED BY <2>1, <2>3 DEF SeatPassed
<1>4. SeatCount[s] < 1
  <2>1. Delegations(s[1], s[2]) = {}
    BY DEF CheckDelegate, MayName
  <2> QED BY <1>1, <2>1, FS_EmptySet DEF SeatCount, Seats
<1>5. UNCHANGED SeatCount
  BY DEF CheckDelegate, SeatCount, Delegations
<1> QED BY <1>1, <1>2, <1>3, <1>4, <1>5 DEF DelegateOnce!Pass

LEMMA SeatInsert ==
  ASSUME DelegatesInv, NEW k \in Calls, InsertDelegate(k)
  PROVE  DelegateOnce!Admit(k)
<1> DEFINE w == SeatOf(k)
<1>1. w \in Seats /\ w # None
  BY Inserted, DelegatesAssumption DEF SeatOf, Seats, Desk
<1>2. SeatPassed[k] = w
  BY Inserted DEF SeatPassed, SeatOf
<1>3. SeatPassed' = [SeatPassed EXCEPT ![k] = None]
  <2>1. calls'[k] = Waiting /\ \A q \in Calls : q # k => calls'[q] = calls[q]
    BY Inserted, EndedCalls DEF DelegatesInv
  <2> QED BY <2>1, Inserted, NobodyWaits DEF SeatPassed
<1>4. ASSUME NEW s \in Seats
      PROVE  Cardinality(Delegations(s[1], s[2])') =
               IF s = w THEN Cardinality(Delegations(s[1], s[2])) + 1
                        ELSE Cardinality(Delegations(s[1], s[2]))
  <2> DEFINE D == Delegations(s[1], s[2])
  <2>1. IsFiniteSet(D) /\ NewRow(k) \notin D
    BY Inserted, FS_Subset DEF DelegatesInv, Delegations
  <2>2. CASE s = w
    <3>1. D' = D \union {NewRow(k)}
      BY Inserted, <2>2 DEF Delegations, SeatOf
    <3> QED BY <3>1, <2>1, <2>2, FS_AddElement
  <2>3. CASE s # w
    <3>1. ~(s[1] = w[1] /\ s[2] = w[2])
      BY <2>3 DEF SeatOf, Seats
    <3>2. D' = D
      BY Inserted, <3>1 DEF Delegations, SeatOf
    <3> QED BY <3>2, <2>3
  <2> QED BY <2>2, <2>3
<1>5. SeatCount' = [SeatCount EXCEPT ![w] = @ + 1]
  BY <1>1, <1>4 DEF SeatCount, Seats
<1> QED BY <1>1, <1>2, <1>3, <1>5 DEF DelegateOnce!Admit

LEMMA SeatOther ==
  ASSUME DelegatesInv, NEW k \in Calls,
         InsertFood(k) \/ FailCall(k) \/ \E o \in Officials : CheckFood(k, o)
  PROVE  DelegateOnce!Refuse(k) \/ UNCHANGED DelegateOnce!avars
<1>1. UNCHANGED SeatCount
  BY DEF InsertFood, FailCall, CheckFood, SeatCount, Delegations
<1>2. CASE InsertFood(k) \/ FailCall(k)
  <2>1. calls' = [calls EXCEPT ![k] = Waiting] /\ UNCHANGED desk
    BY <1>2 DEF InsertFood, FailCall
  <2>2. calls'[k] = Waiting /\ \A q \in Calls : q # k => calls'[q] = calls[q]
    BY <2>1, EndedCalls DEF DelegatesInv
  <2>3. SeatPassed' = [SeatPassed EXCEPT ![k] = None]
    <3>1. SeatPassed'[k] = None
      BY <2>2, NobodyWaits DEF SeatPassed
    <3>2. \A q \in Calls : q # k => SeatPassed'[q] = SeatPassed[q]
      BY <2>1, <2>2 DEF SeatPassed
    <3> QED BY <3>1, <3>2 DEF SeatPassed
  <2>4. CASE calls[k].kind = "names"
    <3>1. FailCall(k)
      BY <1>2, <2>4 DEF InsertFood
    <3>2. SeatPassed[k] # None
      <4>1. SeatOf(k) \in Seats
        BY <2>4, CallShapes DEF DelegatesInv, SeatOf, Seats, Desk
      <4> QED BY <2>4, <4>1, DelegatesAssumption DEF SeatPassed, SeatOf, Seats
    <3> QED BY <1>1, <2>3, <3>1, <3>2 DEF DelegateOnce!Refuse
  <2>5. CASE calls[k].kind # "names"
    <3>1. SeatPassed[k] = None
      BY <2>5 DEF SeatPassed
    <3>2. SeatPassed' = SeatPassed
      BY <2>3, <3>1 DEF SeatPassed
    <3> QED BY <1>1, <3>2 DEF DelegateOnce!avars
  <2> QED BY <2>4, <2>5
<1>3. ASSUME NEW o \in Officials, CheckFood(k, o) PROVE UNCHANGED SeatPassed
  BY <1>3, FeedsPassed, NobodyWaits DEF SeatPassed, DelegatesInv, DelegatesTypeOK
<1> QED BY <1>1, <1>2, <1>3 DEF DelegateOnce!avars

LEMMA SeatStep ==
  ASSUME DelegatesInv, DelegatesInv', [DelegatesNext]_dvars
  PROVE  [DelegateOnce!AdmissionNext]_(DelegateOnce!avars)
<1>1. ASSUME NEW k \in Calls, CallStep(k)
      PROVE  [DelegateOnce!AdmissionNext]_(DelegateOnce!avars)
  BY <1>1, SeatCheck, SeatInsert, SeatOther DEF CallStep, DelegateOnce!AdmissionNext, Seats
<1>2. CASE OfficeStep
  BY <1>2, SeatRowsGo DEF DelegateOnce!AdmissionNext
<1>3. CASE UNCHANGED dvars
  BY <1>3 DEF dvars, DelegateOnce!avars, SeatCount, SeatPassed, Delegations
<1> QED BY <1>1, <1>2, <1>3 DEF DelegatesNext

(* A member is named in a conference once, up to the calls in flight: the  *)
(* search for an existing row implements an admission of limit 1.          *)
THEOREM DelegateOnceImplements == DelegatesSpec => DelegatedOnce
<1>1. DelegatesInv /\ DelegatesInv' /\ [DelegatesNext]_dvars
        => [DelegateOnce!AdmissionNext]_(DelegateOnce!avars)
  BY SeatStep
<1> QED
  BY <1>1, SeatStarts, DelegatesStart, DelegatesStep, PTL
  DEF DelegatesSpec, DelegatedOnce, DelegateOnce!AdmissionSpec

-----------------------------------------------------------------------------
(* The food preferences of an official.                                    *)

LEMMA FoodConstants == FoodOnce!AdmissionConstants
BY DelegatesAssumption
DEF FoodOnce!AdmissionConstants, FoodOnce!IsFiniteSet, IsFiniteSet

LEMMA FoodStarts == DelegatesInit => FoodOnce!AdmissionInit
<1> SUFFICES ASSUME DelegatesInit PROVE FoodOnce!AdmissionInit
  OBVIOUS
<1>1. FoodPassed = [k \in Calls |-> None]
  BY NobodyWaits DEF FoodPassed, DelegatesInit
<1> QED BY <1>1 DEF FoodOnce!AdmissionInit, DelegatesInit

LEMMA FoodCheck ==
  ASSUME DelegatesInv, NEW k \in Calls, NEW o \in Officials, CheckFood(k, o)
  PROVE  FoodOnce!Pass(k, o)
<1>1. FoodPassed[k] = None
  BY FeedsPassed, NobodyWaits DEF FoodPassed
<1>2. FoodPassed' = [FoodPassed EXCEPT ![k] = o]
  BY FeedsPassed DEF FoodPassed, DelegatesInv, DelegatesTypeOK
<1>3. food[o] < 1 /\ UNCHANGED food
  BY DEF CheckFood, MayFeed
<1> QED BY <1>1, <1>2, <1>3 DEF FoodOnce!Pass

(* The call ends: its official, if it was about food, is passed no more.   *)
LEMMA FoodEnds ==
  ASSUME DelegatesInv, NEW k \in Calls, calls' = [calls EXCEPT ![k] = Waiting]
  PROVE  FoodPassed' = [FoodPassed EXCEPT ![k] = None]
BY NobodyWaits DEF FoodPassed, DelegatesInv, DelegatesTypeOK

LEMMA FoodInsert ==
  ASSUME DelegatesInv, NEW k \in Calls, InsertFood(k)
  PROVE  FoodOnce!Admit(k)
<1>1. /\ calls[k].kind = "feeds" /\ calls[k].by \in Officials
      /\ calls' = [calls EXCEPT ![k] = Waiting]
      /\ food' = [food EXCEPT ![calls[k].by] = @ + 1]
  BY CallShapes DEF InsertFood, DelegatesInv
<1>2. FoodPassed[k] = calls[k].by /\ FoodPassed[k] # None
  BY <1>1, DelegatesAssumption DEF FoodPassed
<1>3. FoodPassed' = [FoodPassed EXCEPT ![k] = None]
  BY <1>1, FoodEnds
<1> QED BY <1>1, <1>2, <1>3 DEF FoodOnce!Admit

(* A call that names a delegate, or one that fails.                        *)
LEMMA FoodOther ==
  ASSUME DelegatesInv, NEW k \in Calls,
         \/ InsertDelegate(k)
         \/ FailCall(k)
         \/ \E o \in Officials, p \in People : CheckDelegate(k, o, p)
  PROVE  FoodOnce!Refuse(k) \/ UNCHANGED FoodOnce!avars
<1>1. UNCHANGED food
  BY DEF InsertDelegate, FailCall, CheckDelegate
<1>2. CASE FailCall(k) /\ calls[k].kind = "feeds"
  <2>1. FoodPassed[k] # None
    BY <1>2, CallShapes, DelegatesAssumption DEF FoodPassed, DelegatesInv
  <2>2. FoodPassed' = [FoodPassed EXCEPT ![k] = None]
    BY <1>2, FoodEnds DEF FailCall
  <2> QED BY <1>1, <2>1, <2>2 DEF FoodOnce!Refuse
<1>3. CASE (FailCall(k) /\ calls[k].kind # "feeds") \/ InsertDelegate(k)
  <2>1. calls[k].kind # "feeds" /\ calls' = [calls EXCEPT ![k] = Waiting]
    BY <1>3, Inserted DEF FailCall
  <2>2. UNCHANGED FoodPassed
    BY <2>1, NobodyWaits DEF FoodPassed, DelegatesInv, DelegatesTypeOK
  <2> QED BY <1>1, <2>2 DEF FoodOnce!avars
<1>4. ASSUME NEW o \in Officials, NEW p \in People, CheckDelegate(k, o, p)
      PROVE  UNCHANGED FoodPassed
  BY <1>4, NamesPassed, NobodyWaits DEF FoodPassed, DelegatesInv, DelegatesTypeOK
<1> QED BY <1>1, <1>2, <1>3, <1>4 DEF FoodOnce!avars

LEMMA FoodStep ==
  ASSUME DelegatesInv, [DelegatesNext]_dvars
  PROVE  [FoodOnce!AdmissionNext]_(FoodOnce!avars)
<1>1. ASSUME NEW k \in Calls, CallStep(k)
      PROVE  [FoodOnce!AdmissionNext]_(FoodOnce!avars)
  BY <1>1, FoodCheck, FoodInsert, FoodOther DEF CallStep, FoodOnce!AdmissionNext
<1>2. CASE OfficeStep
  BY <1>2, OfficeRows DEF FoodOnce!avars, FoodPassed
<1>3. CASE UNCHANGED dvars
  BY <1>3 DEF dvars, FoodOnce!avars, FoodPassed
<1> QED BY <1>1, <1>2, <1>3 DEF DelegatesNext

(* The food preferences of an official, which are to be one row, are       *)
(* admitted as BoundedAdmission says ...                                   *)
THEOREM FoodOnceImplements == DelegatesSpec => FoodStatedOnce
<1>1. DelegatesInv /\ [DelegatesNext]_dvars => [FoodOnce!AdmissionNext]_(FoodOnce!avars)
  BY FoodStep
<1> QED
  BY <1>1, FoodStarts, DelegatesStart, DelegatesStep, PTL
  DEF DelegatesSpec, FoodStatedOnce, FoodOnce!AdmissionSpec

(* ... so there are never more rows than requests at the same time.        *)
THEOREM FoodRowsBounded == DelegatesSpec => []FoodOnce!OvershootBounded
<1>1. FoodOnce!AdmissionSpec => []FoodOnce!OvershootBounded
  <2>1. FoodOnce!AdmissionSpec => [](FoodOnce!AdmissionInv /\ FoodOnce!OvershootBounded)
    BY FoodConstants, DelegatesAssumption, FoodOnce!AdmissionBounded
  <2> QED BY <2>1, PTL
<1> QED BY <1>1, FoodOnceImplements DEF FoodStatedOnce

-----------------------------------------------------------------------------
(***************************************************************************)
(* Accounts.                                                               *)
(***************************************************************************)

(* A row about to be inserted is of a unit name or a district there is,    *)
(* and of a unit name when it is a unit's.  The user name keeps the        *)
(* officials of a district apart, whatever was checked before.             *)
AccountsInv ==
  /\ AccountsTypeOK
  /\ \A h \in Handlers : inserts[h] # Absent =>
       /\ inserts[h].kind # "BLOOD" => inserts[h].of \in places
       /\ inserts[h].kind = "UNIT" => inserts[h].of \in UnitNames
  /\ \A i, j \in Numbers :
       /\ accounts[i].kind = "OFFICIAL" /\ accounts[j].kind = "OFFICIAL"
       /\ accounts[i].of = accounts[j].of
       => i = j

LEMMA AccountsStart == AccountsInit => AccountsInv
BY DEF AccountsInit, AccountsInv, AccountsTypeOK, Numbers

LEMMA NumbersAre ==
  ASSUME AccountsTypeOK
  PROVE  /\ Len(accounts) \in Nat /\ Numbers = 1 .. Len(accounts)
         /\ accounts = [i \in Numbers |-> accounts[i]]
         /\ \A i \in Numbers : accounts[i] \in Account
BY DEF AccountsTypeOK, Numbers

(* Rewriting rows, and appending one.                                      *)
LEMMA RowsOf ==
  ASSUME NEW S, NEW f, NEW n \in Nat, f \in [1 .. n -> S]
  PROVE  f \in Seq(S) /\ Len(f) = n /\ DOMAIN f = 1 .. n
BY SeqDef

LEMMA NewAccount ==
  ASSUME NEW kind \in {"UNIT", "OFFICIAL", "BLOOD"}, NEW x \in Owners,
         NEW p \in Phone \union {Absent}, NEW s \in Secrets
  PROVE  /\ New(kind, x, p, s) \in Account /\ New(kind, x, p, s) # Absent
         /\ New(kind, x, p, s).kind = kind /\ New(kind, x, p, s).of = x
BY NoAccount DEF New, Account

(* What a handler is ready to insert.                                      *)
LEMMA ReadyCases ==
  ASSUME NEW h \in Handlers,
         CreateStep(h), ~Insert(h), ~Fail(h)
  PROVE  \E a \in Account :
           /\ Ready(h, a)
           /\ a.kind # "BLOOD" => a.of \in places
           /\ a.kind = "UNIT" => a.of \in UnitNames /\ UnitAccounts(a.of) = {}
<1>1. ASSUME NEW p \in Phone, NEW s \in Secrets, NEW u \in UnitNames,
             RegisterUnit(h, u, p, s) \/ CreateUnitUser(h, u, p, s)
      PROVE  /\ Ready(h, New("UNIT", u, p, s)) /\ u \in places /\ UnitAccounts(u) = {}
  BY <1>1 DEF RegisterUnit, CreateUnitUser
<1>2. ASSUME NEW p \in Phone, NEW s \in Secrets, NEW d \in ClergyDistricts,
             CreateOfficial(h, d, p, s) \/ CreateConferenceOfficial(h, d, p, s)
      PROVE  /\ Ready(h, New("OFFICIAL", d, p, s)) /\ d \in places
  BY <1>2 DEF CreateOfficial, CreateConferenceOfficial
<1>3. ASSUME NEW p \in Phone \union {Absent}, NEW s \in Secrets, NEW b \in BloodBanks,
             CreateBloodBank(h, b, p, s)
      PROVE  Ready(h, New("BLOOD", b, p, s))
  BY <1>3 DEF CreateBloodBank
<1>4. UnitNames \subseteq Owners /\ ClergyDistricts \subseteq Owners /\ BloodBanks \subseteq Owners
  BY DEF Owners
<1>5. CASE \E p \in Phone, s \in Secrets, u \in UnitNames :
             RegisterUnit(h, u, p, s) \/ CreateUnitUser(h, u, p, s)
  <2> PICK p \in Phone, s \in Secrets, u \in UnitNames :
        RegisterUnit(h, u, p, s) \/ CreateUnitUser(h, u, p, s)
    BY <1>5
  <2> DEFINE a == New("UNIT", u, p, s)
  <2>1. a \in Account /\ a.kind = "UNIT" /\ a.of = u
    BY <1>4, NewAccount
  <2> QED BY <1>1, <2>1
<1>6. CASE \E p \in Phone, s \in Secrets, d \in ClergyDistricts :
             CreateOfficial(h, d, p, s) \/ CreateConferenceOfficial(h, d, p, s)
  <2> PICK p \in Phone, s \in Secrets, d \in ClergyDistricts :
        CreateOfficial(h, d, p, s) \/ CreateConferenceOfficial(h, d, p, s)
    BY <1>6
  <2> DEFINE a == New("OFFICIAL", d, p, s)
  <2>1. a \in Account /\ a.kind = "OFFICIAL" /\ a.of = d
    BY <1>4, NewAccount
  <2> QED BY <1>2, <2>1
<1>7. CASE \E p \in Phone \union {Absent}, s \in Secrets, b \in BloodBanks :
             CreateBloodBank(h, b, p, s)
  <2> PICK p \in Phone \union {Absent}, s \in Secrets, b \in BloodBanks :
        CreateBloodBank(h, b, p, s)
    BY <1>7
  <2> DEFINE a == New("BLOOD", b, p, s)
  <2>1. a \in Account /\ a.kind = "BLOOD"
    BY <1>4, NewAccount
  <2> QED BY <1>3, <2>1
<1> QED BY <1>5, <1>6, <1>7 DEF CreateStep

(* No change of accounts says whose they are, and none gives a phone       *)
(* number to two.                                                          *)
OwnersKept ==
  /\ accounts' \in [Numbers -> Account]
  /\ \A i \in Numbers : accounts'[i].kind = accounts[i].kind /\ accounts'[i].of = accounts[i].of
  /\ \A i, j \in Numbers : i # j => accounts'[i].phone \notin {accounts'[j].phone} \ {Absent}
  /\ UNCHANGED <<places, enabled, inserts>>

LEMMA ChangeRows ==
  ASSUME AccountsTypeOK, ChangeStep
  PROVE  /\ OwnersKept
         /\ accounts' \in Seq(Account) /\ Len(accounts') = Len(accounts) /\ Numbers' = Numbers
<1>1. \A i, j \in Numbers : i # j => accounts[i].phone \notin {accounts[j].phone} \ {Absent}
  BY DEF AccountsTypeOK
<1>2. ASSUME NEW I, NEW s \in Secrets, WithSecrets(I, s)
      PROVE  OwnersKept
  <2>1. /\ accounts' \in [Numbers -> Account]
        /\ \A i \in Numbers : /\ accounts'[i].kind = accounts[i].kind
                              /\ accounts'[i].of = accounts[i].of
                              /\ accounts'[i].phone = accounts[i].phone
        /\ UNCHANGED <<places, enabled, inserts>>
    BY <1>2, NumbersAre DEF WithSecrets, Account
  <2> QED BY <1>1, <2>1 DEF OwnersKept
<1>3. ASSUME NEW i \in Numbers, NEW p \in Phone \union {Absent}, NEW s \in Secrets,
             UpdateBloodBank(i, p, s)
      PROVE  OwnersKept
  <2>1. /\ accounts' \in [Numbers -> Account]
        /\ \A j \in Numbers : /\ accounts'[j].kind = accounts[j].kind
                              /\ accounts'[j].of = accounts[j].of
                              /\ j # i => accounts'[j].phone = accounts[j].phone
        /\ accounts'[i].phone = IF p = Absent THEN accounts[i].phone ELSE p
        /\ UNCHANGED <<places, enabled, inserts>>
        /\ p # Absent => \A j \in Numbers \ {i} : accounts[j].phone # p
    BY <1>3, NumbersAre DEF UpdateBloodBank, Account
  <2> QED BY <1>1, <2>1 DEF OwnersKept
<1>4. OwnersKept
  BY <1>2, <1>3 DEF ChangeStep, ResetSecret, ResetSecrets, ResetKind
<1> QED BY <1>4, NumbersAre, RowsOf DEF Numbers, OwnersKept

LEMMA InsertRow ==
  ASSUME AccountsTypeOK, NEW h \in Handlers, Insert(h), NEW n, n = Len(accounts)
  PROVE  /\ n \in Nat /\ n + 1 \notin Numbers
         /\ inserts[h] \in Account /\ inserts[h] # Absent /\ Unique(inserts[h])
         /\ accounts' \in Seq(Account) /\ Numbers' = Numbers \union {n + 1}
         /\ accounts'[n + 1] = inserts[h]
         /\ \A i \in Numbers : accounts'[i] = accounts[i]
         /\ inserts' = [inserts EXCEPT ![h] = Absent]
         /\ UNCHANGED <<places, enabled>>
<1>1. inserts[h] \in Account /\ inserts[h] # Absent /\ Unique(inserts[h])
  BY DEF Insert, AccountsTypeOK
<1>2. accounts \in Seq(Account) /\ accounts' = Append(accounts, inserts[h])
  BY DEF Insert, AccountsTypeOK
<1>3. /\ accounts' \in Seq(Account) /\ Len(accounts') = n + 1 /\ n \in Nat
      /\ accounts'[n + 1] = inserts[h]
      /\ \A i \in 1 .. n : accounts'[i] = accounts[i]
  BY <1>1, <1>2
<1>4. Numbers = 1 .. n /\ Numbers' = 1 .. n + 1
  BY <1>2, <1>3 DEF Numbers
<1> QED BY <1>1, <1>3, <1>4 DEF Insert

LEMMA InsertKeeps ==
  ASSUME AccountsInv, NEW h \in Handlers, Insert(h)
  PROVE  AccountsInv'
<1> PICK n : n = Len(accounts)
  OBVIOUS
<1>1. AccountsTypeOK
  BY DEF AccountsInv
<1>2. /\ n \in Nat /\ n + 1 \notin Numbers
      /\ inserts[h] \in Account /\ inserts[h] # Absent /\ Unique(inserts[h])
      /\ accounts' \in Seq(Account) /\ Numbers' = Numbers \union {n + 1}
      /\ accounts'[n + 1] = inserts[h]
      /\ \A i \in Numbers : accounts'[i] = accounts[i]
      /\ inserts' = [inserts EXCEPT ![h] = Absent]
      /\ UNCHANGED <<places, enabled>>
  BY <1>1, InsertRow
<1>3. \A i \in Numbers' : accounts'[i].kind # "BLOOD" => accounts'[i].of \in places'
  <2>1. inserts[h].kind # "BLOOD" => inserts[h].of \in places
    BY <1>2 DEF AccountsInv
  <2> QED BY <1>1, <1>2, <2>1 DEF AccountsTypeOK
<1>4. \A i, j \in Numbers' : i # j => accounts'[i].phone \notin {accounts'[j].phone} \ {Absent}
  <2>1. \A i \in Numbers : inserts[h].phone = Absent \/ accounts[i].phone # inserts[h].phone
    BY <1>2 DEF Unique
  <2> QED BY <1>1, <1>2, <2>1 DEF AccountsTypeOK
<1>5. inserts' \in [Handlers -> Account \union {Absent}]
  BY <1>1, <1>2 DEF AccountsTypeOK
<1>6. AccountsTypeOK'
  BY <1>1, <1>2, <1>3, <1>4, <1>5 DEF AccountsTypeOK
<1>7. \A i, j \in Numbers' :
        /\ accounts'[i].kind = "OFFICIAL" /\ accounts'[j].kind = "OFFICIAL"
        /\ accounts'[i].of = accounts'[j].of
        => i = j
  <2>1. inserts[h].kind = "OFFICIAL" =>
          \A i \in Numbers : accounts[i].kind = "UNIT" \/ accounts[i].of # inserts[h].of
    BY <1>2 DEF Unique, NameFree
  <2> QED BY <1>2, <2>1 DEF AccountsInv
<1>8. \A g \in Handlers : inserts'[g] # Absent => inserts'[g] = inserts[g]
  BY <1>1, <1>2 DEF AccountsTypeOK
<1> QED BY <1>2, <1>6, <1>7, <1>8 DEF AccountsInv

LEMMA ChangeKeeps ==
  ASSUME AccountsInv, ChangeStep
  PROVE  AccountsInv'
<1>1. /\ OwnersKept
      /\ accounts' \in Seq(Account) /\ Numbers' = Numbers
  BY ChangeRows DEF AccountsInv
<1>2. AccountsTypeOK'
  BY <1>1 DEF OwnersKept, AccountsInv, AccountsTypeOK
<1> QED BY <1>1, <1>2 DEF OwnersKept, AccountsInv

(* The rows after a deleted one move up.                                   *)
LEMMA DeleteRow ==
  ASSUME AccountsTypeOK, NEW i \in Numbers, DeleteAccount(i)
  PROVE  /\ accounts[i].kind # "UNIT"
         /\ accounts' \in Seq(Account)
         /\ \A j \in Numbers' : \E k \in Numbers \ {i} :
              accounts'[j] = accounts[k] /\ j = IF k < i THEN k ELSE k - 1
         /\ \A j, k \in Numbers' : j # k =>
              \E l, m \in Numbers : /\ l # m
                                    /\ accounts'[j] = accounts[l] /\ accounts'[k] = accounts[m]
         /\ UNCHANGED <<places, enabled, inserts>>
<1> DEFINE n == Len(accounts)
           old(j) == IF j < i THEN j ELSE j + 1
<1>1. /\ n \in Nat /\ Numbers = 1 .. n /\ i \in 1 .. n
      /\ \A j \in Numbers : accounts[j] \in Account
  BY NumbersAre
<1>2. accounts' = [j \in 1 .. n - 1 |-> accounts[old(j)]]
  BY DEF DeleteAccount
<1>3. \A j \in 1 .. n - 1 : old(j) \in Numbers \ {i} /\ j = IF old(j) < i THEN old(j) ELSE old(j) - 1
  BY <1>1
<1> HIDE DEF n, old
<1>4. n - 1 \in Nat /\ accounts' \in [1 .. n - 1 -> Account]
  BY <1>1, <1>2, <1>3
<1>5. accounts' \in Seq(Account) /\ Numbers' = 1 .. n - 1
  BY <1>4, RowsOf DEF Numbers
<1>6. \A j \in Numbers' : accounts'[j] = accounts[old(j)]
  BY <1>2, <1>5
<1>7. \A j, k \in Numbers' : j # k => old(j) # old(k)
  BY <1>1, <1>3, <1>5
<1>8. accounts[i].kind # "UNIT" /\ UNCHANGED <<places, enabled, inserts>>
  BY DEF DeleteAccount
<1>9. ASSUME NEW j \in Numbers'
      PROVE  \E k \in Numbers \ {i} : accounts'[j] = accounts[k] /\ j = IF k < i THEN k ELSE k - 1
  BY <1>3, <1>5, <1>6
<1>10. ASSUME NEW j \in Numbers', NEW k \in Numbers', j # k
       PROVE  \E l, m \in Numbers : /\ l # m
                                    /\ accounts'[j] = accounts[l] /\ accounts'[k] = accounts[m]
  BY <1>3, <1>5, <1>6, <1>7, <1>10
<1> QED BY <1>5, <1>8, <1>9, <1>10

LEMMA DeleteKeeps ==
  ASSUME AccountsInv, NEW i \in Numbers, DeleteAccount(i)
  PROVE  AccountsInv'
<1>1. AccountsTypeOK
  BY DEF AccountsInv
<1>2. /\ accounts' \in Seq(Account)
      /\ \A j \in Numbers' : \E k \in Numbers : accounts'[j] = accounts[k]
      /\ \A j, k \in Numbers' : j # k =>
           \E l, m \in Numbers : /\ l # m
                                 /\ accounts'[j] = accounts[l] /\ accounts'[k] = accounts[m]
      /\ UNCHANGED <<places, enabled, inserts>>
  BY <1>1, DeleteRow
<1>3. AccountsTypeOK'
  BY <1>1, <1>2 DEF AccountsTypeOK
<1> QED BY <1>2, <1>3 DEF AccountsInv

LEMMA SiteKeeps ==
  ASSUME AccountsInv, SiteStep
  PROVE  AccountsInv' /\ UNCHANGED <<accounts, inserts>>
<1>1. /\ places \subseteq places' /\ places' \subseteq UnitNames \union ClergyDistricts
      /\ enabled' \in BOOLEAN
      /\ UNCHANGED <<accounts, inserts>>
  BY DEF SiteStep, CreateDistrict, CreateUnitName, SwitchRegistration, AccountsInv, AccountsTypeOK
<1> QED BY <1>1 DEF AccountsInv, AccountsTypeOK, Numbers

LEMMA AccountsStep == AccountsInv /\ [AccountsNext]_ovars => AccountsInv'
<1> SUFFICES ASSUME AccountsInv, [AccountsNext]_ovars PROVE AccountsInv'
  OBVIOUS
<1>1. CASE UNCHANGED ovars
  BY <1>1 DEF ovars, AccountsInv, AccountsTypeOK, Numbers
<1>2. ASSUME NEW h \in Handlers, NEW a \in Account, Ready(h, a),
             a.kind # "BLOOD" => a.of \in places,
             a.kind = "UNIT" => a.of \in UnitNames /\ UnitAccounts(a.of) = {}
      PROVE  AccountsInv'
  <2>1. inserts' = [inserts EXCEPT ![h] = a] /\ UNCHANGED <<places, enabled, accounts>>
    BY <1>2 DEF Ready
  <2>2. AccountsTypeOK'
    BY <2>1 DEF AccountsInv, AccountsTypeOK, Numbers
  <2>3. \A g \in Handlers : inserts'[g] = IF g = h THEN a ELSE inserts[g]
    BY <2>1 DEF AccountsInv, AccountsTypeOK
  <2> QED BY <1>2, <2>1, <2>2, <2>3 DEF AccountsInv, Numbers
<1>3. ASSUME NEW h \in Handlers, Fail(h) PROVE AccountsInv'
  <2>1. inserts' = [inserts EXCEPT ![h] = Absent] /\ UNCHANGED <<places, enabled, accounts>>
    BY <1>3 DEF Fail
  <2>2. AccountsTypeOK'
    BY <2>1 DEF AccountsInv, AccountsTypeOK, Numbers
  <2>3. \A g \in Handlers : inserts'[g] # Absent => inserts'[g] = inserts[g]
    BY <2>1 DEF AccountsInv, AccountsTypeOK
  <2> QED BY <2>1, <2>2, <2>3 DEF AccountsInv, Numbers
<1>4. ASSUME NEW h \in Handlers, CreateStep(h) PROVE AccountsInv'
  BY <1>2, <1>3, <1>4, ReadyCases, InsertKeeps
<1> QED BY <1>1, <1>4, ChangeKeeps, SiteKeeps, DeleteKeeps DEF AccountsNext

(* Every account is of a unit or a district there is, and no phone number  *)
(* is stored twice, whatever is created, reset and updated at the same     *)
(* time.                                                                   *)
THEOREM AccountsTyped == AccountsSpec => []AccountsTypeOK
<1>1. AccountsInv => AccountsTypeOK
  BY DEF AccountsInv
<1> QED BY <1>1, AccountsStart, AccountsStep, PTL DEF AccountsSpec

(* A district has one official, although two handlers that look for        *)
(* different things make them (create_district_official,                   *)
(* add_conference_delegate_official).                                      *)
THEOREM OfficialsAlone == AccountsSpec => []OneOfficialEach
<1>1. ASSUME AccountsInv, NEW d \in ClergyDistricts
      PROVE  Cardinality(DistrictOfficials(d)) <= 1
  <2>1. CASE DistrictOfficials(d) = {}
    BY <2>1, FS_EmptySet
  <2>2. CASE DistrictOfficials(d) # {}
    <3>1. PICK i : DistrictOfficials(d) = {i}
      BY <1>1, <2>2 DEF DistrictOfficials, AccountsInv
    <3>2. Cardinality({i}) = 1
      BY FS_Singleton
    <3> QED BY <3>1, <3>2
  <2> QED BY <2>1, <2>2
<1>2. AccountsInv => OneOfficialEach
  BY <1>1 DEF OneOfficialEach
<1> QED BY <1>2, AccountsStart, AccountsStep, PTL DEF AccountsSpec

-----------------------------------------------------------------------------
(* The accounts of a unit.                                                 *)

AccountCount  == [u \in UnitNames |-> Cardinality(UnitAccounts(u))]
AccountPassed ==
  [h \in Handlers |-> IF inserts[h] # Absent /\ inserts[h].kind = "UNIT"
                      THEN inserts[h].of ELSE Absent]

LEMMA UnitConstants == UnitAdmission!AdmissionConstants
BY AccountsAssumption
DEF UnitAdmission!AdmissionConstants, UnitAdmission!IsFiniteSet, IsFiniteSet

LEMMA UnitStarts == AccountsInit => UnitAdmission!AdmissionInit
<1> SUFFICES ASSUME AccountsInit PROVE UnitAdmission!AdmissionInit
  OBVIOUS
<1>1. \A u \in UnitNames : UnitAccounts(u) = {}
  BY DEF AccountsInit, UnitAccounts, Numbers
<1>2. AccountCount = [u \in UnitNames |-> 0]
  BY <1>1, FS_EmptySet DEF AccountCount
<1>3. AccountPassed = [h \in Handlers |-> Absent]
  BY DEF AccountsInit, AccountPassed
<1> QED BY <1>2, <1>3 DEF UnitAdmission!AdmissionInit, AccountCount, AccountPassed

(* The accounts keep their owners: the units keep their accounts.          *)
LEMMA CountStays ==
  ASSUME Numbers' = Numbers,
         \A i \in Numbers : accounts'[i].kind = accounts[i].kind /\ accounts'[i].of = accounts[i].of
  PROVE  UNCHANGED AccountCount
<1>1. \A u \in UnitNames : UnitAccounts(u)' = UnitAccounts(u)
  BY DEF UnitAccounts
<1> QED BY <1>1 DEF AccountCount

LEMMA UnitPass ==
  ASSUME AccountsInv, NEW h \in Handlers, NEW a \in Account, Ready(h, a),
         a.kind = "UNIT" => a.of \in UnitNames /\ UnitAccounts(a.of) = {}
  PROVE  (\E u \in UnitNames : UnitAdmission!Pass(h, u)) \/ UNCHANGED UnitAdmission!avars
<1>1. /\ inserts[h] = Absent /\ inserts' = [inserts EXCEPT ![h] = a] /\ a # Absent
      /\ UNCHANGED <<places, enabled, accounts>>
  BY NoAccount DEF Ready
<1>2. inserts \in [Handlers -> Account \union {Absent}]
  BY DEF AccountsInv, AccountsTypeOK
<1>3. UNCHANGED AccountCount
  BY <1>1, CountStays DEF Numbers
<1>4. AccountPassed[h] = Absent
  BY <1>1 DEF AccountPassed
<1>5. CASE a.kind = "UNIT"
  <2>1. AccountPassed' = [AccountPassed EXCEPT ![h] = a.of]
    BY <1>1, <1>2, <1>5 DEF AccountPassed
  <2>2. AccountCount[a.of] = 0 /\ a.of \in UnitNames
    BY <1>5, FS_EmptySet DEF AccountCount
  <2>3. UnitAdmission!Pass(h, a.of)
    BY <1>3, <1>4, <2>1, <2>2 DEF UnitAdmission!Pass, AccountCount, AccountPassed
  <2> QED BY <2>2, <2>3
<1>6. CASE a.kind # "UNIT"
  <2>1. UNCHANGED AccountPassed
    BY <1>1, <1>2, <1>6 DEF AccountPassed
  <2> QED BY <1>3, <2>1 DEF UnitAdmission!avars, AccountCount, AccountPassed
<1> QED BY <1>5, <1>6

(* A handler that ends, with its row or without.                           *)
LEMMA UnitEnds ==
  ASSUME AccountsInv, NEW h \in Handlers, inserts[h] # Absent,
         inserts' = [inserts EXCEPT ![h] = Absent]
  PROVE  /\ inserts[h].kind = "UNIT" =>
              /\ AccountPassed[h] = inserts[h].of /\ inserts[h].of \in UnitNames
              /\ AccountPassed[h] # Absent
              /\ AccountPassed' = [AccountPassed EXCEPT ![h] = Absent]
         /\ inserts[h].kind # "UNIT" => UNCHANGED AccountPassed
<1>1. inserts \in [Handlers -> Account \union {Absent}]
  BY DEF AccountsInv, AccountsTypeOK
<1>2. inserts[h].kind = "UNIT" => inserts[h].of \in UnitNames /\ inserts[h].of # Absent
  BY AccountsAssumption DEF AccountsInv
<1> QED BY <1>1, <1>2 DEF AccountPassed

LEMMA UnitInsert ==
  ASSUME AccountsInv, NEW h \in Handlers, Insert(h)
  PROVE  UnitAdmission!Admit(h) \/ UNCHANGED UnitAdmission!avars
<1> PICK n, a : n = Len(accounts) /\ a = inserts[h]
  OBVIOUS
<1>1. /\ n \in Nat /\ n + 1 \notin Numbers /\ a # Absent
      /\ Numbers' = Numbers \union {n + 1} /\ accounts'[n + 1] = a
      /\ \A i \in Numbers : accounts'[i] = accounts[i]
      /\ inserts' = [inserts EXCEPT ![h] = Absent]
  BY InsertRow DEF AccountsInv
<1>2. \A u \in UnitNames :
        UnitAccounts(u)' = IF a.kind = "UNIT" /\ u = a.of THEN UnitAccounts(u) \union {n + 1}
                           ELSE UnitAccounts(u)
  BY <1>1 DEF UnitAccounts
<1>3. \A u \in UnitNames : IsFiniteSet(UnitAccounts(u)) /\ n + 1 \notin UnitAccounts(u)
  <2>1. IsFiniteSet(Numbers)
    BY NumbersAre, FS_Interval DEF AccountsInv
  <2> QED BY <1>1, <2>1, FS_Subset DEF UnitAccounts
<1>4. \A u \in UnitNames :
        Cardinality(UnitAccounts(u)') = IF a.kind = "UNIT" /\ u = a.of
                                        THEN Cardinality(UnitAccounts(u)) + 1
                                        ELSE Cardinality(UnitAccounts(u))
  BY <1>2, <1>3, FS_AddElement
<1>5. CASE a.kind = "UNIT"
  <2>1. /\ AccountPassed[h] = a.of /\ AccountPassed[h] # Absent /\ a.of \in UnitNames
        /\ AccountPassed' = [AccountPassed EXCEPT ![h] = Absent]
    BY <1>1, <1>5, UnitEnds
  <2>2. AccountCount' = [AccountCount EXCEPT ![a.of] = @ + 1]
    BY <1>4, <1>5, <2>1 DEF AccountCount
  <2>3. UnitAdmission!Admit(h)
    BY <2>1, <2>2 DEF UnitAdmission!Admit, AccountCount, AccountPassed
  <2> QED BY <2>3
<1>6. CASE a.kind # "UNIT"
  <2>1. UNCHANGED AccountPassed
    BY <1>1, <1>6, UnitEnds
  <2>2. UNCHANGED AccountCount
    BY <1>4, <1>6 DEF AccountCount
  <2> QED BY <2>1, <2>2 DEF UnitAdmission!avars, AccountCount, AccountPassed
<1> QED BY <1>5, <1>6

(* A deleted account is no unit's: the others only move up.                *)
LEMMA UnitDelete ==
  ASSUME AccountsInv, NEW i \in Numbers, DeleteAccount(i)
  PROVE  UnitAdmission!Leave
<1>1. /\ accounts[i].kind # "UNIT"
      /\ \A j \in Numbers' : \E k \in Numbers \ {i} :
           accounts'[j] = accounts[k] /\ j = IF k < i THEN k ELSE k - 1
      /\ UNCHANGED inserts
  BY DeleteRow DEF AccountsInv
<1>2. UNCHANGED AccountPassed
  BY <1>1 DEF AccountPassed
<1>3. ASSUME NEW u \in UnitNames
      PROVE  /\ Cardinality(UnitAccounts(u)') \in Nat
             /\ Cardinality(UnitAccounts(u)') <= Cardinality(UnitAccounts(u))
  <2> DEFINE S == UnitAccounts(u)
             f == [k \in S |-> IF k < i THEN k ELSE k - 1]
             T == {f[k] : k \in S}
  <2>1. IsFiniteSet(S)
    <3>1. IsFiniteSet(Numbers)
      BY NumbersAre, FS_Interval DEF AccountsInv
    <3> QED BY <3>1, FS_Subset DEF UnitAccounts
  <2>2. UnitAccounts(u)' \subseteq T
    BY <1>1 DEF UnitAccounts
  <2>3. IsFiniteSet(T) /\ Cardinality(T) <= Cardinality(S)
    <3>1. f = [k \in S |-> f[k]] /\ T = {f[k] : k \in S}
      OBVIOUS
    <3> HIDE DEF f, S, T
    <3> QED BY <2>1, <3>1, ImageBounded
  <2> HIDE DEF f, T
  <2>4. /\ Cardinality(UnitAccounts(u)') <= Cardinality(T)
        /\ Cardinality(UnitAccounts(u)') \in Nat
        /\ Cardinality(T) \in Nat /\ Cardinality(S) \in Nat
    BY <2>1, <2>2, <2>3, FS_Subset, FS_CardinalityType
  <2> QED BY <2>3, <2>4
<1>4. /\ AccountCount' \in [UnitNames -> Nat]
      /\ \A u \in UnitNames : AccountCount'[u] <= AccountCount[u]
  BY <1>3 DEF AccountCount
<1> QED BY <1>2, <1>4 DEF UnitAdmission!Leave, AccountCount, AccountPassed

LEMMA UnitFail ==
  ASSUME AccountsInv, NEW h \in Handlers, Fail(h)
  PROVE  UnitAdmission!Refuse(h) \/ UNCHANGED UnitAdmission!avars
<1>1. /\ inserts[h] # Absent /\ inserts' = [inserts EXCEPT ![h] = Absent]
      /\ UNCHANGED AccountCount
  BY CountStays DEF Fail, Numbers
<1>2. CASE inserts[h].kind = "UNIT"
  BY <1>1, <1>2, UnitEnds DEF UnitAdmission!Refuse, AccountCount, AccountPassed
<1>3. CASE inserts[h].kind # "UNIT"
  BY <1>1, <1>3, UnitEnds DEF UnitAdmission!avars, AccountCount, AccountPassed
<1> QED BY <1>2, <1>3

LEMMA UnitStep ==
  ASSUME AccountsInv, [AccountsNext]_ovars
  PROVE  [UnitAdmission!AdmissionNext]_(UnitAdmission!avars)
<1>1. ASSUME NEW h \in Handlers, CreateStep(h)
      PROVE  [UnitAdmission!AdmissionNext]_(UnitAdmission!avars)
  BY <1>1, ReadyCases, UnitPass, UnitInsert, UnitFail DEF UnitAdmission!AdmissionNext
<1>2. ASSUME Numbers' = Numbers, UNCHANGED inserts,
             \A i \in Numbers :
               accounts'[i].kind = accounts[i].kind /\ accounts'[i].of = accounts[i].of
      PROVE  UNCHANGED UnitAdmission!avars
  <2>1. UNCHANGED AccountCount
    BY <1>2, CountStays
  <2>2. UNCHANGED AccountPassed
    BY <1>2 DEF AccountPassed
  <2> QED BY <2>1, <2>2 DEF UnitAdmission!avars, AccountCount, AccountPassed
<1>3. CASE ChangeStep
  BY <1>2, <1>3, ChangeRows DEF OwnersKept, AccountsInv
<1>4. CASE SiteStep \/ UNCHANGED ovars
  BY <1>2, <1>4, SiteKeeps DEF ovars, Numbers
<1>5. ASSUME NEW i \in Numbers, DeleteAccount(i)
      PROVE  [UnitAdmission!AdmissionNext]_(UnitAdmission!avars)
  BY <1>5, UnitDelete DEF UnitAdmission!AdmissionNext
<1> QED BY <1>1, <1>3, <1>4, <1>5 DEF AccountsNext

(* The two registrations of a unit are an admission of one account for     *)
(* each unit name (register_unit, create_registered_user), and an official *)
(* is alone ...                                                            *)
THEOREM AccountsImplement == AccountsSpec => AccountsFollowOwners
<1>1. AccountsInv /\ [AccountsNext]_ovars
        => [UnitAdmission!AdmissionNext]_(UnitAdmission!avars)
  BY UnitStep
<1>2. AccountsSpec => UnitAdmission!AdmissionSpec
  BY <1>1, UnitStarts, AccountsStart, AccountsStep, PTL
  DEF AccountsSpec, UnitAdmission!AdmissionSpec
<1> QED BY <1>2, OfficialsAlone DEF AccountsFollowOwners

(* ... so a unit has no more accounts than requests at the same time.     *)
THEOREM UnitAccountsBounded == AccountsSpec => []UnitAdmission!OvershootBounded
<1>1. UnitAdmission!AdmissionSpec => []UnitAdmission!OvershootBounded
  <2>1. UnitAdmission!AdmissionSpec
          => [](UnitAdmission!AdmissionInv /\ UnitAdmission!OvershootBounded)
    BY UnitConstants, AccountsAssumption, UnitAdmission!AdmissionBounded
  <2> QED BY <2>1, PTL
<1> QED BY <1>1, AccountsImplement DEF AccountsFollowOwners

-----------------------------------------------------------------------------
(***************************************************************************)
(* The three together.                                                     *)
(***************************************************************************)

(* What stands still keeps its rows typed.                                 *)
QuotasInv == EntriesInv /\ DelegatesInv /\ AccountsInv

(* Entries of present members, delegates of officials there are, accounts  *)
(* of units and districts there are: each part of a state the three        *)
(* reach together is one that it reaches by itself.                        *)
THEOREM QuotasTyped == QuotasSpec => []QuotasTypeOK
<1>1. QuotasInit => QuotasInv
  BY EntriesInvStarts, DelegatesStart, AccountsStart DEF QuotasInit, QuotasInv
<1>2. QuotasInv /\ [QuotasNext]_qvars => QuotasInv'
  <2>1. [QuotasNext]_qvars => [Next]_evars /\ [DelegatesNext]_dvars /\ [AccountsNext]_ovars
    BY DEF QuotasNext, qvars
  <2> QED BY <2>1, EntriesInvStep, DelegatesStep, AccountsStep DEF QuotasInv
<1>3. QuotasInv => QuotasTypeOK
  BY DEF QuotasInv, EntriesInv, DelegatesInv, AccountsInv, QuotasTypeOK
<1> QED BY <1>1, <1>2, <1>3, PTL DEF QuotasSpec
=============================================================================
