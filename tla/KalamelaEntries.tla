-------------------------- MODULE KalamelaEntries ---------------------------
(***************************************************************************)
(* Entries for the individual events of the arts festival                  *)
(* (app/kalamela/service.py, routers/official.py).  A district official    *)
(* enters a member of a unit; quotas per member, unit and district are     *)
(* checked, a chest number is chosen, and the row is inserted.  Nothing is *)
(* locked between the reads and the insert, so an entry is two steps here, *)
(* and several requests may be in between.                                 *)
(*                                                                         *)
(* Two constraints of the table bind the insert itself: one row per event  *)
(* and member, one per event and chest number.                             *)
(***************************************************************************)
EXTENDS Integers, FiniteSets

CONSTANTS
  Members,        (* the members' ids                                      *)
  Units,
  Districts,      (* each with the official who enters for it              *)
  DistrictOf,     (* unit_name.clergy_district_id                          *)
  Events,         (* individual_event rows                                 *)
  Requests,       (* add requests served at the same time                  *)
  PersonLimit,    (* max_individual_events_per_person, 5                   *)
  UnitLimit,      (* max_participants_per_unit_per_event, 2                *)
  DistrictLimit,  (* the fixed 2 per event and seniority                   *)
  JuniorBase,     (* 100                                                   *)
  SeniorBase,     (* 200                                                   *)
  Wide,           (* 1000: the first number with more digits               *)
  MaxChest,       (* bounds the chest numbers given                        *)
  Nil

ASSUME EntriesAssumption ==
  /\ IsFiniteSet(Requests) /\ Requests # {}
  /\ DistrictOf \in [Units -> Districts]
  /\ {PersonLimit, UnitLimit, DistrictLimit} \subseteq Nat \ {0}
  /\ {JuniorBase, SeniorBase, Wide, MaxChest} \subseteq Nat \ {0}
  /\ JuniorBase < SeniorBase /\ SeniorBase < Wide
  /\ Nil \notin Units \union Members

VARIABLES
  home,           (* the unit of each member; Nil when there is no row     *)
  entries,        (* individual_event_participation                        *)
  excluded,       (* kalamela_exclude_members                              *)
  pending         (* the row each request is about to insert, or Nil       *)

evars == <<home, entries, excluded, pending>>

Seniorities == {"Junior", "Senior"}

Entry == [event : Events, member : Members, by : Districts,
          seniority : Seniorities, chest : Nat]

ASSUME NoEntry == Nil \notin Entry \union (Events \X Districts \X Seniorities)

TypeOK ==
  /\ home \in [Members -> Units \union {Nil}]
  /\ entries \subseteq Entry
  /\ excluded \subseteq Members
  /\ pending \in [Requests -> Entry \union {Nil}]
  /\ \A e \in entries : home[e.member] # Nil

Init ==
  /\ home \in [Members -> Units]
  /\ entries = {}
  /\ excluded = {}
  /\ pending = [r \in Requests |-> Nil]

-----------------------------------------------------------------------------
(* Chest numbers (generate_individual_chest_number).  They are kept as     *)
(* text, and the last one is the greatest as text: a number below Wide     *)
(* comes after a wider one unless its digits with a 0 appended come first. *)

TextRank(n) == IF n < Wide THEN 20 * n ELSE 2 * n + 1

ChestNumbers  == {e.chest : e \in entries}
NumbersOf(m)  == {e.chest : e \in {f \in entries : f.member = m}}
IsLast(n)     == n \in ChestNumbers /\ \A k \in ChestNumbers : TextRank(k) <= TextRank(n)
Base(s)       == IF s = "Junior" THEN JuniorBase ELSE SeniorBase

(* Mutant: only the unit's own entries are asked for the last number.      *)
NextNumberOfUnit(m, s) ==
  IF NumbersOf(m) # {} THEN NumbersOf(m)
  ELSE IF \A e \in entries : home[e.member] # home[m] THEN {Base(s)}
  ELSE {n + 1 : n \in {k \in ChestNumbers : IsLast(k)}}

(* A member keeps the number of an earlier entry - of the earliest one,    *)
(* which is left open when races have given it several.  The base is only  *)
(* used while no entry at all exists.                                      *)
NextNumber(m, s) ==
  IF NumbersOf(m) # {} THEN NumbersOf(m)
  ELSE IF entries = {} THEN {Base(s)}
  ELSE {n + 1 : n \in {k \in ChestNumbers : IsLast(k)}}

-----------------------------------------------------------------------------
(* The quotas (add_individual_participant).                                *)

EntriesOf(m)      == {e \in entries : e.member = m}
UnitEntries(v, u) == {e \in entries : e.event = v /\ home[e.member] = u}
DistrictEntries(v, d, s) ==
  {e \in entries : e.event = v /\ e.by = d /\ e.seniority = s}

(* Mutant: the district's quota is counted without the seniority's others. *)
HasRoomByUnit(m, v, d, s) ==
  /\ Cardinality(EntriesOf(m)) < PersonLimit
  /\ Cardinality(UnitEntries(v, home[m])) < UnitLimit
  /\ Cardinality({e \in DistrictEntries(v, d, s) : home[e.member] = home[m]}) < DistrictLimit

HasRoom(m, v, d, s) ==
  /\ Cardinality(EntriesOf(m)) < PersonLimit
  /\ Cardinality(UnitEntries(v, home[m])) < UnitLimit
  /\ Cardinality(DistrictEntries(v, d, s)) < DistrictLimit

(* The reads of a request, up to the row it will insert.  The official's   *)
(* district, the member's and the seniority are not compared.              *)
CheckEntry(r, m, v, d, s) ==
  /\ pending[r] = Nil
  /\ home[m] # Nil
  /\ m \notin excluded
  /\ HasRoom(m, v, d, s)
  /\ \A e \in EntriesOf(m) : e.event # v
  /\ \E n \in NextNumber(m, s) :
       /\ n <= MaxChest
       /\ pending' = [pending EXCEPT ![r] =
            [event |-> v, member |-> m, by |-> d, seniority |-> s, chest |-> n]]
  /\ UNCHANGED <<home, entries, excluded>>

(* The constraints the database checks at the commit.                      *)
Accepted(row) ==
  /\ home[row.member] # Nil
  /\ \A e \in entries :
       e.event = row.event => e.member # row.member /\ e.chest # row.chest

InsertEntry(r) ==
  /\ pending[r] # Nil
  /\ Accepted(pending[r])
  /\ entries' = entries \union {pending[r]}
  /\ pending' = [pending EXCEPT ![r] = Nil]
  /\ UNCHANGED <<home, excluded>>

(* The commit fails, or the client goes away: no row.                      *)
FailEntry(r) ==
  /\ pending[r] # Nil
  /\ pending' = [pending EXCEPT ![r] = Nil]
  /\ UNCHANGED <<home, entries, excluded>>

(* remove_individual_participation, by the official who entered the row.   *)
RemoveEntry(e) ==
  /\ e \in entries
  /\ entries' = entries \ {e}
  /\ UNCHANGED <<home, excluded, pending>>

-----------------------------------------------------------------------------
(* The admin's exclusions leave the rows that exist.                       *)

Exclude(m) ==
  /\ home[m] # Nil
  /\ m \notin excluded
  /\ excluded' = excluded \union {m}
  /\ UNCHANGED <<home, entries, pending>>

Readmit(m) ==
  /\ m \in excluded
  /\ excluded' = excluded \ {m}
  /\ UNCHANGED <<home, entries, pending>>

(* What the unit's registration does to the members behind the entries: a  *)
(* transfer moves one with its rows, deleting one deletes them.            *)

MoveMember(m, u) ==
  /\ home[m] # Nil /\ home[m] # u
  /\ home' = [home EXCEPT ![m] = u]
  /\ UNCHANGED <<entries, excluded, pending>>

(* Mutant: the rows of its entries stay.                                   *)
DeleteMemberOnly(m) ==
  /\ home[m] # Nil
  /\ home' = [home EXCEPT ![m] = Nil]
  /\ excluded' = excluded \ {m}
  /\ UNCHANGED <<entries, pending>>

DeleteMember(m) ==
  /\ home[m] # Nil
  /\ home' = [home EXCEPT ![m] = Nil]
  /\ entries' = entries \ EntriesOf(m)
  /\ excluded' = excluded \ {m}
  /\ UNCHANGED pending

(* A member added to the roster has a row, and an id, of its own: the id   *)
(* stands for it once no request knows it from before.                     *)
NewMember(m, u) ==
  /\ home[m] = Nil
  /\ \A r \in Requests : pending[r] # Nil => pending[r].member # m
  /\ home' = [home EXCEPT ![m] = u]
  /\ UNCHANGED <<entries, excluded, pending>>

-----------------------------------------------------------------------------

EntryRequest(r) ==
  \/ \E m \in Members, v \in Events, d \in Districts, s \in Seniorities : CheckEntry(r, m, v, d, s)
  \/ InsertEntry(r)
  \/ FailEntry(r)

RosterStep ==
  \/ \E m \in Members, u \in Units : MoveMember(m, u) \/ NewMember(m, u)
  \/ \E m \in Members : DeleteMember(m)

Next ==
  \/ \E r \in Requests : EntryRequest(r)
  \/ \E e \in entries : RemoveEntry(e)
  \/ \E m \in Members : Exclude(m) \/ Readmit(m)
  \/ RosterStep

Spec == Init /\ [][Next]_evars

-----------------------------------------------------------------------------

RowOf(r) == pending[r]
Serving  == {r \in Requests : pending[r] # Nil}

HoldersOf(n) == {e.member : e \in {f \in entries : f.chest = n}}
Heirs(n)     == {RowOf(r).member : r \in {q \in Serving : RowOf(q).chest = n}}
Coming(m)    == {RowOf(r).chest : r \in {q \in Serving : RowOf(q).member = m}}

(* A chest number that has not outgrown its digits is held, or about to be *)
(* held, by no more members than there are requests at the same time: one  *)
(* request at a time gives each member a number of its own, whatever was   *)
(* removed and given again before (generate_individual_chest_number).      *)
NumbersSharedByFew ==
  \A n \in JuniorBase .. (Wide - 1) :
    Cardinality(HoldersOf(n) \union Heirs(n)) <= Cardinality(Requests)

(* And a member has no more numbers than that over all its events.         *)
MembersHaveFewNumbers ==
  \A m \in Members :
    Cardinality(NumbersOf(m) \union Coming(m)) <= Cardinality(Requests)

(* Both: numbers and members correspond, up to the races.                  *)
NumbersFollowMembers == NumbersSharedByFew /\ MembersHaveFewNumbers

(* What the limits of a member, and of a district in one event and         *)
(* seniority, count, and the requests that are past the check.             *)
PersonCount == [m \in Members |-> Cardinality(EntriesOf(m))]
PersonPassed ==
  [r \in Requests |-> IF pending[r] = Nil THEN Nil ELSE RowOf(r).member]

DistrictSlots == Events \X Districts \X Seniorities
DistrictCount ==
  [q \in DistrictSlots |-> Cardinality(DistrictEntries(q[1], q[2], q[3]))]
DistrictPassed ==
  [r \in Requests |-> IF pending[r] = Nil THEN Nil
     ELSE <<RowOf(r).event, RowOf(r).by, RowOf(r).seniority>>]

PersonQuota == INSTANCE BoundedAdmission WITH
  Slots  <- Members,
  Limit  <- PersonLimit,
  NoSlot <- Nil,
  count  <- PersonCount,
  passed <- PersonPassed

DistrictQuota == INSTANCE BoundedAdmission WITH
  Slots  <- DistrictSlots,
  Limit  <- DistrictLimit,
  NoSlot <- Nil,
  count  <- DistrictCount,
  passed <- DistrictPassed

PersonQuotaKept   == PersonQuota!AdmissionSpec
DistrictQuotaKept == DistrictQuota!AdmissionSpec

(* A member's entries, and a district's in one event and seniority, exceed *)
(* their limits only by requests that were served at the same time: the    *)
(* one check of add_individual_participant implements both admissions.     *)
EntryQuotasKept == PersonQuotaKept /\ DistrictQuotaKept

=============================================================================
