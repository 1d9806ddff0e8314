--------------------------- MODULE KalamelaTeams ----------------------------
(***************************************************************************)
(* Teams for the group events of the arts festival and the payments of the *)
(* districts (app/kalamela/service.py).  A team is not a row: it is the    *)
(* rows of one event that carry the same chest number, and whether a unit  *)
(* already has a team, how many a district has and how large one is are    *)
(* counted from those numbers.                                             *)
(*                                                                         *)
(* The counts, the number that follows from them and the rows that are     *)
(* added are statements of their own, and so are the two questions before  *)
(* a payment and the payment: nothing is locked, and no constraint of the  *)
(* tables holds a unit to one team or a district to one payment.           *)
(*                                                                         *)
(* A chest number is the event's abbreviation with a number; the number is *)
(* kept.  0 stands for a text without a number, which an admin may write.  *)
(***************************************************************************)
EXTENDS Integers, Sequences, FiniteSets, SequencesExt

CONSTANTS
  Members, Units, Districts,
  DistrictOf,     (* unit_name.clergy_district_id                          *)
  GroupEvents,
  DistrictTeams,  (* the fixed 2 per event                                 *)
  TeamSize,       (* max_allowed_limit of the events                       *)
  MaxNumber,      (* bounds the numbers given                              *)
  MaxBills,       (* bounds the payments                                   *)
  Requests,       (* the officials' requests served at the same time       *)
  Nil

ASSUME TeamsAssumption ==
  /\ DistrictOf \in [Units -> Districts]
  /\ {DistrictTeams, TeamSize, MaxNumber, MaxBills} \subseteq Nat \ {0}
  /\ IsFiniteSet(Members)
  /\ Nil \notin Units \union Nat

VARIABLES
  home,           (* the unit of each member; Nil when there is no row     *)
  rows,           (* group_event_participation, in the order of creation   *)
  barred,         (* kalamela_exclude_members                              *)
  bills,          (* kalamela_payments, in the order of creation           *)
  calls,          (* what each request has read, or Nil                    *)
  since           (* the district's payments that others have made or      *)
                  (* changed since a request asked for them: only looked at *)

tvars == <<home, rows, barred, bills, calls, since>>

Row  == [event : GroupEvents, member : Members, number : 0 .. MaxNumber]
Bill == [by : Districts, status : {"Pending", "Paid", "Declined"}]

(* The requests: members for a team, with the unit's numbers as they were  *)
(* found and the number that they are to have, once it is known; a         *)
(* district's payment, with what it has yet to ask; a declined payment.    *)
Entry  == [what : {"entry"}, event : GroupEvents, unit : Units, members : SUBSET Members,
           teams : SUBSET (0 .. MaxNumber), number : (0 .. MaxNumber) \union {Nil}]
Paying == [what : {"bill"}, by : Districts, asked : {"pending", "paid"}]
Return == [what : {"return"}, bill : 1 .. MaxBills]

ASSUME NoCall == Nil \notin Entry \union Paying \union Return

TeamsTypeOK ==
  /\ home \in [Members -> Units \union {Nil}]
  /\ rows \in Seq(Row)
  /\ barred \subseteq Members
  /\ bills \in Seq(Bill) /\ Len(bills) <= MaxBills
  /\ calls \in [Requests -> Entry \union Paying \union Return \union {Nil}]
  /\ since \in [Requests -> SUBSET (1 .. MaxBills)]
  /\ \A i \in DOMAIN rows : home[rows[i].member] # Nil
  /\ \A r \in Requests : calls[r] \in Return => calls[r].bill \in DOMAIN bills

TeamsInit ==
  /\ home \in [Members -> Units]
  /\ rows = << >>
  /\ barred = {}
  /\ bills = << >>
  /\ calls = [r \in Requests |-> Nil]
  /\ since = [r \in Requests |-> {}]

-----------------------------------------------------------------------------
(* What the numbers say about the teams of an event.                       *)

RowsOf(g)     == {i \in DOMAIN rows : rows[i].event = g}
Entered(g)    == {rows[i].member : i \in RowsOf(g)}
NumbersAmong(I)    == {rows[i].number : i \in I}
UnitNumbers(g, u)  == NumbersAmong({i \in RowsOf(g) : home[rows[i].member] = u})
InDistrict(m, d)   == home[m] # Nil /\ DistrictOf[home[m]] = d
DistrictNumbers(g, d) == NumbersAmong({i \in RowsOf(g) : InDistrict(rows[i].member, d)})
SizeOf(g, n)  == Cardinality({i \in RowsOf(g) : rows[i].number = n})

(* The number after that of the row created last: of a late member of an   *)
(* early team, if that was the last row (generate_group_chest_number).     *)
NextTeamNumber(g) ==
  IF RowsOf(g) = {} THEN 1
  ELSE rows[CHOOSE i \in RowsOf(g) : \A j \in RowsOf(g) : j <= i].number + 1

Added(g, M, n) ==
  rows' = rows \o SetToSeq({[event |-> g, member |-> m, number |-> n] : m \in M})

-----------------------------------------------------------------------------
(* Members are entered (add_group_participants).                           *)

(* The first questions: the members are of one unit and not barred; the    *)
(* numbers the unit's members have; and when there are none, the quota of  *)
(* the official's own district, whatever the unit's.  The unit's own quota *)
(* is then met.                                                            *)
LookForTeam(r, d, g, M, u) ==
  /\ calls[r] = Nil
  /\ M # {}
  /\ \A m \in M : home[m] = u
  /\ M \intersect barred = {}
  /\ UnitNumbers(g, u) = {} => Cardinality(DistrictNumbers(g, d)) < DistrictTeams
  /\ calls' = [calls EXCEPT ![r] =
       [what |-> "entry", event |-> g, unit |-> u, members |-> M,
        teams |-> UnitNumbers(g, u), number |-> Nil]]
  /\ UNCHANGED <<home, rows, barred, bills>>

Numbered(r, n) ==
  /\ calls' = [calls EXCEPT ![r].number = n]
  /\ UNCHANGED <<home, rows, barred, bills>>

(* What is asked next: none of the members is in the event.                *)
Unnumbered(r) ==
  /\ calls[r] \in Entry
  /\ calls[r].number = Nil
  /\ calls[r].members \intersect Entered(calls[r].event) = {}

(* The unit was found to have a team: its number, if there is room.  With  *)
(* several numbers of the unit the query leaves open which comes first.    *)
JoinTeam(r) ==
  /\ Unnumbered(r)
  /\ \E n \in calls[r].teams :
       /\ SizeOf(calls[r].event, n) + Cardinality(calls[r].members) <= TeamSize
       /\ Numbered(r, n)

(* Mutant: a new number whether or not the unit has a team.                *)
NewTeamAlways(r) ==
  /\ Unnumbered(r)
  /\ Cardinality(calls[r].members) <= TeamSize
  /\ NextTeamNumber(calls[r].event) <= MaxNumber
  /\ Numbered(r, NextTeamNumber(calls[r].event))

(* It was found to have none: a new number.                                *)
NewTeam(r) ==
  /\ Unnumbered(r)
  /\ calls[r].teams = {}
  /\ Cardinality(calls[r].members) <= TeamSize
  /\ NextTeamNumber(calls[r].event) <= MaxNumber
  /\ Numbered(r, NextTeamNumber(calls[r].event))

(* The rows are added; the members must still be there, and a constraint   *)
(* keeps each to one row of the event.                                     *)
AddParticipants(r) ==
  /\ calls[r] \in Entry
  /\ calls[r].number # Nil
  /\ \A m \in calls[r].members : home[m] # Nil
  /\ calls[r].members \intersect Entered(calls[r].event) = {}
  /\ Added(calls[r].event, calls[r].members, calls[r].number)
  /\ calls' = [calls EXCEPT ![r] = Nil]
  /\ UNCHANGED <<home, barred, bills>>

(* A check fails, or the client goes away.                                 *)
Abandon(r) ==
  /\ calls[r] # Nil
  /\ calls' = [calls EXCEPT ![r] = Nil]
  /\ UNCHANGED <<home, rows, barred, bills>>

-----------------------------------------------------------------------------
(* What the rows and the members go through besides.                       *)

(* The rows that are not in I, in the order they had.                      *)
WithoutRows(I) ==
  LET left == DOMAIN rows \ I IN
  \E kept \in [1 .. Cardinality(left) -> left] :
    /\ \A j, k \in DOMAIN kept : j < k => kept[j] < kept[k]
    /\ rows' = [k \in DOMAIN kept |-> rows[kept[k]]]

(* remove_group_participation: one row.                                    *)
LeaveTeam(i) ==
  /\ WithoutRows({i})
  /\ UNCHANGED <<home, barred, bills, calls>>

(* update_chest_number: the admin writes any number on one row.            *)
Renumber(i, n) ==
  /\ rows' = [rows EXCEPT ![i].number = n]
  /\ UNCHANGED <<home, barred, bills, calls>>

Bar(m) ==
  /\ home[m] # Nil /\ m \notin barred
  /\ barred' = barred \union {m}
  /\ UNCHANGED <<home, rows, bills, calls>>

Unbar(m) ==
  /\ m \in barred
  /\ barred' = barred \ {m}
  /\ UNCHANGED <<home, rows, bills, calls>>

(* The registration's steps: a transferred member keeps its rows, with the *)
(* number of the old unit's team; a deleted one loses them.                *)
Relocate(m, u) ==
  /\ home[m] # Nil /\ home[m] # u
  /\ home' = [home EXCEPT ![m] = u]
  /\ UNCHANGED <<rows, barred, bills, calls>>

(* Mutant: the rows of its teams stay.                                     *)
EraseOnly(m) ==
  /\ home[m] # Nil
  /\ home' = [home EXCEPT ![m] = Nil]
  /\ barred' = barred \ {m}
  /\ UNCHANGED <<rows, bills, calls>>

Erase(m) ==
  /\ home[m] # Nil
  /\ home' = [home EXCEPT ![m] = Nil]
  /\ WithoutRows({i \in DOMAIN rows : rows[i].member = m})
  /\ barred' = barred \ {m}
  /\ UNCHANGED <<bills, calls>>

-----------------------------------------------------------------------------
(* The payments of a district.  The amounts are left out.                  *)

BillsOf(d)  == {i \in DOMAIN bills : bills[i].by = d}
LiveOf(d)   == {i \in BillsOf(d) : bills[i].status \in {"Pending", "Paid"}}

(* create_kalamela_payment asks for payments under review ...              *)
AskPending(r, d) ==
  /\ calls[r] = Nil
  /\ \A i \in BillsOf(d) : bills[i].status # "Pending"
  /\ calls' = [calls EXCEPT ![r] = [what |-> "bill", by |-> d, asked |-> "pending"]]
  /\ UNCHANGED <<home, rows, barred, bills>>

(* Mutant: only a payment under review stands in the way of another.       *)
AskNoMore(r) ==
  /\ calls[r] \in Paying
  /\ calls[r].asked = "pending"
  /\ calls' = [calls EXCEPT ![r].asked = "paid"]
  /\ UNCHANGED <<home, rows, barred, bills>>

(* ... then for approved ones ...                                          *)
AskPaid(r) ==
  /\ calls[r] \in Paying
  /\ calls[r].asked = "pending"
  /\ \A i \in BillsOf(calls[r].by) : bills[i].status # "Paid"
  /\ calls' = [calls EXCEPT ![r].asked = "paid"]
  /\ UNCHANGED <<home, rows, barred, bills>>

(* ... and makes one.                                                      *)
CreateBill(r) ==
  /\ calls[r] \in Paying
  /\ calls[r].asked = "paid"
  /\ Len(bills) < MaxBills
  /\ bills' = Append(bills, [by |-> calls[r].by, status |-> "Pending"])
  /\ calls' = [calls EXCEPT ![r] = Nil]
  /\ UNCHANGED <<home, rows, barred>>

(* A declined payment is given a proof again; other payments of the        *)
(* district are not looked at, and neither is this one when it is written. *)
FindDeclined(r, i) ==
  /\ calls[r] = Nil
  /\ bills[i].status = "Declined"
  /\ calls' = [calls EXCEPT ![r] = [what |-> "return", bill |-> i]]
  /\ UNCHANGED <<home, rows, barred, bills>>

ReturnBill(r) ==
  /\ calls[r] \in Return
  /\ bills' = [bills EXCEPT ![calls[r].bill].status = "Pending"]
  /\ calls' = [calls EXCEPT ![r] = Nil]
  /\ UNCHANGED <<home, rows, barred>>

(* approve_payment and decline_payment look at no status.                  *)
ReviewBill(i, s) ==
  /\ bills' = [bills EXCEPT ![i].status = s]
  /\ UNCHANGED <<home, rows, barred, calls>>

-----------------------------------------------------------------------------

TeamEntry(r) ==
  \/ \E d \in Districts, g \in GroupEvents, u \in Units : \E M \in SUBSET Members :
       LookForTeam(r, d, g, M, u)
  \/ JoinTeam(r) \/ NewTeam(r)
  \/ AddParticipants(r)

AdminTeams ==
  \/ \E i \in DOMAIN rows : \E n \in 0 .. MaxNumber : Renumber(i, n)
  \/ \E m \in Members : Bar(m) \/ Unbar(m)

RosterMoves ==
  \/ \E m \in Members, u \in Units : Relocate(m, u)
  \/ \E m \in Members : Erase(m)

BillRequest(r) ==
  \/ \E d \in Districts : AskPending(r, d)
  \/ AskPaid(r)
  \/ CreateBill(r)
  \/ \E i \in DOMAIN bills : FindDeclined(r, i)
  \/ ReturnBill(r)

TeamsStep ==
  \/ \E r \in Requests : TeamEntry(r) \/ BillRequest(r) \/ Abandon(r)
  \/ \E i \in DOMAIN rows : LeaveTeam(i)
  \/ AdminTeams
  \/ RosterMoves
  \/ \E i \in DOMAIN bills, s \in {"Paid", "Declined"} : ReviewBill(i, s)

(* The payments of a district that a step makes or changes.                *)
Moved(d) == {i \in BillsOf(d)' : i \in DOMAIN bills => bills'[i] # bills[i]}

Noticing ==
  since' = [r \in Requests |->
    IF calls[r] \in Paying /\ calls'[r] \in Paying THEN since[r] \union Moved(calls[r].by)
    ELSE {}]

TeamsNext == TeamsStep /\ Noticing

TeamsSpec == TeamsInit /\ [][TeamsNext]_tvars

-----------------------------------------------------------------------------

(* Entering members splits a unit that plays in one team, or none, only    *)
(* when its teams are not those the request has found, or a member has     *)
(* left the unit since: whatever teams of other units, late members and    *)
(* renumbered rows did to the numbers before, and however long the others  *)
(* take (the search for an existing team in add_group_participants).       *)
EntriesKeepUnitsTogether ==
  [][\A g \in GroupEvents, u \in Units :
       /\ Len(rows') > Len(rows)
       /\ Cardinality(UnitNumbers(g, u)) <= 1
       /\ Cardinality(UnitNumbers(g, u)') > 1
       => \E r \in Requests :
            /\ AddParticipants(r)
            /\ \/ UnitNumbers(g, calls[r].unit) # calls[r].teams
               \/ \E m \in calls[r].members : home[m] # calls[r].unit]_tvars

(* A district that has a payment under review or approved gets another one *)
(* only by bringing back one that was declined, or from a request that     *)
(* asked before each of those it has was made or brought back: the two     *)
(* questions of create_kalamela_payment miss nothing else.                 *)
SecondPaymentOnlyByReturn ==
  [][\A d \in Districts :
       LiveOf(d) # {} /\ ~(LiveOf(d)' \subseteq LiveOf(d))
       => \/ \E i \in BillsOf(d) : bills[i].status = "Declined" /\ i \in LiveOf(d)'
          \/ \E r \in Requests :
               CreateBill(r) /\ calls[r].by = d /\ LiveOf(d) \subseteq since[r]]_tvars

=============================================================================
