------------------------ MODULE ConferenceDelegates -------------------------
(***************************************************************************)
(* Delegates of the youth conference (app/conference/service.py,           *)
(* app/conference/routers/official.py, app/admin/routers/conference.py).   *)
(* The admin gives a district its official, with a quota; the official     *)
(* names members as delegates, pays, and states the food the district      *)
(* needs.  Every check is a read and every insert a later statement, with  *)
(* nothing locked in between: a call is two steps here.                    *)
(*                                                                         *)
(* The official's user name is the district's, so a district has one       *)
(* official, of one conference, whose rows keep it from being deleted.     *)
(***************************************************************************)
EXTENDS Integers, Sequences, FiniteSets

CONSTANTS
  Conferences,
  Officials,      (* the districts' officials                              *)
  People,         (* the members' ids                                      *)
  Calls,          (* the officials' requests served at the same time       *)
  StartQuotas,    (* conference_member_count of a new official: 20, 25     *)
  MaxQuota,       (* bounds the quotas the admin sets                      *)
  MaxBills,       (* bounds the payments of an official                    *)
  None

ASSUME DelegatesAssumption ==
  /\ IsFiniteSet(Calls) /\ Calls # {}
  /\ MaxQuota \in Nat \ {0}
  /\ StartQuotas \subseteq 1 .. MaxQuota
  /\ None \notin Officials \union (Conferences \X People)

VARIABLES
  desk,           (* the conference and quota of each official, or None    *)
  present,        (* the members' rows                                     *)
  delegates,      (* conference_delegate, less the officials' own rows     *)
  bills,          (* the statuses of the payments of each official         *)
  food,           (* how many food_preference rows each official has       *)
  calls           (* the row each call is about to insert                  *)

dvars == <<desk, present, delegates, bills, food, calls>>

(* OPEN stands for PENDING and PROOF_UPLOADED, which no step tells apart.  *)
BillStatuses == {"OPEN", "PAID"}

Desk == [conference : Conferences, quota : 0 .. MaxQuota]

ASSUME NoDesk == None \notin Desk

(* The call that inserted a row tells the rows of a race apart.            *)
Delegate == [by : Officials, person : People, call : Calls]

Waiting         == [kind |-> "waiting"]
Names(o, p, b)  == [kind |-> "names", by |-> o, person |-> p, reopens |-> b]
Feeds(o)        == [kind |-> "feeds", by |-> o]

CallStates ==
  {Waiting} \union {Names(o, p, b) : o \in Officials, p \in People, b \in BOOLEAN}
            \union {Feeds(o) : o \in Officials}

DelegatesTypeOK ==
  /\ desk \in [Officials -> Desk \union {None}]
  /\ present \subseteq People
  /\ delegates \subseteq Delegate
  /\ bills \in [Officials -> Seq(BillStatuses)]
  /\ food \in [Officials -> Nat]
  /\ calls \in [Calls -> CallStates]
  /\ \A e \in delegates : desk[e.by] # None
  /\ \A k \in Calls : calls[k] # Waiting => desk[calls[k].by] # None

DelegatesInit ==
  /\ desk = [o \in Officials |-> None]
  /\ present = People
  /\ delegates = {}
  /\ bills = [o \in Officials |-> <<>>]
  /\ food = [o \in Officials |-> 0]
  /\ calls = [k \in Calls |-> Waiting]

-----------------------------------------------------------------------------
(* The admin's side.                                                       *)

(* add_conference_delegate_official: the name must be free.                *)
AddOfficial(o, c, q) ==
  /\ desk[o] = None
  /\ desk' = [desk EXCEPT ![o] = [conference |-> c, quota |-> q]]
  /\ UNCHANGED <<present, delegates, bills, food, calls>>

(* update_district_official; a quota may fall below what is used.          *)
SetQuota(o, q) ==
  /\ desk[o] # None
  /\ desk' = [desk EXCEPT ![o].quota = q]
  /\ UNCHANGED <<present, delegates, bills, food, calls>>

(* Nothing in the program sets PAID; the treasurer does, in the database.  *)
MarkPaid(o) ==
  /\ bills[o] # <<>>
  /\ bills' = [bills EXCEPT ![o][Len(bills[o])] = "PAID"]
  /\ UNCHANGED <<desk, present, delegates, food, calls>>

(* A member's row goes with what names it (remove_member_dependencies).    *)
DeletePerson(p) ==
  /\ p \in present
  /\ present' = present \ {p}
  /\ delegates' = {e \in delegates : e.person # p}
  /\ UNCHANGED <<desk, bills, food, calls>>

-----------------------------------------------------------------------------
(* Delegates.                                                              *)

DelegatesBy(o)       == {e \in delegates : e.by = o}
Delegations(c, p)    == {e \in delegates : e.person = p /\ desk[e.by].conference = c}

(* Mutant: the delegates may reach the quota and one more.                 *)
MayNameLate(o, p) ==
  /\ Delegations(desk[o].conference, p) = {}
  /\ Cardinality(DelegatesBy(o)) <= desk[o].quota

(* Mutant: only the official's own delegates are looked through.           *)
MayNameAgain(o, p) ==
  /\ \A e \in DelegatesBy(o) : e.person # p
  /\ Cardinality(DelegatesBy(o)) < desk[o].quota

(* Not a delegate of the conference yet, whoever asks; and there is room.  *)
MayName(o, p) ==
  /\ Delegations(desk[o].conference, p) = {}
  /\ Cardinality(DelegatesBy(o)) < desk[o].quota

(* add_conference_delegate_member up to its commit.  The payment is read   *)
(* as the only one: with a second one the call fails.  The member's        *)
(* district, and the conference's status, are not looked at.               *)
CheckDelegate(k, o, p) ==
  /\ calls[k] = Waiting
  /\ desk[o] # None
  /\ MayName(o, p)
  /\ Len(bills[o]) <= 1
  /\ calls' = [calls EXCEPT ![k] = Names(o, p, bills[o] = <<"PAID">>)]
  /\ UNCHANGED <<desk, present, delegates, bills, food>>

(* The commit: the row, and a payment read as PAID is pending again.       *)
InsertDelegate(k) ==
  LET t == calls[k] IN
  /\ t.kind = "names"
  /\ t.person \in present
  /\ delegates' = delegates \union {[by |-> t.by, person |-> t.person, call |-> k]}
  /\ bills' = IF t.reopens THEN [bills EXCEPT ![t.by][1] = "OPEN"] ELSE bills
  /\ calls' = [calls EXCEPT ![k] = Waiting]
  /\ UNCHANGED <<desk, present, food>>

(* remove_conference_delegate_member, asked by any official of the         *)
(* conference; of two rows it removes none.                                *)
RemoveDelegate(c, p) ==
  /\ Cardinality(Delegations(c, p)) = 1
  /\ delegates' = delegates \ Delegations(c, p)
  /\ UNCHANGED <<desk, present, bills, food, calls>>

-----------------------------------------------------------------------------
(* Payment and food.                                                       *)

(* create_conference_payment: always one more row.                         *)
CreatePayment(o) ==
  /\ desk[o] # None
  /\ Len(bills[o]) < MaxBills
  /\ bills' = [bills EXCEPT ![o] = Append(@, "OPEN")]
  /\ UNCHANGED <<desk, present, delegates, food, calls>>

(* Mutant: the rows are not counted.                                       *)
MayFeedAgain(o) == desk[o] # None

(* Mutant: an official without a conference is not refused.                *)
MayFeedUnseated(o) == food[o] = 0

(* set_food_preference inserts only when there is no row; one row is       *)
(* updated, which changes nothing here, and of two it fails.               *)
MayFeed(o) == desk[o] # None /\ food[o] = 0

CheckFood(k, o) ==
  /\ calls[k] = Waiting
  /\ MayFeed(o)
  /\ calls' = [calls EXCEPT ![k] = Feeds(o)]
  /\ UNCHANGED <<desk, present, delegates, bills, food>>

InsertFood(k) ==
  /\ calls[k].kind = "feeds"
  /\ food' = [food EXCEPT ![calls[k].by] = @ + 1]
  /\ calls' = [calls EXCEPT ![k] = Waiting]
  /\ UNCHANGED <<desk, present, delegates, bills>>

(* The commit fails or the client has gone: no row.                        *)
FailCall(k) ==
  /\ calls[k] # Waiting
  /\ calls' = [calls EXCEPT ![k] = Waiting]
  /\ UNCHANGED <<desk, present, delegates, bills, food>>

-----------------------------------------------------------------------------

CallStep(k) ==
  \/ \E o \in Officials, p \in People : CheckDelegate(k, o, p)
  \/ \E o \in Officials : CheckFood(k, o)
  \/ InsertDelegate(k)
  \/ InsertFood(k)
  \/ FailCall(k)

OfficeStep ==
  \/ \E o \in Officials, c \in Conferences, q \in StartQuotas : AddOfficial(o, c, q)
  \/ \E o \in Officials, q \in 0 .. MaxQuota : SetQuota(o, q)
  \/ \E o \in Officials : CreatePayment(o) \/ MarkPaid(o)
  \/ \E p \in People : DeletePerson(p)
  \/ \E c \in Conferences, p \in People : RemoveDelegate(c, p)

DelegatesNext == (\E k \in Calls : CallStep(k)) \/ OfficeStep

DelegatesSpec == DelegatesInit /\ [][DelegatesNext]_dvars

-----------------------------------------------------------------------------
(* Each check with its later insert is an admission.                       *)

QuotaCount  == [o \in Officials |-> Cardinality(DelegatesBy(o))]
QuotaPassed ==
  [k \in Calls |-> IF calls[k].kind = "names" THEN calls[k].by ELSE None]

DelegateQuota == INSTANCE BoundedAdmission WITH
  Slots    <- Officials,
  Requests <- Calls,
  Limit    <- MaxQuota,
  NoSlot   <- None,
  count    <- QuotaCount,
  passed   <- QuotaPassed

SeatCount  == [s \in Conferences \X People |-> Cardinality(Delegations(s[1], s[2]))]
SeatPassed ==
  [k \in Calls |->
    IF calls[k].kind = "names"
    THEN <<desk[calls[k].by].conference, calls[k].person>> ELSE None]

DelegateOnce == INSTANCE BoundedAdmission WITH
  Slots    <- Conferences \X People,
  Requests <- Calls,
  Limit    <- 1,
  NoSlot   <- None,
  count    <- SeatCount,
  passed   <- SeatPassed

FoodPassed ==
  [k \in Calls |-> IF calls[k].kind = "feeds" THEN calls[k].by ELSE None]

FoodOnce == INSTANCE BoundedAdmission WITH
  Slots    <- Officials,
  Requests <- Calls,
  Limit    <- 1,
  NoSlot   <- None,
  count    <- food,
  passed   <- FoodPassed

(* An official's delegates exceed the largest quota only by calls served   *)
(* at the same time, whatever the admin changes, members leave or payments *)
(* reopen meanwhile (add_conference_delegate_member).                      *)
DelegateQuotaKept == DelegateQuota!AdmissionSpec

(* So do the rows that name one member in a conference, over all its       *)
(* officials.                                                              *)
DelegatedOnce == DelegateOnce!AdmissionSpec

(* And the food preferences of an official (set_food_preference).          *)
FoodStatedOnce == FoodOnce!AdmissionSpec

=============================================================================
