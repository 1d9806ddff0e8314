--------------------------- MODULE MemberConcerns ---------------------------
(***************************************************************************)
(* The concerns a unit raises about its members in the archive, and the    *)
(* admin's answers (app/units/service.py, app/units/routers/user.py).      *)
(* Unlike the other requests a concern refers to the row in the archive by *)
(* a foreign key, with no cascade.  Whether one is pending is read before  *)
(* another is stored, so filing has two steps.                             *)
(***************************************************************************)
EXTENDS MemberRequests

CONSTANTS
  Batches,        (* archive_year, in the order the database sorts them    *)
  ConcernIds,     (* bound the concerns                                    *)
  Filings         (* the filings served at the same time                   *)

VARIABLES
  batch,          (* archived_unit_member.archive_year                     *)
  concern,        (* archived_member_concern_request                       *)
  filing          (* the member each filing has checked, and is to store   *)

cvars == <<batch, concern, filing>>

Concern == [member : Members, unit : Units, status : RequestStatus]

ASSUME ConcernsAssumption ==
  /\ Batches \subseteq Nat
  /\ IsFiniteSet(Filings)
  /\ Nil \notin Batches \union Concern

About(m)   == {i \in ConcernIds : concern[i] # Nil /\ concern[i].member = m}
PendingAbout(m) == {i \in About(m) : concern[i].status = Pending}

ConcernsInit ==
  /\ RequestsInit
  /\ batch   = [m \in Members |-> Nil]
  /\ concern = [i \in ConcernIds |-> Nil]
  /\ filing  = [f \in Filings |-> Nil]

-----------------------------------------------------------------------------

(* get_recent_archived_members_for_unit: the unit's rows of its latest     *)
(* batch.                                                                  *)
Recent(u) ==
  {m \in Members : archived[m] = u
     /\ \A n \in Members : archived[n] = u => batch[n] <= batch[m]}

(* bulk_archive_members, with any batch the admin names.                   *)
ArchiveInBatch(M, b) ==
  /\ ArchiveAndPurge(M)
  /\ batch' = [m \in Members |-> IF m \in M THEN b ELSE batch[m]]
  /\ UNCHANGED <<concern, filing>>

(* Mutant: that one is pending is not asked.                               *)
CheckConcernOnly(f, u, m) ==
  /\ filing[f] = Nil
  /\ m \in Recent(u)
  /\ filing' = [filing EXCEPT ![f] = m]
  /\ UNCHANGED <<rvars, batch, concern>>

(* create_archived_member_concern_request, up to the last read.  More than *)
(* one that is pending is an error, which refuses as well.                 *)
CheckConcern(f, u, m) ==
  /\ filing[f] = Nil
  /\ m \in Recent(u)
  /\ PendingAbout(m) = {}
  /\ filing' = [filing EXCEPT ![f] = m]
  /\ UNCHANGED <<rvars, batch, concern>>

StoreConcern(f, i) ==
  /\ filing[f] # Nil
  /\ concern[i] = Nil
  /\ concern' = [concern EXCEPT ![i] =
       [member |-> filing[f], unit |-> archived[filing[f]], status |-> Pending]]
  /\ filing' = [filing EXCEPT ![f] = Nil]
  /\ UNCHANGED <<rvars, batch>>

(* The request ends before its commit, which takes nothing with it.        *)
DropFiling(f) ==
  /\ filing[f] # Nil
  /\ filing' = [filing EXCEPT ![f] = Nil]
  /\ UNCHANGED <<rvars, batch, concern>>

Answer(i, st) ==
  /\ concern[i] # Nil
  /\ concern[i].status = Pending
  /\ concern' = [concern EXCEPT ![i].status = st]
  /\ UNCHANGED <<rvars, batch, filing>>

ApproveConcern(i) == Answer(i, Approved)
RejectConcern(i)  == Answer(i, Rejected)

(* restore_archived_member deletes the row, which no concern may refer to, *)
(* answered ones included; a filing about it then fails.                   *)
RestoreUnquestioned(m) ==
  /\ About(m) = {}
  /\ RestoreMember(m)
  /\ batch'  = [batch EXCEPT ![m] = Nil]
  /\ filing' = [f \in Filings |-> IF filing[f] = m THEN Nil ELSE filing[f]]
  /\ UNCHANGED <<payments, identity, office, requests, concern>>

ConcernStep ==
  \/ \E f \in Filings, u \in Units, m \in Members : CheckConcern(f, u, m)
  \/ \E f \in Filings, i \in ConcernIds : StoreConcern(f, i)
  \/ \E f \in Filings : DropFiling(f)
  \/ \E i \in ConcernIds : ApproveConcern(i) \/ RejectConcern(i)

ArchiveStep ==
  \/ \E M \in SUBSET Members, b \in Batches : ArchiveInBatch(M, b)
  \/ \E m \in Members : RestoreUnquestioned(m)

(* No other step touches the archive.                                      *)
ConcernsNext ==
  \/ ConcernStep
  \/ ArchiveStep
  \/ RequestsNext /\ archived' = archived /\ UNCHANGED cvars

ConcernsSpec == ConcernsInit /\ [][ConcernsNext]_<<rvars, cvars>>
-----------------------------------------------------------------------------

(* A concern is about a row that still is in the archive, of the unit that *)
(* raised it, however members are archived and restored; and no member has *)
(* more concerns pending than there are filings at the same time           *)
(* (create_archived_member_concern_request, restore_archived_member).      *)
ConcernsStand ==
  /\ \A i \in ConcernIds : concern[i] # Nil => archived[concern[i].member] = concern[i].unit
  /\ \A m \in Members : Cardinality(PendingAbout(m)) <= Cardinality(Filings)
=============================================================================
