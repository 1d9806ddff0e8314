-------------------------- MODULE MCMemberRequests --------------------------
(* MemberRequests and MemberConcerns on small instances in one run, told   *)
(* apart by focus.                                                         *)
EXTENDS MemberConcerns, TLC

VARIABLE focus

CONSTANT MaxRequests   (* bounds the requests of all kinds filed together  *)

Symmetry == Permutations(Members) \union Permutations(Units) \union Permutations(Identities)
              \union Permutations(TransferIds) \union Permutations(InfoIds)

(* Every unit is in the wizard, where all edits are open, and stays there; *)
(* seasons and payments stand still.                                       *)
WizardInit ==
  /\ ConcernsInit
  /\ focus \in {"requests", "concerns"}
  /\ season.enabled
  /\ cycle = [u \in Units |-> [y \in Years |-> Backfilled(Started)]]
  /\ incomplete = {}
  /\ details = [u \in Units |-> Nil]
  /\ payments = [u \in Units |-> [y \in Years |-> <<>>]]
  /\ focus = "concerns" => \A m, n \in Members : owner[m] = owner[n] /\ identity[m] = identity[n]
  /\ focus = "concerns" => \A u \in Units, o \in Offices : office[u][o] = Nil

Filed(rows) == Cardinality({i \in DOMAIN rows : rows[i] # Nil})

RequestsFocus ==
  /\ focus = "requests"
  /\ \/ \E u \in Units : File(u)
     \/ Review
     \/ Reject
     \/ RosterStep
     \/ CouncilorStep /\ UNCHANGED <<payments, identity, office, requests>>
  /\ (Filed(transfer) + Filed(info) + Filed(official) + Filed(seat) + Filed(addition))'
       <= MaxRequests
  /\ UNCHANGED cvars

(* Members come and go, and no other request is filed.                     *)
ConcernsFocus ==
  /\ focus = "concerns"
  /\ \/ ConcernStep
     \/ ArchiveStep
     \/ \E M \in SUBSET Members : RemoveAndPurge(M) /\ UNCHANGED cvars
     \/ \E u \in Units, m \in Members :
          AddMemberAs(u, m, identity[m]) /\ UNCHANGED cvars

WizardNext == (RequestsFocus \/ ConcernsFocus) /\ UNCHANGED focus

(* Nothing here reads which members are incomplete.                        *)
RequestsView == <<owner, archived, council, identity, office, requests, cvars, focus>>

WizardSpec == WizardInit /\ [][WizardNext]_<<rvars, cvars, focus>>
=============================================================================
