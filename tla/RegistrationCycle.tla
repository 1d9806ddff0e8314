------------------------- MODULE RegistrationCycle --------------------------
(***************************************************************************)
(* The registration of units season by season: the wizard a unit walks     *)
(* through (app/units/routers/user.py), the cycle row it fills in          *)
(* (app/units/registration_cycle_service.py) and the admin operations that *)
(* change a roster or a season behind the unit's back                      *)
(* (app/admin/routers/units.py, app/admin/routers/site.py).                *)
(*                                                                         *)
(* One action is one handler, from its first query to its commit.  Names,  *)
(* phone numbers, office holders and other personal data are left out: no  *)
(* guard below reads them.  Payments, and the operations that touch them,  *)
(* are in RegistrationPayments, which extends this module.                 *)
(***************************************************************************)
EXTENDS RegistrationFees, FiniteSets

CONSTANTS
  Units,     (* registered unit users                                      *)
  Members,   (* rows a person may have in unit_members                     *)
  Slots,     (* row ids of unit_councilor, per unit: bounds the councilors *)
  Years      (* the registration years considered                          *)

VARIABLES
  season,      (* site_settings: current_registration_year and             *)
               (* registration_enabled                                     *)
  cycle,       (* unit_registration_cycle, one row per unit and year       *)
  owner,       (* unit_members.registered_user_id; Nil when no such row    *)
  archived,    (* archived_unit_member.registered_user_id                  *)
  incomplete,  (* members lacking a living location or a blood group       *)
  council,     (* unit_councilor.unit_member_id                            *)
  details      (* unit_details.registration_year; Nil when no such row     *)

vars == <<season, cycle, owner, archived, incomplete, council, details>>

Started             == "Registration Started"
UnitDetailsSaved    == "Unit Details"
MembersCompleted    == "Unit Members Completed"
OfficialsCompleted  == "Unit Officials Completed"
CouncilorsCompleted == "Unit Councilors Completed"
Declared            == "Declaration Submitted"
Completed           == "Registration Completed"

Status == {Started, UnitDetailsSaved, MembersCompleted, OfficialsCompleted,
           CouncilorsCompleted, Declared, Completed}

(* A cycle row; completed stands for "completed_at is set".                *)
Cycle == [status    : Status,
          path      : {"fresh", "renewal"},
          count     : Nat \union {Nil},
          fee       : Nat \union {Nil},
          completed : BOOLEAN]

ASSUME RegistryAssumption ==
  /\ IsFiniteSet(Members)
  /\ IsFiniteSet(Slots)
  /\ Years \subseteq Nat
  /\ Nil \notin Units
  /\ Nil \notin Members
  /\ Nil \notin Cycle

TypeOK ==
  /\ season     \in [year : Years, enabled : BOOLEAN]
  /\ cycle      \in [Units -> [Years -> Cycle \union {Nil}]]
  /\ owner      \in [Members -> Units \union {Nil}]
  /\ archived   \in [Members -> Units \union {Nil}]
  /\ incomplete \in SUBSET Members
  /\ council    \in [Units -> [Slots -> Members \union {Nil}]]
  /\ details    \in [Units -> Years \union {Nil}]

-----------------------------------------------------------------------------
(* Queries.                                                                *)

Roster(u)         == {m \in Members : owner[m] = u}
(* Mutant: the president is not charged for.                               *)
RosterSizeLessOne(u) == Cardinality(Roster(u)) - 1
RosterSize(u)     == Cardinality(Roster(u))
CouncilorCount(u) == Cardinality({s \in Slots : council[u][s] # Nil})
Current(u)        == cycle[u][season.year]

(* Mutants: only one of the two closed statuses closes the wizard.         *)
InProgressUntilCompleted(u) == Current(u) # Nil /\ Current(u).status # Completed
InProgressUnlessDeclared(u) == Current(u) # Nil /\ Current(u).status # Declared

(* require_cycle_in_progress, for a cycle that exists.                     *)
InProgress(u) == Current(u) # Nil /\ Current(u).status \notin {Declared, Completed}

(* require_cycle_open_for_councilor_edits.                                 *)
CouncilorsEditable(u) == Current(u) # Nil /\ Current(u).status # Completed

(* ensure_councilor_requirement_met.                                       *)
RequirementMet(u) == CouncilorCount(u) = RequiredCouncilors(RosterSize(u))

(* determine_path_type: a renewal follows a completed previous season.     *)
PathType(u, y) ==
  IF /\ y - 1 \in Years
     /\ cycle[u][y - 1] # Nil
     /\ cycle[u][y - 1].status = Completed
  THEN "renewal" ELSE "fresh"

(* resolve_cycle_submission_data: the snapshot, else the live roster.      *)
SubmittedCount(u, c) == IF c.count # Nil /\ c.fee # Nil THEN c.count ELSE RosterSize(u)
SubmittedFee(u, c)   == IF c.count # Nil /\ c.fee # Nil THEN c.fee
                                                        ELSE RegistrationFee(RosterSize(u))

NewCycle(u, y) == [status |-> Started, path |-> PathType(u, y),
                   count |-> Nil, fee |-> Nil, completed |-> FALSE]

(* complete_cycle and confirm_current_season_registration.                 *)
CompletedCycle(u, c) ==
  [c EXCEPT !.status    = Completed,
            !.count     = SubmittedCount(u, c),
            !.fee       = SubmittedFee(u, c),
            !.completed = TRUE]

(* _sync_unit_details_after_completion.                                    *)
SyncedDetails(u, y) == [details EXCEPT ![u] = IF @ = Nil THEN Nil ELSE y]

(* add/delete/update councilor call the coroutine function                 *)
(* reopen_councilors_after_roster_change without awaiting it: a coroutine  *)
(* object is built and none of the function's body runs, so the cycle is   *)
(* written back as it was.                                                 *)
ReopenCouncilors(c) == c

(* bulk_complete_legacy_registrations tests the coroutine object that      *)
(* cycle_needs_legacy_bulk_completion returns, which is always true.       *)
NeedsBulkCompletion(c, y) == TRUE

(* Mutant: councilor rows are left behind.                                 *)
CouncilUncleared(M) == council

(* remove_member_dependencies: every councilor row naming a member of M.   *)
CouncilWithout(M) ==
  [u \in Units |-> [s \in Slots |-> IF council[u][s] \in M THEN Nil ELSE council[u][s]]]

-----------------------------------------------------------------------------
(* Initial states: at most one cycle per unit, back-filled from the status *)
(* recorded before cycles existed (scripts/backfill_registration_cycles.py)*)
(* or created when the unit registered; a roster entered earlier, some of  *)
(* it before the living location was asked for.                            *)

Backfilled(st) == [status |-> st, path |-> "fresh", count |-> Nil, fee |-> Nil,
                   completed |-> (st = Completed)]

Init ==
  /\ season \in [year : Years, enabled : BOOLEAN]
  /\ cycle \in [Units -> [Years -> {Backfilled(st) : st \in Status} \union {Nil}]]
  /\ \A u \in Units : \A y, z \in Years : cycle[u][y] # Nil /\ cycle[u][z] # Nil => y = z
  /\ owner \in [Members -> Units \union {Nil}]
  /\ archived = [m \in Members |-> Nil]
  /\ incomplete \in SUBSET {m \in Members : owner[m] # Nil}
  /\ council = [u \in Units |-> [s \in Slots |-> Nil]]
  /\ details \in [Units -> Years \union {Nil}]
  /\ \A u \in Units : details[u] # Nil => cycle[u][details[u]] # Nil

-----------------------------------------------------------------------------
(* The unit's wizard.  Every handler first makes sure that the season's    *)
(* cycle exists; that creation commits on its own, hence OpenCycle.        *)

SetStatus(u, st) == cycle' = [cycle EXCEPT ![u][season.year].status = st]

OpenCycle(u) ==
  /\ season.enabled
  /\ Current(u) = Nil
  /\ cycle' = [cycle EXCEPT ![u][season.year] = NewCycle(u, season.year)]
  /\ UNCHANGED <<season, owner, archived, incomplete, council, details>>

SaveDetails(u) ==
  /\ InProgress(u)
  /\ SetStatus(u, UnitDetailsSaved)
  /\ details' = [details EXCEPT ![u] = season.year]
  /\ UNCHANGED <<season, owner, archived, incomplete, council>>

ConfirmDetails(u) ==
  /\ InProgress(u)
  /\ Current(u).path = "renewal"
  /\ SetStatus(u, UnitDetailsSaved)
  /\ details' = SyncedDetails(u, season.year)
  /\ UNCHANGED <<season, owner, archived, incomplete, council>>

(* A new row, complete: the request schema requires both fields.           *)
AddMember(u, m) ==
  /\ InProgress(u)
  /\ owner[m] = Nil
  /\ archived[m] = Nil
  /\ owner' = [owner EXCEPT ![m] = u]
  /\ UNCHANGED <<season, cycle, archived, incomplete, council, details>>

(* The wizard may fill in the missing fields of a member and cannot clear  *)
(* them, on a renewal as well.                                             *)
UpdateMember(u, m) ==
  /\ InProgress(u)
  /\ owner[m] = u
  /\ incomplete' = incomplete \ {m}
  /\ UNCHANGED <<season, cycle, owner, archived, council, details>>

DeleteMember(u, m) ==
  /\ InProgress(u)
  /\ owner[m] = u
  /\ owner' = [owner EXCEPT ![m] = Nil]
  /\ incomplete' = incomplete \ {m}
  /\ council' = CouncilWithout({m})
  /\ UNCHANGED <<season, cycle, archived, details>>

SubmitMembers(u) ==
  /\ InProgress(u)
  /\ Roster(u) # {}
  /\ Roster(u) \intersect incomplete = {}
  /\ SetStatus(u, MembersCompleted)
  /\ UNCHANGED <<season, owner, archived, incomplete, council, details>>

ConfirmOfficials(u) ==
  /\ InProgress(u)
  /\ SetStatus(u, OfficialsCompleted)
  /\ UNCHANGED <<season, owner, archived, incomplete, council, details>>

Reopened(u) == cycle' = [cycle EXCEPT ![u][season.year] = ReopenCouncilors(@)]

AddCouncilor(u, s, m) ==
  /\ CouncilorsEditable(u)
  /\ owner[m] = u
  /\ \A t \in Slots : council[u][t] # m
  /\ council[u][s] = Nil
  /\ council' = [council EXCEPT ![u][s] = m]
  /\ Reopened(u)
  /\ UNCHANGED <<season, owner, archived, incomplete, details>>

DeleteCouncilor(u, s) ==
  /\ CouncilorsEditable(u)
  /\ council[u][s] # Nil
  /\ council' = [council EXCEPT ![u][s] = Nil]
  /\ Reopened(u)
  /\ UNCHANGED <<season, owner, archived, incomplete, details>>

(* Unlike AddCouncilor, the new member may already be a councilor.         *)
UpdateCouncilor(u, s, m) ==
  /\ CouncilorsEditable(u)
  /\ council[u][s] # Nil
  /\ owner[m] = u
  /\ council' = [council EXCEPT ![u][s] = m]
  /\ Reopened(u)
  /\ UNCHANGED <<season, owner, archived, incomplete, details>>

ConfirmCouncilors(u) ==
  /\ InProgress(u)
  /\ RequirementMet(u)
  /\ SetStatus(u, CouncilorsCompleted)
  /\ UNCHANGED <<season, owner, archived, incomplete, council, details>>

(* complete_declaration: any wizard step may have been skipped.            *)
Declare(u) ==
  /\ InProgress(u)
  /\ RequirementMet(u)
  /\ cycle' = [cycle EXCEPT ![u][season.year] =
                 [@ EXCEPT !.status = Declared,
                           !.count  = RosterSize(u),
                           !.fee    = RegistrationFee(RosterSize(u))]]
  /\ UNCHANGED <<season, owner, archived, incomplete, council, details>>

-----------------------------------------------------------------------------
(* Admin operations.                                                       *)

(* PUT /site-settings: any year, registration open or closed.              *)
UpdateSeason(y, open) ==
  /\ season' = [year |-> y, enabled |-> open]
  /\ season' # season
  /\ UNCHANGED <<cycle, owner, archived, incomplete, council, details>>

(* One iteration of bulk_complete_legacy_registrations, which commits.     *)
BulkComplete(u, y) ==
  /\ cycle[u][y] # Nil
  /\ NeedsBulkCompletion(cycle[u][y], y)
  /\ cycle' = [cycle EXCEPT ![u][y] = CompletedCycle(u, @)]
  /\ details' = SyncedDetails(u, y)
  /\ UNCHANGED <<season, owner, archived, incomplete, council>>

(* bulk_archive_members: no fee is adjusted.                               *)
ArchiveMembers(M) ==
  /\ M # {}
  /\ \A m \in M : owner[m] # Nil
  /\ owner'    = [m \in Members |-> IF m \in M THEN Nil ELSE owner[m]]
  /\ archived' = [m \in Members |-> IF m \in M THEN owner[m] ELSE archived[m]]
  /\ incomplete' = incomplete \ M
  /\ council' = CouncilWithout(M)
  /\ UNCHANGED <<season, cycle, details>>

(* restore_archived_member: the archived row has no living location, and   *)
(* no fee is adjusted.                                                     *)
RestoreMember(m) ==
  /\ archived[m] # Nil
  /\ owner'    = [owner EXCEPT ![m] = archived[m]]
  /\ archived' = [archived EXCEPT ![m] = Nil]
  /\ incomplete' = incomplete \union {m}
  /\ UNCHANGED <<season, cycle, council, details>>

-----------------------------------------------------------------------------
WizardStep(u) ==
  \/ OpenCycle(u)
  \/ SaveDetails(u)
  \/ ConfirmDetails(u)
  \/ \E m \in Members : AddMember(u, m)
  \/ \E m \in Members : UpdateMember(u, m)
  \/ \E m \in Members : DeleteMember(u, m)
  \/ SubmitMembers(u)
  \/ ConfirmOfficials(u)
  \/ ConfirmCouncilors(u)
  \/ Declare(u)

CouncilorEdit(u) ==
  \/ \E s \in Slots, m \in Members : AddCouncilor(u, s, m)
  \/ \E s \in Slots : DeleteCouncilor(u, s)
  \/ \E s \in Slots, m \in Members : UpdateCouncilor(u, s, m)

AdminRosterChange ==
  \/ \E M \in SUBSET Members : ArchiveMembers(M)
  \/ \E m \in Members : RestoreMember(m)

Next ==
  \/ \E u \in Units : WizardStep(u)
  \/ \E u \in Units : CouncilorEdit(u)
  \/ AdminRosterChange
  \/ \E y \in Years, open \in BOOLEAN : UpdateSeason(y, open)
  \/ \E u \in Units, y \in Years : BulkComplete(u, y)

Spec == Init /\ [][Next]_vars
-----------------------------------------------------------------------------
(* Properties.                                                             *)

(* A stored snapshot is whole and priced: the member count and the fee of  *)
(* a cycle are set together, and the fee is what that count costs          *)
(* (submit_declaration, complete_cycle).                                   *)
SnapshotPriced ==
  \A u \in Units, y \in Years :
    LET c == cycle[u][y] IN
    c # Nil => \/ c.count = Nil /\ c.fee = Nil
               \/ c.count # Nil /\ c.fee = RegistrationFee(c.count)

(* The renewal path, on which members and officials change only through    *)
(* requests, is open only to a unit with an earlier completed season: a    *)
(* season once completed stays so for every later cycle that relied on it  *)
(* (determine_path_type).                                                  *)
RenewalFollowsCompletion ==
  \A u \in Units, y \in Years :
    (cycle[u][y] # Nil /\ cycle[u][y].path = "renewal") =>
      \E z \in Years : z < y /\ cycle[u][z] # Nil /\ cycle[u][z].status = Completed

(* A councilor is a present member of the same unit, whatever deletions,   *)
(* archivals, restorations and councilor edits came in between             *)
(* (remove_member_dependencies, the member checks of the councilor         *)
(* endpoints).                                                             *)
CouncilorsAreOwnMembers ==
  \A u \in Units, s \in Slots :
    council[u][s] # Nil => owner[council[u][s]] = u

(* A completed registration never returns to the wizard.                   *)
CompletedIsFinal ==
  [][\A u \in Units, y \in Years :
       (cycle[u][y] # Nil /\ cycle[u][y].status = Completed) =>
         (cycle'[u][y] # Nil /\ cycle'[u][y].status = Completed)]_vars

(* While a declaration stands, the number of councilors stops matching the *)
(* roster only through a councilor edit or an admin roster change: no      *)
(* wizard step of the unit and no season change can do it.                 *)
RequirementLostOnlyByEdits ==
  [][\A u \in Units :
       (/\ Current(u) # Nil
        /\ Current(u).status \in {Declared, Completed}
        /\ RequirementMet(u)
        /\ ~RequirementMet(u)')
       => CouncilorEdit(u) \/ AdminRosterChange]_vars
=============================================================================
