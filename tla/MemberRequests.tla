--------------------------- MODULE MemberRequests ---------------------------
(***************************************************************************)
(* The requests a unit files and an admin approves, rejects or reverts     *)
(* (app/units/service.py): transfers, changes of a member's information,   *)
(* of the officials and of a councilor, and additions.  They change the    *)
(* roster, the councilors and the officials behind the wizard, so this     *)
(* module extends the registration with its payments.                      *)
(*                                                                         *)
(* A member's identity is the name together with the phone number, which   *)
(* unit_officials copies instead of referring to the member.  A request    *)
(* row is known by its id; a deleted row is Nil.                           *)
(***************************************************************************)
EXTENDS RegistrationPayments

CONSTANTS
  Identities,     (* names with phone numbers                              *)
  Offices,        (* the offices of unit_officials                         *)
  President,      (* the one office delete_member leaves alone             *)
  TransferIds, InfoIds, OfficialIds, SeatIds, AddIds  (* bound the requests *)

VARIABLES
  identity,       (* unit_members.name and number                          *)
  office,         (* unit_officials, by unit and office                    *)
  transfer,       (* unit_transfer_request                                 *)
  info,           (* unit_member_change_request                            *)
  official,       (* unit_officials_change_request                         *)
  seat,           (* unit_councilor_change_request                         *)
  addition        (* unit_member_add_request                               *)

requests == <<transfer, info, official, seat, addition>>
rvars    == <<pvars, identity, office, requests>>

(* RequestStatus: the three strings of Proof's status.                     *)
RequestStatus == {Pending, Approved, Rejected}

(* The original_ columns hold the values at the time of the request.       *)
Transfer == [member : Members, from : Units, to : Units, status : RequestStatus]

(* new is Nil when the request changes other fields than the identity.     *)
Info     == [member : Members, new : Identities \union {Nil}, original : Identities,
             status : RequestStatus]

Names    == [Offices -> Identities \union {Nil}]
Official == [unit : Units, new : Names, original : Names, status : RequestStatus]

(* slot is unit_councilor_id, Nil once that row is deleted: ids are never  *)
(* given again.  A request need not name the new member.                   *)
Seat     == [unit : Units, slot : Slots \union {Nil}, member : Members \union {Nil},
             original : Members, status : RequestStatus]

Addition == [unit : Units, identity : Identities, status : RequestStatus]

ASSUME RequestsAssumption ==
  /\ Nil \notin Identities \union Offices \union Slots
  /\ Nil \notin Transfer \union Info \union Official \union Seat \union Addition

(* Every row of the requests stays well formed and no review writes a      *)
(* column that must not be NULL with a value the request left out.         *)
RequestsTypeOK ==
  /\ PaymentsTypeOK
  /\ identity \in [Members -> Identities]
  /\ office   \in [Units -> Names]
  /\ transfer \in [TransferIds -> Transfer \union {Nil}]
  /\ info     \in [InfoIds -> Info \union {Nil}]
  /\ official \in [OfficialIds -> Official \union {Nil}]
  /\ seat     \in [SeatIds -> Seat \union {Nil}]
  /\ addition \in [AddIds -> Addition \union {Nil}]

(* The officials row is taken to exist; its offices may be empty.          *)
RequestsInit ==
  /\ PaymentsInit
  /\ identity \in [Members -> Identities]
  /\ office   \in [Units -> Names]
  /\ transfer = [i \in TransferIds |-> Nil]
  /\ info     = [i \in InfoIds |-> Nil]
  /\ official = [i \in OfficialIds |-> Nil]
  /\ seat     = [i \in SeatIds |-> Nil]
  /\ addition = [i \in AddIds |-> Nil]

-----------------------------------------------------------------------------
(* Deleting a member deletes the requests about it, and its councilor      *)
(* rows, to which other requests may refer (remove_member_dependencies).   *)

AboutTransfer(r, M) == r.member \in M
AboutSeat(r, M)     == r.member \in M \/ r.original \in M

(* Mutant: a transfer outlives the member it is about.                     *)
PurgedKeepingTransfers(M) ==
  /\ transfer' = transfer
  /\ info' = [i \in InfoIds |-> IF info[i] # Nil /\ info[i].member \in M THEN Nil ELSE info[i]]
  /\ seat' = [i \in SeatIds |->
       IF seat[i] = Nil \/ AboutSeat(seat[i], M) THEN Nil
       ELSE IF seat[i].slot # Nil /\ council[seat[i].unit][seat[i].slot] \in M
       THEN [seat[i] EXCEPT !.slot = Nil] ELSE seat[i]]

Purged(M) ==
  /\ transfer' = [i \in TransferIds |->
       IF transfer[i] # Nil /\ AboutTransfer(transfer[i], M) THEN Nil ELSE transfer[i]]
  /\ info' = [i \in InfoIds |-> IF info[i] # Nil /\ info[i].member \in M THEN Nil ELSE info[i]]
  /\ seat' = [i \in SeatIds |->
       IF seat[i] = Nil \/ AboutSeat(seat[i], M) THEN Nil
       ELSE IF seat[i].slot # Nil /\ council[seat[i].unit][seat[i].slot] \in M
       THEN [seat[i] EXCEPT !.slot = Nil] ELSE seat[i]]

-----------------------------------------------------------------------------
(* The steps of the registration, with what they do to the new state.      *)

AddMemberAs(u, m, n) ==
  /\ AddMember(u, m)
  /\ identity' = [identity EXCEPT ![m] = n]
  /\ UNCHANGED <<payments, office, requests>>

(* The wizard does not carry a new identity over to the officials.         *)
UpdateMemberAs(u, m, n) ==
  /\ UpdateMember(u, m)
  /\ identity' = [identity EXCEPT ![m] = n]
  /\ UNCHANGED <<payments, office, requests>>

DeleteMemberAndOffices(u, m) ==
  /\ DeleteMember(u, m)
  /\ office' = [office EXCEPT ![u] = [o \in Offices |->
       IF o # President /\ @[o] = identity[m] THEN Nil ELSE @[o]]]
  /\ Purged({m})
  /\ UNCHANGED <<payments, identity, official, addition>>

(* edit_member of the festival's admin: at any time, and not carried over. *)
EditMember(m, n) ==
  /\ owner[m] # Nil
  /\ identity' = [identity EXCEPT ![m] = n]
  /\ UNCHANGED <<pvars, office, requests>>

(* add_unit_official and update_officials: the name is not looked up.      *)
SetOfficial(u, o, n) ==
  /\ InProgress(u)
  /\ office' = [office EXCEPT ![u][o] = n]
  /\ UNCHANGED <<pvars, identity, requests>>

DeleteCouncilorRow(u, s) ==
  /\ DeleteCouncilor(u, s)
  /\ seat' = [i \in SeatIds |->
       IF seat[i] # Nil /\ seat[i].unit = u /\ seat[i].slot = s
       THEN [seat[i] EXCEPT !.slot = Nil] ELSE seat[i]]
  /\ UNCHANGED <<payments, identity, office, transfer, info, official, addition>>

ArchiveAndPurge(M) ==
  /\ ArchiveMembers(M)
  /\ Purged(M)
  /\ UNCHANGED <<payments, identity, office, official, addition>>

RemoveAndPurge(M) ==
  /\ RemoveMembers(M)
  /\ Purged(M)
  /\ UNCHANGED <<identity, office, official, addition>>

-----------------------------------------------------------------------------
(* Filing: every request is for a row of the unit's own.                   *)

FileTransfer(i, u, m, to) ==
  /\ transfer[i] = Nil
  /\ owner[m] = u
  /\ transfer' = [transfer EXCEPT ![i] =
       [member |-> m, from |-> u, to |-> to, status |-> Pending]]
  /\ UNCHANGED <<pvars, identity, office, info, official, seat, addition>>

FileInfo(i, u, m, n) ==
  /\ info[i] = Nil
  /\ owner[m] = u
  /\ n # identity[m]
  /\ info' = [info EXCEPT ![i] =
       [member |-> m, new |-> n, original |-> identity[m], status |-> Pending]]
  /\ UNCHANGED <<pvars, identity, office, transfer, official, seat, addition>>

FileOfficial(i, u, names) ==
  LET new == [o \in Offices |-> IF names[o] = office[u][o] THEN Nil ELSE names[o]] IN
  /\ official[i] = Nil
  /\ \E o \in Offices : new[o] # Nil
  /\ official' = [official EXCEPT ![i] =
       [unit |-> u, new |-> new, original |-> office[u], status |-> Pending]]
  /\ UNCHANGED <<pvars, identity, office, transfer, info, seat, addition>>

FileSeat(i, u, s, m) ==
  /\ seat[i] = Nil
  /\ council[u][s] \notin {Nil, m}
  /\ m # Nil => owner[m] = u
  /\ seat' = [seat EXCEPT ![i] =
       [unit |-> u, slot |-> s, member |-> m, original |-> council[u][s], status |-> Pending]]
  /\ UNCHANGED <<pvars, identity, office, transfer, info, official, addition>>

FileAddition(i, u, n) ==
  /\ addition[i] = Nil
  /\ addition' = [addition EXCEPT ![i] = [unit |-> u, identity |-> n, status |-> Pending]]
  /\ UNCHANGED <<pvars, identity, office, transfer, info, official, seat>>

-----------------------------------------------------------------------------
(* Reviews of transfers.  No fee is adjusted, no councilor row is touched, *)
(* and where the member is by now is not looked at.                        *)

MoveMember(i, u, st) ==
  /\ owner' = [owner EXCEPT ![transfer[i].member] = u]
  /\ transfer' = [transfer EXCEPT ![i].status = st]
  /\ UNCHANGED <<season, cycle, archived, incomplete, council, details, payments,
                 identity, office, info, official, seat, addition>>

ApproveTransfer(i) ==
  /\ transfer[i] # Nil
  /\ transfer[i].status = Pending
  /\ MoveMember(i, transfer[i].to, Approved)

RevertTransfer(i) ==
  /\ transfer[i] # Nil
  /\ transfer[i].status = Approved
  /\ MoveMember(i, transfer[i].from, Pending)

(* Mutant: the guard of reject_officials_change, which has none.           *)
RejectAnyTransfer(i) ==
  /\ transfer[i] # Nil
  /\ transfer' = [transfer EXCEPT ![i].status = Rejected]
  /\ UNCHANGED <<pvars, identity, office, info, official, seat, addition>>

RejectTransfer(i) ==
  /\ transfer[i] # Nil
  /\ transfer[i].status = Pending
  /\ transfer' = [transfer EXCEPT ![i].status = Rejected]
  /\ UNCHANGED <<pvars, identity, office, info, official, seat, addition>>

-----------------------------------------------------------------------------
(* Reviews of information.                                                 *)

(* Mutant: the officials of the unit are searched for the new identity.    *)
SyncedLate(u, old, new) ==
  [office EXCEPT ![u] = [o \in Offices |-> IF @[o] = new THEN new ELSE @[o]]]

(* _sync_member_identity_in_officials, for the unit the member is in now.  *)
Synced(u, old, new) ==
  [office EXCEPT ![u] = [o \in Offices |-> IF @[o] = old THEN new ELSE @[o]]]

(* The member takes identity n; the officials follow only when the request *)
(* itself is about the identity.                                           *)
Rename(i, n, st) ==
  LET m == info[i].member IN
  /\ identity' = [identity EXCEPT ![m] = n]
  /\ office' = IF info[i].new # Nil THEN Synced(owner[m], identity[m], n) ELSE office
  /\ info' = [info EXCEPT ![i].status = st]
  /\ UNCHANGED <<pvars, transfer, official, seat, addition>>

(* Mutant: a name is written even when the request has none.               *)
ApproveInfoUnnamed(i) ==
  /\ info[i] # Nil
  /\ info[i].status = Pending
  /\ Rename(i, info[i].new, Approved)

ApproveInfo(i) ==
  /\ info[i] # Nil
  /\ info[i].status = Pending
  /\ Rename(i, IF info[i].new # Nil THEN info[i].new ELSE identity[info[i].member], Approved)

(* The original name and number come back even when the request did not    *)
(* change them.                                                            *)
RevertInfo(i) ==
  /\ info[i] # Nil
  /\ info[i].status = Approved
  /\ Rename(i, info[i].original, Pending)

RejectInfo(i) ==
  /\ info[i] # Nil
  /\ info[i].status = Pending
  /\ info' = [info EXCEPT ![i].status = Rejected]
  /\ UNCHANGED <<pvars, identity, office, transfer, official, seat, addition>>

-----------------------------------------------------------------------------
(* Reviews of officials and councilors.  A rejection is accepted in every  *)
(* status and takes nothing back.                                          *)

Appoint(i, names, st) ==
  /\ office' = [office EXCEPT ![official[i].unit] =
       [o \in Offices |-> IF names[o] # Nil THEN names[o] ELSE @[o]]]
  /\ official' = [official EXCEPT ![i].status = st]
  /\ UNCHANGED <<pvars, identity, transfer, info, seat, addition>>

ApproveOfficial(i) ==
  /\ official[i] # Nil
  /\ official[i].status = Pending
  /\ Appoint(i, official[i].new, Approved)

RevertOfficial(i) ==
  /\ official[i] # Nil
  /\ official[i].status = Approved
  /\ Appoint(i, official[i].original, Pending)

RejectOfficial(i) ==
  /\ official[i] # Nil
  /\ official' = [official EXCEPT ![i].status = Rejected]
  /\ UNCHANGED <<pvars, identity, office, transfer, info, seat, addition>>

Seated(i, m, st) ==
  /\ seat[i].slot # Nil
  /\ council' = [council EXCEPT ![seat[i].unit][seat[i].slot] = m]
  /\ seat' = [seat EXCEPT ![i].status = st]
  /\ UNCHANGED <<season, cycle, owner, archived, incomplete, details, payments,
                 identity, office, transfer, info, official, addition>>

ApproveSeat(i) ==
  /\ seat[i] # Nil
  /\ seat[i].status = Pending
  /\ seat[i].member # Nil
  /\ Seated(i, seat[i].member, Approved)

RevertSeat(i) ==
  /\ seat[i] # Nil
  /\ seat[i].status = Approved
  /\ Seated(i, seat[i].original, Pending)

RejectSeat(i) ==
  /\ seat[i] # Nil
  /\ seat' = [seat EXCEPT ![i].status = Rejected]
  /\ UNCHANGED <<pvars, identity, office, transfer, info, official, addition>>

ApproveAddition(i, m) ==
  /\ addition[i] # Nil
  /\ addition[i].status = Pending
  /\ ApproveAddMember(addition[i].unit, m)
  /\ identity' = [identity EXCEPT ![m] = addition[i].identity]
  /\ addition' = [addition EXCEPT ![i].status = Approved]
  /\ UNCHANGED <<office, transfer, info, official, seat>>

RejectAddition(i) ==
  /\ addition[i] # Nil
  /\ addition' = [addition EXCEPT ![i].status = Rejected]
  /\ UNCHANGED <<pvars, identity, office, transfer, info, official, seat>>

-----------------------------------------------------------------------------
MemberEdit(u) ==
  \/ \E m \in Members, n \in Identities : AddMemberAs(u, m, n)
  \/ \E m \in Members, n \in Identities : UpdateMemberAs(u, m, n)
  \/ \E m \in Members : DeleteMemberAndOffices(u, m)

OfficialEdit(u) == \E o \in Offices, n \in Identities : SetOfficial(u, o, n)

RosterPurge ==
  \/ \E M \in SUBSET Members : ArchiveAndPurge(M)
  \/ \E M \in SUBSET Members : RemoveAndPurge(M)

TransferReview == \E i \in TransferIds : ApproveTransfer(i) \/ RevertTransfer(i)
SeatReview     == \E i \in SeatIds : ApproveSeat(i) \/ RevertSeat(i)
OfficialReview == \E i \in OfficialIds : ApproveOfficial(i) \/ RevertOfficial(i)
InfoReview(i)  == ApproveInfo(i) \/ RevertInfo(i)

File(u) ==
  \/ \E i \in TransferIds, m \in Members, to \in Units : FileTransfer(i, u, m, to)
  \/ \E i \in InfoIds, m \in Members, n \in Identities \union {Nil} : FileInfo(i, u, m, n)
  \/ \E i \in OfficialIds, names \in Names : FileOfficial(i, u, names)
  \/ \E i \in SeatIds, s \in Slots, m \in Members \union {Nil} : FileSeat(i, u, s, m)
  \/ \E i \in AddIds, n \in Identities : FileAddition(i, u, n)

Review ==
  \/ TransferReview
  \/ SeatReview
  \/ OfficialReview
  \/ \E i \in InfoIds : InfoReview(i)
  \/ \E i \in AddIds, m \in Members : ApproveAddition(i, m)

Reject ==
  \/ \E i \in TransferIds : RejectTransfer(i)
  \/ \E i \in InfoIds : RejectInfo(i)
  \/ \E i \in OfficialIds : RejectOfficial(i)
  \/ \E i \in SeatIds : RejectSeat(i)
  \/ \E i \in AddIds : RejectAddition(i)

(* The steps that change what a request is about.                          *)
RosterStep ==
  \/ \E u \in Units : MemberEdit(u)
  \/ \E m \in Members, n \in Identities : EditMember(m, n)
  \/ \E u \in Units : OfficialEdit(u)
  \/ \E u \in Units, s \in Slots : DeleteCouncilorRow(u, s)
  \/ RosterPurge

(* The steps that do not.                                                  *)
CouncilorStep ==
  \/ \E u \in Units, s \in Slots, m \in Members : AddCouncilor(u, s, m) \/ UpdateCouncilor(u, s, m)
  \/ \E m \in Members : RestoreMember(m)

SeasonStep ==
  \/ \E u \in Units : \/ OpenCycle(u) \/ SaveDetails(u) \/ ConfirmDetails(u) \/ SubmitMembers(u)
                       \/ ConfirmOfficials(u) \/ ConfirmCouncilors(u) \/ Declare(u)
  \/ \E y \in Years, open \in BOOLEAN : UpdateSeason(y, open)

MoneyStep ==
  \/ \E u \in Units, y \in Years : BulkCompletePaid(u, y) \/ UnitPays(u, y) \/ AdminReviews(u, y)
  \/ AdminLists
  \/ \E u \in Units : AdminComplete(u)
  \/ \E close, open \in Years : AdvanceSeason(close, open)

RequestsNext ==
  /\ \/ \E u \in Units : File(u)
     \/ Review
     \/ Reject
     \/ RosterStep
     \/ CouncilorStep /\ UNCHANGED <<payments, identity, office, requests>>
     \/ SeasonStep /\ UNCHANGED <<payments, identity, office, requests>>
     \/ MoneyStep /\ UNCHANGED <<identity, office, requests>>
  /\ Bounded'

RequestsSpec == RequestsInit /\ [][RequestsNext]_rvars
-----------------------------------------------------------------------------
(* Properties.                                                             *)

(* A review never finds the member of its request gone: however members    *)
(* are deleted, removed and archived, by unit or admin, the requests about *)
(* them go as well (remove_member_dependencies; the reviews use            *)
(* scalar_one).                                                            *)
RequestsNamePresentMembers ==
  /\ RequestsTypeOK
  /\ \A i \in TransferIds : transfer[i] # Nil => owner[transfer[i].member] # Nil
  /\ \A i \in InfoIds : info[i] # Nil => owner[info[i].member] # Nil
  /\ \A i \in SeatIds : seat[i] # Nil =>
       \A m \in {seat[i].member, seat[i].original} \ {Nil} : owner[m] # Nil

(* A member who was the subject of one transfer request only is where that *)
(* request says, however often it was approved, reverted and rejected: at  *)
(* the destination when it stands approved, else where it was filed.       *)
(* (With two requests a revert may undo the other one.)                    *)
SoleTransferDecides ==
  \A i \in TransferIds :
    (/\ transfer[i] # Nil
     /\ \A j \in TransferIds \ {i} :
          transfer[j] # Nil => transfer[j].member # transfer[i].member)
    => owner[transfer[i].member] =
         IF transfer[i].status = Approved THEN transfer[i].to ELSE transfer[i].from

(* A councilor comes to be no member of the unit only through a transfer   *)
(* or a councilor change, whose reviews do not look at the other: every    *)
(* other operation, the wizard's and the admin's removals included, clears *)
(* or checks the row.                                                      *)
Stray(u, s) == council[u][s] # Nil /\ owner[council[u][s]] # u

StrayOnlyByRequest ==
  [][\A u \in Units, s \in Slots :
       (~Stray(u, s) /\ Stray(u, s)') => TransferReview \/ SeatReview]_rvars

(* An official who is a member of the unit stays one, through every        *)
(* information request about the identity: the official's copy is renamed  *)
(* with the member.  It is lost only when the member leaves, when the      *)
(* wizard or an officials request writes either side, and when a request   *)
(* that was not about the identity is reverted.                            *)
Held(u, o) == \E m \in Members : owner[m] = u /\ identity[m] = office[u][o]

OfficialsFollowMembers ==
  [][\A u \in Units, o \in Offices :
       (Held(u, o) /\ ~Held(u, o)')
       => \/ RosterStep \/ TransferReview \/ OfficialReview
          \/ \E i \in InfoIds : RevertInfo(i) /\ info[i].new = Nil]_rvars
=============================================================================
