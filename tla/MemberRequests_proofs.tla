------------------------ MODULE MemberRequests_proofs ------------------------
(***************************************************************************)
(* The requests, for any number of units, members and requests of every    *)
(* kind, next to the wizard, the payments and the closing of seasons: one  *)
(* transfer request alone decides where its member is, no request is left  *)
(* without its member, councilors and officials stay members of the unit;  *)
(* and concerns about archived members stand, with any number of filings   *)
(* at the same time.                                                       *)
(***************************************************************************)
EXTENDS MemberConcerns, Registration_proofs

(* The inductive strengthening: the member of a request is present, and no *)
(* member who can be added or restored is, so no new row is named by an    *)
(* old request.                                                            *)
RosterTyped ==
  /\ owner    \in [Members -> Units \union {Nil}]
  /\ archived \in [Members -> Units \union {Nil}]
  /\ transfer \in [TransferIds -> Transfer \union {Nil}]
  /\ addition \in [AddIds -> Addition \union {Nil}]

TransferInv ==
  /\ RosterTyped
  /\ \A m \in Members : archived[m] # Nil => owner[m] = Nil
  /\ \A i \in TransferIds : transfer[i] # Nil => owner[transfer[i].member] # Nil
  /\ SoleTransferDecides

(* A step that touches no transfer and moves only members who are absent.   *)
StaysPut ==
  /\ owner' \in [Members -> Units \union {Nil}]
  /\ archived' \in [Members -> Units \union {Nil}]
  /\ addition' \in [AddIds -> Addition \union {Nil}]
  /\ transfer' = transfer
  /\ \A m \in Members : owner[m] # Nil => owner'[m] = owner[m]
  /\ \A m \in Members : archived'[m] # Nil => owner'[m] = Nil

(* A step by which the members M leave and take their requests with them.  *)
Leaves(M) ==
  /\ owner' \in [Members -> Units \union {Nil}]
  /\ archived' \in [Members -> Units \union {Nil}]
  /\ \A m \in Members \ M : owner'[m] = owner[m] /\ archived'[m] = archived[m]
  /\ \A m \in M : owner'[m] = Nil
  /\ transfer' = [i \in TransferIds |->
       IF transfer[i] # Nil /\ AboutTransfer(transfer[i], M) THEN Nil ELSE transfer[i]]
  /\ addition' = addition

LEMMA InitTransfers == RequestsInit => TransferInv
BY DEF RequestsInit, PaymentsInit, Init, TransferInv, RosterTyped, SoleTransferDecides

LEMMA StayingKeepsTransfers == TransferInv /\ StaysPut => TransferInv'
<1> SUFFICES ASSUME TransferInv, StaysPut PROVE TransferInv'
  OBVIOUS
<1>1. \A i \in TransferIds : transfer[i] # Nil => transfer[i].member \in Members
  BY DEF TransferInv, RosterTyped, Transfer
<1>2. \A i \in TransferIds : transfer[i] # Nil =>
        owner[transfer[i].member] # Nil /\ owner'[transfer[i].member] = owner[transfer[i].member]
  BY <1>1 DEF TransferInv, StaysPut
<1>3. SoleTransferDecides'
  BY <1>2 DEF TransferInv, SoleTransferDecides, StaysPut
<1>4. QED
  BY <1>2, <1>3 DEF TransferInv, RosterTyped, StaysPut

LEMMA LeavingKeepsTransfers ==
  ASSUME TransferInv, NEW M \in SUBSET Members, Leaves(M)
  PROVE  TransferInv'
<1>1. \A i \in TransferIds : transfer[i] # Nil => transfer[i].member \in Members
  BY DEF TransferInv, RosterTyped, Transfer
<1>2. ASSUME NEW i \in TransferIds, transfer'[i] # Nil
      PROVE  /\ transfer'[i] = transfer[i] /\ transfer[i].member \in Members \ M
             /\ owner'[transfer[i].member] = owner[transfer[i].member]
  BY <1>1, <1>2 DEF Leaves, AboutTransfer
<1>3. ASSUME NEW i \in TransferIds, NEW j \in TransferIds, transfer'[i] # Nil,
             transfer[j] # Nil, transfer[j].member = transfer[i].member
      PROVE  transfer'[j] = transfer[j]
  BY <1>2, <1>3 DEF Leaves, AboutTransfer
<1>4. SoleTransferDecides'
  BY <1>2, <1>3 DEF TransferInv, SoleTransferDecides
<1>5. \A i \in TransferIds : transfer'[i] # Nil => owner'[transfer'[i].member] # Nil
  BY <1>2 DEF TransferInv
<1>6. transfer' \in [TransferIds -> Transfer \union {Nil}]
  BY DEF Leaves, TransferInv, RosterTyped
<1>7. ASSUME NEW m \in Members, archived'[m] # Nil PROVE owner'[m] = Nil
  BY <1>7 DEF Leaves, TransferInv
<1>8. QED
  BY <1>4, <1>5, <1>6, <1>7 DEF Leaves, TransferInv, RosterTyped

-----------------------------------------------------------------------------
(* Reviews and filing.                                                     *)

(* A request whose status changes is still a request about its member.     *)
LEMMA TransferTurned ==
  ASSUME NEW r \in Transfer, NEW st \in RequestStatus
  PROVE  /\ [r EXCEPT !.status = st] \in Transfer
         /\ [r EXCEPT !.status = st].member = r.member
         /\ [r EXCEPT !.status = st].from = r.from
         /\ [r EXCEPT !.status = st].to = r.to
         /\ [r EXCEPT !.status = st].status = st
BY DEF Transfer

(* Approving and reverting: the member goes where the new status says, and *)
(* another request about the same member leaves neither request sole.      *)
LEMMA MovesKeepTransfers ==
  ASSUME TransferInv, NEW i \in TransferIds, transfer[i] # Nil,
         NEW u \in Units, NEW st \in RequestStatus,
         u = IF st = Approved THEN transfer[i].to ELSE transfer[i].from,
         MoveMember(i, u, st)
  PROVE  TransferInv'
<1> DEFINE r == transfer[i]
<1> DEFINE s == [r EXCEPT !.status = st]
<1>1. r \in Transfer /\ r.member \in Members
  BY DEF TransferInv, RosterTyped, Transfer
<1>2. s \in Transfer /\ s # Nil /\ s.member = r.member /\ s.from = r.from /\ s.to = r.to
        /\ s.status = st
  BY <1>1, TransferTurned, RequestsAssumption
<1>3. /\ transfer' = [transfer EXCEPT ![i] = s]
      /\ owner' = [owner EXCEPT ![r.member] = u]
      /\ archived' = archived /\ addition' = addition
  BY DEF MoveMember
<1> HIDE DEF s
<1>4. transfer'[i] = s /\ \A j \in TransferIds \ {i} : transfer'[j] = transfer[j]
  BY <1>3 DEF TransferInv, RosterTyped
<1>5. owner'[r.member] = u /\ \A m \in Members \ {r.member} : owner'[m] = owner[m]
  BY <1>1, <1>3 DEF TransferInv, RosterTyped
<1>6. RosterTyped'
  BY <1>1, <1>2, <1>3 DEF TransferInv, RosterTyped
<1>7. \A m \in Members : archived'[m] # Nil => owner'[m] = Nil
  <2>1. archived[r.member] = Nil
    BY <1>1 DEF TransferInv
  <2>2. QED
    BY <2>1, <1>3, <1>5 DEF TransferInv
<1>8. \A j \in TransferIds \ {i} : transfer[j] # Nil => transfer[j].member \in Members
  BY DEF TransferInv, RosterTyped, Transfer
<1>9. \A j \in TransferIds : transfer'[j] # Nil => owner'[transfer'[j].member] # Nil
  BY <1>2, <1>4, <1>5, <1>8, RegistryAssumption DEF TransferInv
<1>10. ASSUME NEW j \in TransferIds, transfer'[j] # Nil,
              \A k \in TransferIds \ {j} :
                transfer'[k] # Nil => transfer'[k].member # transfer'[j].member
       PROVE  owner'[transfer'[j].member] =
                IF transfer'[j].status = Approved THEN transfer'[j].to ELSE transfer'[j].from
  <2>1. CASE j = i
    BY <2>1, <1>2, <1>4, <1>5
  <2>2. CASE j # i
    <3>1. transfer[j] # Nil /\ transfer[j].member # r.member
      BY <1>2, <1>4, <1>10, <2>2
    <3>2. \A k \in TransferIds \ {j} :
            transfer[k] # Nil => transfer[k].member # transfer[j].member
      BY <1>4, <1>10, <2>2, <3>1
    <3>3. QED
      BY <1>4, <1>5, <1>8, <2>2, <3>1, <3>2 DEF TransferInv, SoleTransferDecides
  <2>3. QED
    BY <2>1, <2>2
<1>11. SoleTransferDecides'
  BY <1>10 DEF SoleTransferDecides
<1>12. QED
  BY <1>6, <1>7, <1>9, <1>11 DEF TransferInv

(* A rejected request was pending, so its member had not moved.            *)
LEMMA RejectionKeepsTransfers ==
  ASSUME TransferInv, NEW i \in TransferIds, RejectTransfer(i)
  PROVE  TransferInv'
<1> DEFINE r == transfer[i]
<1> DEFINE s == [r EXCEPT !.status = Rejected]
<1>1. r \in Transfer /\ r # Nil /\ r.status # Approved
  BY DEF RejectTransfer, TransferInv, RosterTyped, Pending, Approved
<1>2. s \in Transfer /\ s # Nil /\ s.member = r.member /\ s.from = r.from /\ s.to = r.to
        /\ s.status # Approved
  BY <1>1, TransferTurned, RequestsAssumption DEF RequestStatus, Rejected, Approved
<1>3. /\ transfer' = [transfer EXCEPT ![i] = s] /\ owner' = owner /\ archived' = archived
      /\ addition' = addition
  BY DEF RejectTransfer, pvars, vars
<1> HIDE DEF s
<1>4. transfer'[i] = s /\ \A j \in TransferIds \ {i} : transfer'[j] = transfer[j]
  BY <1>3 DEF TransferInv, RosterTyped
<1>5. RosterTyped'
  BY <1>2, <1>3 DEF TransferInv, RosterTyped
<1>6. \A j \in TransferIds : /\ transfer'[j] # Nil <=> transfer[j] # Nil
                             /\ transfer[j] # Nil => transfer'[j].member = transfer[j].member
  BY <1>1, <1>2, <1>4
<1>7. \A j \in TransferIds : transfer[j] # Nil =>
        (IF transfer'[j].status = Approved THEN transfer'[j].to ELSE transfer'[j].from)
          = (IF transfer[j].status = Approved THEN transfer[j].to ELSE transfer[j].from)
  BY <1>1, <1>2, <1>4
<1>8. SoleTransferDecides'
  BY <1>3, <1>6, <1>7 DEF TransferInv, SoleTransferDecides
<1>9. QED
  BY <1>3, <1>5, <1>6, <1>8 DEF TransferInv

LEMMA FilingKeepsTransfers ==
  ASSUME TransferInv, NEW i \in TransferIds, NEW u \in Units, NEW m \in Members,
         NEW to \in Units, FileTransfer(i, u, m, to)
  PROVE  TransferInv'
<1> DEFINE s == [member |-> m, from |-> u, to |-> to, status |-> Pending]
<1>1. s \in Transfer /\ s # Nil /\ s.member = m /\ s.from = u /\ s.status # Approved
  BY RequestsAssumption DEF Transfer, RequestStatus, Pending, Approved
<1>2. /\ transfer[i] = Nil /\ owner[m] = u
      /\ transfer' = [transfer EXCEPT ![i] = s] /\ owner' = owner /\ archived' = archived
      /\ addition' = addition
  BY DEF FileTransfer, pvars, vars
<1> HIDE DEF s
<1>3. transfer'[i] = s /\ \A j \in TransferIds \ {i} : transfer'[j] = transfer[j]
  BY <1>2 DEF TransferInv, RosterTyped
<1>4. RosterTyped'
  BY <1>1, <1>2 DEF TransferInv, RosterTyped
<1>5. \A j \in TransferIds : transfer'[j] # Nil => owner'[transfer'[j].member] # Nil
  BY <1>1, <1>2, <1>3, RegistryAssumption DEF TransferInv
<1>6. ASSUME NEW j \in TransferIds, transfer'[j] # Nil,
             \A k \in TransferIds \ {j} :
               transfer'[k] # Nil => transfer'[k].member # transfer'[j].member
      PROVE  owner'[transfer'[j].member] =
               IF transfer'[j].status = Approved THEN transfer'[j].to ELSE transfer'[j].from
  <2>1. CASE j = i
    BY <2>1, <1>1, <1>2, <1>3
  <2>2. CASE j # i
    BY <1>2, <1>3, <1>6, <2>2 DEF TransferInv, SoleTransferDecides
  <2>3. QED
    BY <2>1, <2>2
<1>7. QED
  BY <1>2, <1>4, <1>5, <1>6 DEF TransferInv, SoleTransferDecides

-----------------------------------------------------------------------------
(* The steps that stay put.                                                *)

(* Most steps leave owner, archived and the transfer requests alone.       *)
LEMMA QuietStaysPut ==
  ASSUME TransferInv, owner' = owner, archived' = archived, transfer' = transfer,
         addition' = addition
  PROVE  StaysPut
BY DEF TransferInv, RosterTyped, StaysPut

(* A member comes to a unit who was in none.                               *)
LEMMA JoinStaysPut ==
  ASSUME TransferInv, NEW u \in Units, NEW m \in Members,
         addition' \in [AddIds -> Addition \union {Nil}],
         owner[m] = Nil, archived'[m] = Nil,
         owner' = [owner EXCEPT ![m] = u],
         archived' = archived \/ archived' = [archived EXCEPT ![m] = Nil],
         transfer' = transfer
  PROVE  StaysPut
BY DEF TransferInv, RosterTyped, StaysPut

LEMMA AdditionStaysPut ==
  ASSUME TransferInv, NEW u \in Units, NEW m \in Members, transfer' = transfer,
         addition' \in [AddIds -> Addition \union {Nil}],
         AddMember(u, m) \/ ApproveAddMember(u, m)
  PROVE  StaysPut
BY JoinStaysPut DEF AddMember, ApproveAddMember

LEMMA RestorationStaysPut ==
  ASSUME TransferInv, NEW m \in Members, transfer' = transfer, addition' = addition,
         RestoreMember(m)
  PROVE  StaysPut
<1>1. archived[m] \in Units /\ owner[m] = Nil
  BY DEF RestoreMember, TransferInv, RosterTyped
<1>2. archived'[m] = Nil /\ addition' \in [AddIds -> Addition \union {Nil}]
  BY DEF RestoreMember, TransferInv, RosterTyped
<1>3. QED
  BY <1>1, <1>2, JoinStaysPut DEF RestoreMember

LEMMA SeasonsStayPut ==
  ASSUME TransferInv, transfer' = transfer, addition' = addition, SeasonStep
  PROVE  StaysPut
BY QuietStaysPut
DEF SeasonStep, OpenCycle, SaveDetails, ConfirmDetails, SubmitMembers, ConfirmOfficials,
    ConfirmCouncilors, Declare, UpdateSeason

LEMMA MoneyStaysPut ==
  ASSUME TransferInv, transfer' = transfer, addition' = addition, MoneyStep
  PROVE  StaysPut
<1>1. ASSUME NEW u \in Units, NEW y \in Years,
             BulkCompletePaid(u, y) \/ UnitPays(u, y)
      PROVE  owner' = owner /\ archived' = archived
  BY <1>1 DEF BulkCompletePaid, BulkComplete, UnitPays, GetPayment, SubmitProof
<1>2. ASSUME NEW u \in Units, NEW y \in Years, AdminReviews(u, y)
      PROVE  owner' = owner /\ archived' = archived
  BY <1>2 DEF AdminReviews, ApproveProof, RejectProof, vars
<1>3. ASSUME AdminLists \/ \E u \in Units : AdminComplete(u)
      PROVE  owner' = owner /\ archived' = archived
  BY <1>3 DEF AdminLists, ListPayments, AdminComplete, vars
<1>4. ASSUME NEW close \in Years, NEW open \in Years, AdvanceSeason(close, open)
      PROVE  owner' = owner /\ archived' = archived
  BY <1>4 DEF AdvanceSeason
<1>5. QED
  BY <1>1, <1>2, <1>3, <1>4, QuietStaysPut DEF MoneyStep

LEMMA CouncilorsStayPut ==
  ASSUME TransferInv, transfer' = transfer, addition' = addition, CouncilorStep
  PROVE  StaysPut
BY QuietStaysPut, RestorationStaysPut DEF CouncilorStep, AddCouncilor, UpdateCouncilor

LEMMA AdditionsFiled ==
  ASSUME TransferInv,
         \/ \E u \in Units, i \in AddIds, n \in Identities : FileAddition(i, u, n)
         \/ \E i \in AddIds : RejectAddition(i)
         \/ \E i \in AddIds, m \in Members : ApproveAddition(i, m)
  PROVE  addition' \in [AddIds -> Addition \union {Nil}]
<1>1. ASSUME NEW u \in Units, NEW i \in AddIds, NEW n \in Identities, FileAddition(i, u, n)
      PROVE  addition' \in [AddIds -> Addition \union {Nil}]
  BY <1>1 DEF FileAddition, Addition, RequestStatus, TransferInv, RosterTyped
<1>2. ASSUME NEW i \in AddIds, NEW st \in RequestStatus, addition[i] # Nil,
             addition' = [addition EXCEPT ![i].status = st]
      PROVE  addition' \in [AddIds -> Addition \union {Nil}]
  <2>1. [addition[i] EXCEPT !.status = st] \in Addition
    BY <1>2 DEF Addition, TransferInv, RosterTyped
  <2>2. QED
    BY <1>2, <2>1 DEF TransferInv, RosterTyped
<1>3. QED
  BY <1>1, <1>2 DEF RejectAddition, ApproveAddition, RequestStatus

LEMMA AdditionRequestsStayPut ==
  ASSUME TransferInv,
         \/ \E u \in Units, i \in AddIds, n \in Identities : FileAddition(i, u, n)
         \/ \E i \in AddIds : RejectAddition(i)
  PROVE  StaysPut
<1>1. owner' = owner /\ archived' = archived /\ transfer' = transfer
  BY DEF FileAddition, RejectAddition, pvars, vars
<1>2. QED
  BY <1>1, AdditionsFiled DEF TransferInv, RosterTyped, StaysPut

LEMMA OtherRequestsStayPut ==
  ASSUME TransferInv,
         \/ \E u \in Units, i \in InfoIds, m \in Members, n \in Identities \union {Nil} :
              FileInfo(i, u, m, n)
         \/ \E u \in Units, i \in OfficialIds, names \in Names : FileOfficial(i, u, names)
         \/ \E u \in Units, i \in SeatIds, s \in Slots, m \in Members \union {Nil} :
              FileSeat(i, u, s, m)
         \/ SeatReview
         \/ OfficialReview
         \/ \E i \in InfoIds : InfoReview(i)
         \/ \E i \in InfoIds : RejectInfo(i)
         \/ \E i \in OfficialIds : RejectOfficial(i)
         \/ \E i \in SeatIds : RejectSeat(i)
  PROVE  StaysPut
BY QuietStaysPut
DEF FileInfo, FileOfficial, FileSeat, SeatReview, ApproveSeat, RevertSeat, Seated,
    OfficialReview, ApproveOfficial, RevertOfficial, Appoint, InfoReview, ApproveInfo, RevertInfo,
    Rename, RejectInfo, RejectOfficial, RejectSeat, pvars, vars

-----------------------------------------------------------------------------
(* The steps by which members leave.                                       *)

LEMMA ArchivalLeaves ==
  ASSUME TransferInv, NEW M \in SUBSET Members, ArchiveAndPurge(M)
  PROVE  Leaves(M)
BY DEF ArchiveAndPurge, ArchiveMembers, Purged, Leaves, TransferInv, RosterTyped

LEMMA RemovalLeaves ==
  ASSUME TransferInv, NEW M \in SUBSET Members, RemoveAndPurge(M)
  PROVE  Leaves(M)
BY DEF RemoveAndPurge, RemoveMembers, Purged, Leaves, TransferInv, RosterTyped

LEMMA DeletionLeaves ==
  ASSUME TransferInv, NEW u \in Units, NEW m \in Members, DeleteMemberAndOffices(u, m)
  PROVE  Leaves({m})
BY DEF DeleteMemberAndOffices, DeleteMember, Purged, Leaves, TransferInv, RosterTyped

LEMMA RosterStepKeepsTransfers == TransferInv /\ RosterStep => TransferInv'
<1> SUFFICES ASSUME TransferInv, RosterStep PROVE TransferInv'
  OBVIOUS
<1>1. ASSUME NEW u \in Units, NEW m \in Members, NEW n \in Identities, AddMemberAs(u, m, n)
      PROVE  TransferInv'
  BY <1>1, AdditionStaysPut, StayingKeepsTransfers
  DEF AddMemberAs, requests, TransferInv, RosterTyped
<1>2. ASSUME NEW u \in Units, NEW m \in Members, NEW n \in Identities, UpdateMemberAs(u, m, n)
      PROVE  TransferInv'
  BY <1>2, QuietStaysPut, StayingKeepsTransfers DEF UpdateMemberAs, UpdateMember, requests
<1>3. ASSUME NEW u \in Units, NEW m \in Members, DeleteMemberAndOffices(u, m)
      PROVE  TransferInv'
  BY <1>3, DeletionLeaves, LeavingKeepsTransfers
<1>4. ASSUME NEW u \in Units, OfficialEdit(u)
      PROVE  TransferInv'
  BY <1>4, QuietStaysPut, StayingKeepsTransfers
  DEF OfficialEdit, SetOfficial, requests, pvars, vars
<1>5. ASSUME NEW u \in Units, NEW s \in Slots, DeleteCouncilorRow(u, s)
      PROVE  TransferInv'
  BY <1>5, QuietStaysPut, StayingKeepsTransfers DEF DeleteCouncilorRow, DeleteCouncilor
<1>6. ASSUME NEW M \in SUBSET Members, ArchiveAndPurge(M) \/ RemoveAndPurge(M)
      PROVE  TransferInv'
  BY <1>6, ArchivalLeaves, RemovalLeaves, LeavingKeepsTransfers
<1>7. ASSUME NEW m \in Members, NEW n \in Identities, EditMember(m, n)
      PROVE  TransferInv'
  BY <1>7, QuietStaysPut, StayingKeepsTransfers DEF EditMember, requests, pvars, vars
<1>8. QED
  BY <1>1, <1>2, <1>3, <1>4, <1>5, <1>6, <1>7 DEF RosterStep, MemberEdit, RosterPurge

LEMMA NextKeepsTransfers == TransferInv /\ [RequestsNext]_rvars => TransferInv'
<1> SUFFICES ASSUME TransferInv, [RequestsNext]_rvars PROVE TransferInv'
  OBVIOUS
<1>1. ASSUME NEW i \in TransferIds, ApproveTransfer(i) PROVE TransferInv'
  <2>1. transfer[i].to \in Units
    BY <1>1 DEF ApproveTransfer, TransferInv, RosterTyped, Transfer
  <2>2. QED
    BY <1>1, <2>1, MovesKeepTransfers DEF ApproveTransfer, RequestStatus
<1>2. ASSUME NEW i \in TransferIds, RevertTransfer(i) PROVE TransferInv'
  <2>1. transfer[i].from \in Units
    BY <1>2 DEF RevertTransfer, TransferInv, RosterTyped, Transfer
  <2>2. Pending \in RequestStatus /\ Pending # Approved
    BY DEF RequestStatus, Pending, Approved
  <2>3. QED
    BY <1>2, <2>1, <2>2, MovesKeepTransfers DEF RevertTransfer
<1>3. ASSUME NEW u \in Units, File(u) PROVE TransferInv'
  BY <1>3, FilingKeepsTransfers, OtherRequestsStayPut, AdditionRequestsStayPut,
     StayingKeepsTransfers DEF File
<1>4. ASSUME NEW i \in AddIds, NEW m \in Members, ApproveAddition(i, m) PROVE TransferInv'
  <2>1. addition[i].unit \in Units
    BY <1>4 DEF ApproveAddition, TransferInv, RosterTyped, Addition
  <2>2. QED
    BY <1>4, <2>1, AdditionsFiled, AdditionStaysPut, StayingKeepsTransfers DEF ApproveAddition
<1>5. CASE Review
  BY <1>1, <1>2, <1>4, <1>5, OtherRequestsStayPut, StayingKeepsTransfers
  DEF Review, TransferReview
<1>6. CASE Reject
  BY <1>6, RejectionKeepsTransfers, OtherRequestsStayPut, AdditionRequestsStayPut,
     StayingKeepsTransfers DEF Reject
<1>7. CASE RosterStep
  BY <1>7, RosterStepKeepsTransfers
<1>8. CASE (CouncilorStep \/ SeasonStep \/ MoneyStep) /\ UNCHANGED requests
  BY <1>8, CouncilorsStayPut, SeasonsStayPut, MoneyStaysPut, StayingKeepsTransfers DEF requests
<1>9. CASE UNCHANGED rvars
  BY <1>9, QuietStaysPut, StayingKeepsTransfers DEF rvars, pvars, vars, requests
<1>10. QED
  BY <1>3, <1>5, <1>6, <1>7, <1>8, <1>9 DEF RequestsNext

(* A member who is the subject of one transfer request is where it says,   *)
(* whatever else the units, the admins and the closing of seasons do.      *)
THEOREM SoleTransferAlwaysDecides == RequestsSpec => []SoleTransferDecides
<1>1. RequestsSpec => []TransferInv
  BY InitTransfers, NextKeepsTransfers, PTL DEF RequestsSpec
<1>2. TransferInv => SoleTransferDecides
  BY DEF TransferInv
<1>3. QED
  BY <1>1, <1>2, PTL

-----------------------------------------------------------------------------
(* The other requests.                                                     *)

NamesTyped ==
  /\ identity \in [Members -> Identities]
  /\ office   \in [Units -> Names]
  /\ official \in [OfficialIds -> Official \union {Nil}]

(* The information and councilor requests, with their members present.     *)
Present ==
  /\ info \in [InfoIds -> Info \union {Nil}]
  /\ seat \in [SeatIds -> Seat \union {Nil}]
  /\ \A i \in InfoIds : info[i] # Nil => owner[info[i].member] # Nil
  /\ \A i \in SeatIds : seat[i] # Nil =>
       \A m \in {seat[i].member, seat[i].original} \ {Nil} : owner[m] # Nil

(* A councilor may come to be another unit's member, but not to be gone.   *)
CouncilPresent == \A u \in Units, s \in Slots : CouncilorFrom(u, s, Units)

RequestsInv ==
  BooksInv /\ LedgerInv /\ TransferInv /\ NamesTyped /\ Present /\ CouncilPresent

LEMMA InitRequests == RequestsInit => RequestsInv
<1> SUFFICES ASSUME RequestsInit PROVE RequestsInv
  OBVIOUS
<1>1. BooksInv /\ LedgerInv
  BY OpensBooks, LegacyLedgers DEF RequestsInit
<1>2. NamesTyped /\ Present
  BY DEF RequestsInit, NamesTyped, Present
<1>3. CouncilPresent
  BY DEF RequestsInit, PaymentsInit, Init, CouncilPresent, CouncilorFrom
<1>4. QED
  BY <1>1, <1>2, <1>3, InitTransfers DEF RequestsInv

(* Apart from the reviews of transfers and councilors, what the requests   *)
(* do to the registration and the payments are steps of those.             *)
LEMMA RosterCases ==
  ASSUME RosterStep
  PROVE  PaymentsStep \/ UNCHANGED pvars
<1>1. ASSUME NEW u \in Units, MemberEdit(u) PROVE WizardStep(u) /\ UNCHANGED payments
  BY <1>1 DEF MemberEdit, AddMemberAs, UpdateMemberAs, DeleteMemberAndOffices, WizardStep
<1>2. ASSUME NEW u \in Units, NEW s \in Slots, DeleteCouncilorRow(u, s)
      PROVE  CouncilorEdit(u) /\ UNCHANGED payments
  BY <1>2 DEF DeleteCouncilorRow, CouncilorEdit
<1>3. ASSUME NEW M \in SUBSET Members, ArchiveAndPurge(M)
      PROVE  AdminRosterChange /\ UNCHANGED payments
  BY <1>3 DEF ArchiveAndPurge, AdminRosterChange
<1>4. ASSUME NEW M \in SUBSET Members, RemoveAndPurge(M)
      PROVE  RosterChangeWithFee
  BY <1>4 DEF RemoveAndPurge, RosterChangeWithFee
<1>5. CASE \/ \E m \in Members, n \in Identities : EditMember(m, n)
           \/ \E u \in Units : OfficialEdit(u)
  BY <1>5 DEF EditMember, OfficialEdit, SetOfficial
<1>6. QED
  BY <1>1, <1>2, <1>3, <1>4, <1>5 DEF RosterStep, RosterPurge, PaymentsStep

LEMMA OtherCases ==
  ASSUME \/ CouncilorStep /\ UNCHANGED <<payments, identity, office, requests>>
         \/ SeasonStep /\ UNCHANGED <<payments, identity, office, requests>>
         \/ MoneyStep
  PROVE  PaymentsStep
<1>1. CASE CouncilorStep /\ UNCHANGED payments
  <2>1. (\E u \in Units : CouncilorEdit(u)) \/ AdminRosterChange
    BY <1>1 DEF CouncilorStep, CouncilorEdit, AdminRosterChange
  <2>2. QED
    BY <1>1, <2>1 DEF PaymentsStep
<1>2. CASE SeasonStep /\ UNCHANGED payments
  <2>1. \/ \E u \in Units : WizardStep(u)
        \/ \E y \in Years, open \in BOOLEAN : UpdateSeason(y, open)
    BY <1>2 DEF SeasonStep, WizardStep
  <2>2. QED
    BY <1>2, <2>1 DEF PaymentsStep
<1>3. CASE MoneyStep
  BY <1>3 DEF MoneyStep, PaymentsStep
<1>4. QED
  BY <1>1, <1>2, <1>3

LEMMA RequestsCases ==
  ASSUME TransferInv, [RequestsNext]_rvars, ~TransferReview, ~SeatReview
  PROVE  [PaymentsNext]_pvars
<1> SUFFICES ASSUME RequestsNext PROVE PaymentsStep \/ UNCHANGED pvars
  BY DEF rvars, RequestsNext, PaymentsNext
<1>1. CASE (\E u \in Units : File(u)) \/ Reject
  BY <1>1 DEF File, FileTransfer, FileInfo, FileOfficial, FileSeat, FileAddition, Reject,
              RejectTransfer, RejectInfo, RejectOfficial, RejectSeat, RejectAddition
<1>2. CASE Review
  <2>1. ASSUME NEW i \in AddIds, NEW m \in Members, ApproveAddition(i, m) PROVE PaymentsStep
    <3>1. addition[i].unit \in Units
      BY <2>1 DEF ApproveAddition, TransferInv, RosterTyped, Addition
    <3>2. RosterChangeWithFee
      BY <2>1, <3>1 DEF ApproveAddition, RosterChangeWithFee
    <3>3. QED
      BY <3>2 DEF PaymentsStep
  <2>2. CASE OfficialReview \/ \E i \in InfoIds : InfoReview(i)
    BY <2>2 DEF OfficialReview, ApproveOfficial, RevertOfficial, Appoint, InfoReview,
                ApproveInfo, RevertInfo, Rename
  <2>3. QED
    BY <1>2, <2>1, <2>2 DEF Review
<1>3. QED
  BY <1>1, <1>2, RosterCases, OtherCases DEF RequestsNext

LEMMA NextKeepsBooks ==
  ASSUME RequestsInv, [RequestsNext]_rvars
  PROVE  (BooksInv /\ LedgerInv)'
<1>1. TypeOK
  BY DEF RequestsInv, BooksInv, PaymentsTypeOK
<1>2. CASE [PaymentsNext]_pvars
  BY <1>1, <1>2, BooksKept, PaymentsNextLedgers DEF RequestsInv
<1>3. CASE TransferReview
  <2>1. /\ UNCHANGED <<season, cycle, archived, incomplete, council, details, payments>>
        /\ owner' \in [Members -> Units \union {Nil}]
    <3>1. TransferInv'
      BY NextKeepsTransfers DEF RequestsInv
    <3>2. QED
      BY <1>3, <3>1
      DEF TransferReview, ApproveTransfer, RevertTransfer, MoveMember, TransferInv, RosterTyped
  <2>2. QED
    BY <2>1 DEF RequestsInv, BooksInv, PaymentsTypeOK, TypeOK, LedgerInv
<1>4. CASE SeatReview
  <2>1. PICK i \in SeatIds : ApproveSeat(i) \/ RevertSeat(i)
    BY <1>4 DEF SeatReview
  <2>2. /\ seat[i] \in Seat
        /\ \E m \in Members : Seated(i, m, Approved) \/ Seated(i, m, Pending)
    BY <2>1 DEF ApproveSeat, RevertSeat, RequestsInv, Present, Seat
  <2>3. /\ UNCHANGED <<season, cycle, owner, archived, incomplete, details, payments>>
        /\ \E m \in Members : council' = [council EXCEPT ![seat[i].unit][seat[i].slot] = m]
    BY <2>2 DEF Seated
  <2>4. council' \in [Units -> [Slots -> Members \union {Nil}]]
    <3>1. PICK m \in Members : council' = [council EXCEPT ![seat[i].unit][seat[i].slot] = m]
      BY <2>3
    <3>2. seat[i].unit \in Units /\ seat[i].slot \in Slots
      BY <2>2 DEF Seated, Seat
    <3>3. QED
      BY <1>1, <3>1, <3>2 DEF TypeOK
  <2>5. QED
    BY <2>3, <2>4 DEF RequestsInv, BooksInv, PaymentsTypeOK, TypeOK, LedgerInv
<1>5. QED
  BY <1>2, <1>3, <1>4, RequestsCases DEF RequestsInv

-----------------------------------------------------------------------------
(* The names.                                                              *)

OfficialsRow(i, st) == [official[i] EXCEPT !.status = st]

LEMMA NewOffice ==
  ASSUME NamesTyped, NEW u \in Units, NEW row \in Names, office' = [office EXCEPT ![u] = row]
  PROVE  office' \in [Units -> Names]
BY DEF NamesTyped

LEMMA OfficialTurned ==
  ASSUME NamesTyped, NEW i \in OfficialIds, official[i] # Nil, NEW st \in RequestStatus,
         official' = [official EXCEPT ![i].status = st]
  PROVE  official' \in [OfficialIds -> Official \union {Nil}]
<1>1. [official[i] EXCEPT !.status = st] \in Official
  BY DEF NamesTyped, Official
<1>2. QED
  BY <1>1 DEF NamesTyped

LEMMA RenamingTyped ==
  ASSUME RequestsInv, NEW i \in InfoIds, info[i] # Nil, NEW n \in Identities, NEW st,
         Rename(i, n, st)
  PROVE  NamesTyped'
<1>1. info[i].member \in Members /\ owner[info[i].member] \in Units
  BY DEF RequestsInv, Present, Info, TransferInv, RosterTyped
<1>2. identity' \in [Members -> Identities] /\ official' = official
  BY <1>1 DEF Rename, RequestsInv, NamesTyped
<1>3. office' \in [Units -> Names]
  <2> DEFINE u == owner[info[i].member]
  <2> DEFINE row == [o \in Offices |->
                       IF office[u][o] = identity[info[i].member] THEN n ELSE office[u][o]]
  <2>1. row \in Names
    BY <1>1 DEF RequestsInv, NamesTyped, Names
  <2>2. office' = office \/ office' = [office EXCEPT ![u] = row]
    BY <1>1 DEF Rename, Synced, RequestsInv, NamesTyped
  <2> HIDE DEF row
  <2>3. QED
    BY <1>1, <2>1, <2>2, NewOffice DEF RequestsInv, NamesTyped
<1>4. QED
  BY <1>2, <1>3 DEF RequestsInv, NamesTyped

LEMMA AppointingTyped ==
  ASSUME NamesTyped, NEW i \in OfficialIds, official[i] # Nil, NEW names \in Names,
         NEW st \in RequestStatus, Appoint(i, names, st)
  PROVE  NamesTyped'
<1>1. official[i].unit \in Units
  BY DEF NamesTyped, Official
<1> DEFINE u == official[i].unit
<1> DEFINE row == [o \in Offices |-> IF names[o] # Nil THEN names[o] ELSE office[u][o]]
<1>2. row \in Names
  BY <1>1 DEF NamesTyped, Names
<1>3. office' = [office EXCEPT ![u] = row] /\ identity' = identity
  BY <1>1 DEF Appoint, NamesTyped
<1> HIDE DEF row
<1>4. official' \in [OfficialIds -> Official \union {Nil}]
  BY OfficialTurned DEF Appoint
<1>5. QED
  BY <1>1, <1>2, <1>3, <1>4, NewOffice DEF NamesTyped

LEMMA FilingOfficials ==
  ASSUME NamesTyped, NEW i \in OfficialIds, NEW u \in Units, NEW names \in Names,
         FileOfficial(i, u, names)
  PROVE  NamesTyped'
<1> DEFINE new == [o \in Offices |-> IF names[o] = office[u][o] THEN Nil ELSE names[o]]
<1> DEFINE r == [unit |-> u, new |-> new, original |-> office[u], status |-> Pending]
<1>1. new \in Names /\ office[u] \in Names
  BY DEF NamesTyped, Names
<1>2. official' = [official EXCEPT ![i] = r] /\ office' = office /\ identity' = identity
  BY DEF FileOfficial
<1> HIDE DEF new
<1>3. r \in Official
  BY <1>1 DEF Official, RequestStatus
<1> HIDE DEF r
<1>4. QED
  BY <1>2, <1>3 DEF NamesTyped

LEMMA DeletionTyped ==
  ASSUME NamesTyped, NEW u \in Units, NEW m \in Members, DeleteMemberAndOffices(u, m)
  PROVE  NamesTyped'
<1> DEFINE row == [o \in Offices |->
                     IF o # President /\ office[u][o] = identity[m] THEN Nil ELSE office[u][o]]
<1>1. row \in Names
  BY DEF NamesTyped, Names
<1>2. office' = [office EXCEPT ![u] = row] /\ official' = official /\ identity' = identity
  BY DEF DeleteMemberAndOffices, NamesTyped
<1> HIDE DEF row
<1>3. QED
  BY <1>1, <1>2, NewOffice DEF NamesTyped

LEMMA SettingTyped ==
  ASSUME NamesTyped, NEW u \in Units, NEW o \in Offices, NEW n \in Identities, SetOfficial(u, o, n)
  PROVE  NamesTyped'
<1> DEFINE row == [office[u] EXCEPT ![o] = n]
<1>1. row \in Names
  BY DEF NamesTyped, Names
<1>2. office' = [office EXCEPT ![u] = row] /\ official' = official /\ identity' = identity
  BY DEF SetOfficial, NamesTyped, requests
<1> HIDE DEF row
<1>3. QED
  BY <1>1, <1>2, NewOffice DEF NamesTyped

LEMMA NextKeepsNames ==
  ASSUME RequestsInv, [RequestsNext]_rvars
  PROVE  NamesTyped'
<1> USE DEF RequestsInv
<1>1. ASSUME identity' = identity, office' = office, official' = official PROVE NamesTyped'
  BY <1>1 DEF NamesTyped
<1>2. ASSUME NEW m \in Members, NEW n \in Identities, identity' = [identity EXCEPT ![m] = n],
             office' = office, official' = official
      PROVE  NamesTyped'
  BY <1>2 DEF NamesTyped
<1>3. ASSUME NEW u \in Units, File(u) PROVE NamesTyped'
  BY <1>1, <1>3, FilingOfficials
  DEF File, FileTransfer, FileInfo, FileSeat, FileAddition
<1>4. CASE Review
  <2>1. ASSUME NEW i \in AddIds, NEW m \in Members, ApproveAddition(i, m) PROVE NamesTyped'
    <3>1. addition[i].identity \in Identities
      BY <2>1 DEF ApproveAddition, TransferInv, RosterTyped, Addition
    <3>2. QED
      BY <1>2, <2>1, <3>1 DEF ApproveAddition
  <2>2. ASSUME NEW i \in InfoIds, InfoReview(i) PROVE NamesTyped'
    <3>1. /\ info[i] \in Info /\ info[i] # Nil
          /\ identity[info[i].member] \in Identities
      BY <2>2 DEF InfoReview, ApproveInfo, RevertInfo, Present, NamesTyped, Info
    <3>2. PICK n \in Identities, st \in RequestStatus : Rename(i, n, st)
      BY <2>2, <3>1 DEF InfoReview, ApproveInfo, RevertInfo, Info, RequestStatus
    <3>3. QED
      BY <3>1, <3>2, RenamingTyped
  <2>3. CASE OfficialReview
    <3>1. PICK i \in OfficialIds : ApproveOfficial(i) \/ RevertOfficial(i)
      BY <2>3 DEF OfficialReview
    <3>2. official[i] \in Official /\ official[i] # Nil
      BY <3>1 DEF ApproveOfficial, RevertOfficial, NamesTyped
    <3>3. PICK names \in Names, st \in RequestStatus : Appoint(i, names, st)
      BY <3>1, <3>2 DEF ApproveOfficial, RevertOfficial, Official, RequestStatus
    <3>4. QED
      BY <3>2, <3>3, AppointingTyped
  <2>4. CASE TransferReview \/ SeatReview
    BY <1>1, <2>4 DEF TransferReview, SeatReview, ApproveTransfer, RevertTransfer, MoveMember,
                      ApproveSeat, RevertSeat, Seated
  <2>5. QED
    BY <1>4, <2>1, <2>2, <2>3, <2>4 DEF Review
<1>5. CASE Reject
  <2>1. ASSUME NEW i \in OfficialIds, RejectOfficial(i) PROVE NamesTyped'
    BY <2>1, OfficialTurned DEF RejectOfficial, NamesTyped, RequestStatus
  <2>2. QED
    BY <1>1, <1>5, <2>1 DEF Reject, RejectTransfer, RejectInfo, RejectSeat, RejectAddition
<1>6. CASE RosterStep
  <2>1. ASSUME NEW u \in Units, MemberEdit(u) PROVE NamesTyped'
    BY <1>2, <2>1, DeletionTyped DEF MemberEdit, AddMemberAs, UpdateMemberAs, requests
  <2>2. ASSUME NEW m \in Members, NEW n \in Identities, EditMember(m, n) PROVE NamesTyped'
    BY <1>2, <2>2 DEF EditMember, requests
  <2>3. CASE RosterPurge \/ \E u \in Units, s \in Slots : DeleteCouncilorRow(u, s)
    BY <1>1, <2>3 DEF RosterPurge, ArchiveAndPurge, RemoveAndPurge, DeleteCouncilorRow
  <2>4. QED
    BY <1>6, <2>1, <2>2, <2>3, SettingTyped DEF RosterStep, OfficialEdit
<1>7. QED
  BY <1>1, <1>3, <1>4, <1>5, <1>6 DEF RequestsNext, rvars, requests

-----------------------------------------------------------------------------
(* The members of the requests.                                            *)

(* Rows of which only the status or the slot is written, or which go.      *)
KeepsRows ==
  /\ info' \in [InfoIds -> Info \union {Nil}]
  /\ seat' \in [SeatIds -> Seat \union {Nil}]
  /\ \A i \in InfoIds : info'[i] # Nil =>
       info[i] # Nil /\ info'[i].member = info[i].member
  /\ \A i \in SeatIds : seat'[i] # Nil =>
       seat[i] # Nil /\ seat'[i].member = seat[i].member /\ seat'[i].original = seat[i].original

MembersOf(i) == {seat[i].member, seat[i].original} \ {Nil}

LEMMA MembersTyped ==
  ASSUME Present
  PROVE  /\ \A i \in InfoIds : info[i] # Nil => info[i].member \in Members
         /\ \A i \in SeatIds : seat[i] # Nil => MembersOf(i) \subseteq Members
BY DEF Present, Info, Seat, MembersOf

LEMMA StayingPresent ==
  ASSUME Present, KeepsRows, \A m \in Members : owner[m] # Nil => owner'[m] # Nil
  PROVE  Present'
<1>1. ASSUME NEW i \in InfoIds, info'[i] # Nil PROVE owner'[info'[i].member] # Nil
  BY <1>1, MembersTyped DEF KeepsRows, Present
<1>2. ASSUME NEW i \in SeatIds, seat'[i] # Nil,
             NEW m \in {seat'[i].member, seat'[i].original} \ {Nil}
      PROVE  owner'[m] # Nil
  <2>1. seat[i] # Nil /\ m \in MembersOf(i)
    BY <1>2 DEF KeepsRows, MembersOf
  <2>2. m \in Members /\ owner[m] # Nil
    BY <2>1, MembersTyped DEF Present, MembersOf
  <2>3. QED
    BY <2>2
<1>3. QED
  BY <1>1, <1>2 DEF Present, KeepsRows

LEMMA InfoTurned ==
  ASSUME Present, NEW i \in InfoIds, info[i] # Nil, NEW st \in RequestStatus,
         info' = [info EXCEPT ![i].status = st], seat' = seat
  PROVE  KeepsRows
<1> DEFINE r == [info[i] EXCEPT !.status = st]
<1>1. r \in Info /\ r.member = info[i].member
  BY DEF Present, Info
<1>2. info' = [info EXCEPT ![i] = r]
  OBVIOUS
<1> HIDE DEF r
<1>3. QED
  BY <1>1, <1>2 DEF Present, KeepsRows

LEMMA SeatTurned ==
  ASSUME Present, NEW i \in SeatIds, seat[i] # Nil, NEW st \in RequestStatus,
         seat' = [seat EXCEPT ![i].status = st], info' = info
  PROVE  KeepsRows
<1> DEFINE r == [seat[i] EXCEPT !.status = st]
<1>1. r \in Seat /\ r.member = seat[i].member /\ r.original = seat[i].original
  BY DEF Present, Seat
<1>2. seat' = [seat EXCEPT ![i] = r]
  OBVIOUS
<1> HIDE DEF r
<1>3. QED
  BY <1>1, <1>2 DEF Present, KeepsRows

(* A row whose councilor is deleted.                                       *)
LEMMA SeatUnslotted ==
  ASSUME Present, NEW i \in SeatIds, seat[i] # Nil
  PROVE  /\ [seat[i] EXCEPT !.slot = Nil] \in Seat
         /\ [seat[i] EXCEPT !.slot = Nil].member = seat[i].member
         /\ [seat[i] EXCEPT !.slot = Nil].original = seat[i].original
BY DEF Present, Seat

LEMMA UnslottedRows ==
  ASSUME Present, NEW u \in Units, NEW s \in Slots, DeleteCouncilorRow(u, s)
  PROVE  KeepsRows
BY SeatUnslotted DEF DeleteCouncilorRow, Present, KeepsRows

LEMMA PurgedRows ==
  ASSUME Present, NEW M \in SUBSET Members, Purged(M)
  PROVE  /\ KeepsRows
         /\ \A i \in InfoIds : info'[i] # Nil => info[i].member \notin M
         /\ \A i \in SeatIds : seat'[i] # Nil => MembersOf(i) \intersect M = {}
<1>1. \A i \in InfoIds :
        info'[i] = IF info[i] # Nil /\ info[i].member \in M THEN Nil ELSE info[i]
  BY DEF Purged
<1>2. \A i \in SeatIds :
        seat'[i] \in {Nil, seat[i], [seat[i] EXCEPT !.slot = Nil]}
  BY DEF Purged
<1>3. \A i \in SeatIds : seat'[i] # Nil => seat[i] # Nil /\ ~AboutSeat(seat[i], M)
  BY DEF Purged
<1>4. info' \in [InfoIds -> Info \union {Nil}]
  BY DEF Purged, Present
<1>5. seat' \in [SeatIds -> Seat \union {Nil}]
  <2>1. \A i \in SeatIds : seat'[i] \in Seat \union {Nil}
    BY <1>2, <1>3, SeatUnslotted DEF Present
  <2>2. seat' = [i \in SeatIds |-> seat'[i]]
    BY DEF Purged
  <2>3. QED
    BY <2>1, <2>2
<1>6. \A i \in SeatIds : seat'[i] # Nil =>
        seat'[i].member = seat[i].member /\ seat'[i].original = seat[i].original
  BY <1>2, <1>3, SeatUnslotted
<1>7. KeepsRows
  BY <1>1, <1>3, <1>4, <1>5, <1>6 DEF KeepsRows
<1>8. QED
  BY <1>1, <1>3, <1>7 DEF AboutSeat, MembersOf

LEMMA PurgingPresent ==
  ASSUME Present, NEW M \in SUBSET Members, Purged(M),
         \A m \in Members \ M : owner'[m] = owner[m]
  PROVE  Present'
<1>1. ASSUME NEW i \in InfoIds, info'[i] # Nil PROVE owner'[info'[i].member] # Nil
  BY <1>1, PurgedRows, MembersTyped DEF KeepsRows, Present
<1>2. ASSUME NEW i \in SeatIds, seat'[i] # Nil,
             NEW m \in {seat'[i].member, seat'[i].original} \ {Nil}
      PROVE  owner'[m] # Nil
  <2>1. seat[i] # Nil /\ m \in MembersOf(i) /\ m \notin M
    BY <1>2, PurgedRows DEF KeepsRows, MembersOf
  <2>2. m \in Members /\ owner[m] # Nil
    BY <2>1, MembersTyped DEF Present, MembersOf
  <2>3. QED
    BY <2>1, <2>2
<1>3. QED
  BY <1>1, <1>2, PurgedRows DEF Present, KeepsRows

(* A councilor request names the councilor, which is present.              *)
LEMMA FilingPresent ==
  ASSUME RequestsInv, NEW u \in Units,
         \/ \E i \in InfoIds, m \in Members, n \in Identities \union {Nil} : FileInfo(i, u, m, n)
         \/ \E i \in SeatIds, s \in Slots, m \in Members \union {Nil} : FileSeat(i, u, s, m)
  PROVE  Present'
<1>1. Present /\ TypeOK /\ u # Nil
  BY RegistryAssumption DEF RequestsInv, BooksInv, PaymentsTypeOK
<1>2. ASSUME NEW i \in InfoIds, NEW m \in Members, NEW n \in Identities \union {Nil},
             FileInfo(i, u, m, n)
      PROVE  Present'
  <2> DEFINE r == [member |-> m, new |-> n, original |-> identity[m], status |-> Pending]
  <2>1. r \in Info /\ r.member = m
    BY DEF Info, RequestStatus, RequestsInv, NamesTyped
  <2>2. /\ info' = [info EXCEPT ![i] = r] /\ owner[m] = u
        /\ seat' = seat /\ owner' = owner
    BY <1>2 DEF FileInfo, pvars, vars
  <2> HIDE DEF r
  <2>3. QED
    BY <1>1, <2>1, <2>2 DEF Present
<1>3. ASSUME NEW i \in SeatIds, NEW s \in Slots, NEW m \in Members \union {Nil},
             FileSeat(i, u, s, m)
      PROVE  Present'
  <2> DEFINE r == [unit |-> u, slot |-> s, member |-> m, original |-> council[u][s],
                   status |-> Pending]
  <2>1. council[u][s] \in Members /\ owner[council[u][s]] # Nil
    BY <1>1, <1>3, RegistryAssumption
    DEF FileSeat, TypeOK, RequestsInv, CouncilPresent, CouncilorFrom
  <2>2. r \in Seat /\ r.member = m /\ r.original = council[u][s]
    BY <2>1 DEF Seat, RequestStatus
  <2>3. /\ seat' = [seat EXCEPT ![i] = r] /\ (m # Nil => owner[m] = u)
        /\ info' = info /\ owner' = owner
    BY <1>3 DEF FileSeat, pvars, vars
  <2> HIDE DEF r
  <2>4. ASSUME NEW j \in SeatIds, seat'[j] # Nil,
               NEW n \in {seat'[j].member, seat'[j].original} \ {Nil}
        PROVE  owner'[n] # Nil
    BY <1>1, <2>1, <2>2, <2>3, <2>4 DEF Present
  <2>5. QED
    BY <1>1, <2>2, <2>3, <2>4 DEF Present
<1>4. QED
  BY <1>2, <1>3

(* Who moves was present, and who comes is.                                *)
LEMMA MovingPresent ==
  ASSUME RequestsInv, TransferReview
  PROVE  KeepsRows /\ \A m \in Members : owner[m] # Nil => owner'[m] # Nil
<1>1. PICK i \in TransferIds : ApproveTransfer(i) \/ RevertTransfer(i)
  BY DEF TransferReview
<1>2. transfer[i] \in Transfer
  BY <1>1 DEF ApproveTransfer, RevertTransfer, RequestsInv, TransferInv, RosterTyped
<1>3. \E u \in Units, st \in RequestStatus : MoveMember(i, u, st)
  BY <1>1, <1>2 DEF ApproveTransfer, RevertTransfer, Transfer, RequestStatus
<1>4. info' = info /\ seat' = seat
      /\ \E u \in Units : owner' = [owner EXCEPT ![transfer[i].member] = u]
  BY <1>3 DEF MoveMember
<1>5. QED
  BY <1>4, RegistryAssumption DEF RequestsInv, TransferInv, RosterTyped, Present, KeepsRows

LEMMA RowsAlone ==
  ASSUME Present, info' = info, seat' = seat
  PROVE  KeepsRows
BY DEF Present, KeepsRows

LEMMA NextKeepsPresent ==
  ASSUME RequestsInv, [RequestsNext]_rvars
  PROVE  Present'
<1>1. TransferInv /\ Present
  BY DEF RequestsInv
<1>2. ASSUME StaysPut, info' = info, seat' = seat PROVE Present'
  BY <1>1, <1>2, RowsAlone, StayingPresent DEF StaysPut
<1>3. ASSUME owner' = owner, KeepsRows PROVE Present'
  BY <1>1, <1>3, StayingPresent
<1>4. ASSUME NEW u \in Units, File(u) PROVE Present'
  BY <1>1, <1>3, <1>4, RowsAlone, FilingPresent
  DEF File, FileTransfer, FileOfficial, FileAddition, pvars, vars
<1>5. CASE Review
  <2>1. CASE TransferReview
    BY <1>1, <2>1, MovingPresent, StayingPresent
  <2>2. CASE SeatReview
    <3>1. PICK i \in SeatIds : ApproveSeat(i) \/ RevertSeat(i)
      BY <2>2 DEF SeatReview
    <3>2. PICK m \in {seat[i].member, seat[i].original}, st \in RequestStatus :
            seat[i] # Nil /\ Seated(i, m, st)
      BY <3>1 DEF ApproveSeat, RevertSeat, RequestStatus
    <3>3. QED
      BY <1>1, <1>3, <3>2, SeatTurned DEF Seated
  <2>3. ASSUME NEW i \in InfoIds, InfoReview(i) PROVE Present'
    <3>1. PICK n \in {info[i].new, info[i].original, identity[info[i].member]},
               st \in RequestStatus : info[i] # Nil /\ Rename(i, n, st)
      BY <2>3 DEF InfoReview, ApproveInfo, RevertInfo, RequestStatus
    <3>2. QED
      BY <1>1, <1>3, <3>1, InfoTurned DEF Rename, pvars, vars
  <2>4. CASE OfficialReview
    BY <1>1, <1>3, <2>4, RowsAlone
    DEF OfficialReview, ApproveOfficial, RevertOfficial, Appoint, pvars, vars
  <2>5. ASSUME NEW i \in AddIds, NEW m \in Members, ApproveAddition(i, m) PROVE Present'
    <3>1. addition[i].unit \in Units
      BY <1>1, <2>5 DEF ApproveAddition, TransferInv, RosterTyped, Addition
    <3>2. QED
      BY <1>1, <1>2, <2>5, <3>1, AdditionsFiled, AdditionStaysPut DEF ApproveAddition
  <2>6. QED
    BY <1>5, <2>1, <2>2, <2>3, <2>4, <2>5 DEF Review
<1>6. CASE Reject
  <2>1. ASSUME NEW i \in InfoIds, RejectInfo(i) PROVE Present'
    BY <1>1, <1>3, <2>1, InfoTurned DEF RejectInfo, RequestStatus, pvars, vars
  <2>2. ASSUME NEW i \in SeatIds, RejectSeat(i) PROVE Present'
    BY <1>1, <1>3, <2>2, SeatTurned DEF RejectSeat, RequestStatus, pvars, vars
  <2>3. QED
    BY <1>1, <1>3, <1>6, <2>1, <2>2, RowsAlone
    DEF Reject, RejectTransfer, RejectOfficial, RejectAddition, pvars, vars
<1>7. CASE RosterStep
  <2>1. ASSUME NEW u \in Units, NEW m \in Members, NEW n \in Identities, AddMemberAs(u, m, n)
        PROVE  Present'
    BY <1>1, <1>2, <2>1, AdditionStaysPut DEF AddMemberAs, requests, TransferInv, RosterTyped
  <2>2. ASSUME NEW u \in Units, NEW m \in Members, DeleteMemberAndOffices(u, m)
        PROVE  Present'
    BY <1>1, <2>2, DeletionLeaves, PurgingPresent DEF DeleteMemberAndOffices, Leaves
  <2>3. ASSUME NEW M \in SUBSET Members, ArchiveAndPurge(M) \/ RemoveAndPurge(M)
        PROVE  Present'
    BY <1>1, <2>3, ArchivalLeaves, RemovalLeaves, PurgingPresent
    DEF ArchiveAndPurge, RemoveAndPurge, Leaves
  <2>4. ASSUME NEW u \in Units, NEW s \in Slots, DeleteCouncilorRow(u, s) PROVE Present'
    BY <1>1, <1>3, <2>4, UnslottedRows DEF DeleteCouncilorRow, DeleteCouncilor
  <2>5. CASE \/ \E u \in Units, m \in Members, n \in Identities : UpdateMemberAs(u, m, n)
             \/ \E m \in Members, n \in Identities : EditMember(m, n)
             \/ \E u \in Units : OfficialEdit(u)
    BY <1>1, <1>3, <2>5, RowsAlone
    DEF UpdateMemberAs, UpdateMember, EditMember, OfficialEdit, SetOfficial, requests, pvars, vars
  <2>6. QED
    BY <1>7, <2>1, <2>2, <2>3, <2>4, <2>5 DEF RosterStep, MemberEdit, RosterPurge
<1>8. CASE (CouncilorStep \/ SeasonStep \/ MoneyStep) /\ UNCHANGED requests
  BY <1>1, <1>2, <1>8, CouncilorsStayPut, SeasonsStayPut, MoneyStaysPut DEF requests
<1>9. CASE UNCHANGED rvars
  BY <1>1, <1>3, <1>9, RowsAlone DEF rvars, pvars, vars, requests
<1>10. QED
  BY <1>4, <1>5, <1>6, <1>7, <1>8, <1>9 DEF RequestsNext

-----------------------------------------------------------------------------
(* Councilors.                                                             *)

LEMMA CouncilorStays ==
  ASSUME RequestsInv, [RequestsNext]_rvars, ~TransferReview, ~SeatReview,
         NEW u \in Units, NEW s \in Slots, NEW V \in SUBSET Units, u \in V,
         CouncilorFrom(u, s, V)
  PROVE  CouncilorFrom(u, s, V)'
<1>1. TypeOK /\ ArchivedAway
  BY DEF RequestsInv, BooksInv, PaymentsTypeOK, TransferInv, ArchivedAway
<1>2. [PaymentsNext]_pvars
  BY RequestsCases DEF RequestsInv
<1>3. QED
  BY <1>1, <1>2, PaymentsCouncilorKept

LEMMA NextKeepsCouncil ==
  ASSUME RequestsInv, [RequestsNext]_rvars
  PROVE  CouncilPresent'
<1> SUFFICES ASSUME NEW u \in Units, NEW s \in Slots PROVE CouncilorFrom(u, s, Units)'
  BY DEF CouncilPresent
<1>1. /\ CouncilorFrom(u, s, Units) /\ TypeOK
      /\ TransferInv' /\ owner \in [Members -> Units \union {Nil}]
  BY NextKeepsTransfers
  DEF RequestsInv, CouncilPresent, BooksInv, PaymentsTypeOK, TransferInv, RosterTyped
<1>2. CASE TransferReview
  <2>1. council' = council
    BY <1>2 DEF TransferReview, ApproveTransfer, RevertTransfer, MoveMember
  <2>2. council[u][s] # Nil => council[u][s] \in Members
    BY <1>1 DEF TypeOK
  <2>3. QED
    BY <1>1, <1>2, <2>1, <2>2, MovingPresent, RegistryAssumption
    DEF CouncilorFrom, TransferInv, RosterTyped
<1>3. CASE SeatReview
  <2>1. PICK i \in SeatIds : ApproveSeat(i) \/ RevertSeat(i)
    BY <1>3 DEF SeatReview
  <2>2. PICK m \in {seat[i].member, seat[i].original} \ {Nil} :
          /\ seat[i] # Nil /\ seat[i].slot # Nil /\ owner' = owner
          /\ council' = [council EXCEPT ![seat[i].unit][seat[i].slot] = m]
    <3>1. seat[i] \in Seat /\ Nil \notin Members
      BY <2>1, RegistryAssumption DEF ApproveSeat, RevertSeat, RequestsInv, Present
    <3>2. seat[i].original # Nil
      BY <3>1 DEF Seat
    <3>3. QED
      BY <2>1, <3>2 DEF ApproveSeat, RevertSeat, Seated
  <2>3. m \in Members /\ owner[m] \in Units
    BY <1>1, <2>2, MembersTyped DEF MembersOf, RequestsInv, Present
  <2>4. council'[u][s] \in {m, council[u][s]}
    BY <1>1, <2>2 DEF TypeOK
  <2>5. QED
    BY <1>1, <2>2, <2>3, <2>4 DEF CouncilorFrom
<1>4. QED
  BY <1>1, <1>2, <1>3, CouncilorStays

LEMMA NextKeepsRequests == RequestsInv /\ [RequestsNext]_rvars => RequestsInv'
BY NextKeepsBooks, NextKeepsTransfers, NextKeepsNames, NextKeepsPresent, NextKeepsCouncil
DEF RequestsInv

LEMMA RequestsAlways == RequestsSpec => []RequestsInv
BY InitRequests, NextKeepsRequests, PTL DEF RequestsSpec

(* The reviews never find the member of a request gone, for any number of  *)
(* requests of every kind next to the wizard, the payments and the closing *)
(* of a season.                                                            *)
THEOREM RequestsAlwaysNamePresent == RequestsSpec => []RequestsNamePresentMembers
<1>1. RequestsInv => RequestsNamePresentMembers
  BY DEF RequestsInv, BooksInv, NamesTyped, Present, TransferInv, RosterTyped, RequestsTypeOK,
         RequestsNamePresentMembers
<1>2. QED
  BY <1>1, RequestsAlways, PTL

(* Whatever is edited, reviewed, removed, archived and restored in between,*)
(* a councilor comes to be no member of the unit only through a transfer   *)
(* or a councilor change.                                                  *)
THEOREM StraysOnlyByRequest == RequestsSpec => StrayOnlyByRequest
<1>1. RequestsInv /\ [RequestsNext]_rvars =>
        [\A u \in Units, s \in Slots :
           (~Stray(u, s) /\ Stray(u, s)') => TransferReview \/ SeatReview]_rvars
  <2> SUFFICES ASSUME RequestsInv, [RequestsNext]_rvars, ~TransferReview, ~SeatReview,
                      NEW u \in Units, NEW s \in Slots, ~Stray(u, s)
               PROVE  ~Stray(u, s)'
    OBVIOUS
  <2>1. CouncilorFrom(u, s, {u})
    BY DEF Stray, CouncilorFrom
  <2>2. CouncilorFrom(u, s, {u})'
    BY <2>1, CouncilorStays
  <2>3. QED
    BY <2>2 DEF Stray, CouncilorFrom
<1>2. QED
  BY <1>1, RequestsAlways, PTL DEF RequestsSpec, StrayOnlyByRequest

-----------------------------------------------------------------------------
(* Officials.                                                              *)

LEMMA StayingHeld ==
  ASSUME StaysPut, office' = office, NEW u \in Units, NEW o \in Offices, Held(u, o),
         \A m \in Members : owner[m] # Nil => identity'[m] = identity[m]
  PROVE  Held(u, o)'
<1>1. PICK m \in Members : owner[m] = u /\ identity[m] = office[u][o]
  BY DEF Held
<1>2. owner'[m] = u /\ identity'[m] = office'[u][o]
  BY <1>1, RegistryAssumption DEF StaysPut
<1>3. QED
  BY <1>2 DEF Held

(* The official's copy takes the new identity together with the member, or *)
(* it is another member's.                                                 *)
LEMMA RenamingHeld ==
  ASSUME RequestsInv, NEW i \in InfoIds, info[i] # Nil, info[i].new # Nil,
         NEW n \in Identities, NEW st, Rename(i, n, st),
         NEW u \in Units, NEW o \in Offices, Held(u, o)
  PROVE  Held(u, o)'
<1> DEFINE m == info[i].member
<1>1. m \in Members /\ owner' = owner
  BY MembersTyped DEF RequestsInv, Rename, pvars, vars
<1>2. /\ identity' = [identity EXCEPT ![m] = n]
      /\ office' = Synced(owner[m], identity[m], n)
  BY DEF Rename
<1>3. office'[u][o] = IF owner[m] = u /\ office[u][o] = identity[m] THEN n ELSE office[u][o]
  BY <1>2 DEF Synced, RequestsInv, NamesTyped, Names
<1>4. identity'[m] = n /\ \A k \in Members \ {m} : identity'[k] = identity[k]
  BY <1>1, <1>2 DEF RequestsInv, NamesTyped
<1> HIDE DEF m
<1>5. CASE owner[m] = u /\ office[u][o] = identity[m]
  BY <1>1, <1>3, <1>4, <1>5 DEF Held
<1>6. CASE ~(owner[m] = u /\ office[u][o] = identity[m])
  <2>1. PICK k \in Members : owner[k] = u /\ identity[k] = office[u][o]
    BY DEF Held
  <2>2. k # m
    BY <1>6, <2>1
  <2>3. QED
    BY <1>1, <1>3, <1>4, <1>6, <2>1, <2>2 DEF Held
<1>7. QED
  BY <1>5, <1>6

LEMMA InfoReviewHeld ==
  ASSUME RequestsInv, NEW i \in InfoIds, InfoReview(i), ~(RevertInfo(i) /\ info[i].new = Nil),
         NEW u \in Units, NEW o \in Offices, Held(u, o)
  PROVE  Held(u, o)'
<1>1. info[i] # Nil /\ info[i] \in Info
  BY DEF InfoReview, ApproveInfo, RevertInfo, RequestsInv, Present
<1>2. CASE info[i].new # Nil
  <2>1. PICK n \in {info[i].new, info[i].original}, st \in RequestStatus : Rename(i, n, st)
    BY <1>1, <1>2 DEF InfoReview, ApproveInfo, RevertInfo, RequestStatus
  <2>2. n \in Identities
    BY <1>1, <1>2, <2>1 DEF Info
  <2>3. QED
    BY <1>1, <1>2, <2>1, <2>2, RenamingHeld
<1>3. CASE info[i].new = Nil
  <2>1. Rename(i, identity[info[i].member], Approved)
    BY <1>3 DEF InfoReview, ApproveInfo
  <2>2. identity' = identity /\ office' = office /\ owner' = owner
    BY <1>3, <2>1 DEF Rename, RequestsInv, NamesTyped, pvars, vars
  <2>3. QED
    BY <2>2 DEF Held
<1>4. QED
  BY <1>2, <1>3

LEMMA OthersHeld ==
  ASSUME RequestsInv, [RequestsNext]_rvars, ~RosterStep, ~TransferReview, ~OfficialReview,
         \A i \in InfoIds : ~InfoReview(i),
         NEW u \in Units, NEW o \in Offices, Held(u, o)
  PROVE  Held(u, o)'
<1>1. TransferInv
  BY DEF RequestsInv
<1>2. ASSUME owner' = owner, identity' = identity, office' = office PROVE Held(u, o)'
  BY <1>2 DEF Held
<1>3. CASE (\E v \in Units : File(v)) \/ Reject
  BY <1>2, <1>3
  DEF File, FileTransfer, FileInfo, FileOfficial, FileSeat, FileAddition, Reject, RejectTransfer,
      RejectInfo, RejectOfficial, RejectSeat, RejectAddition, pvars, vars
<1>4. CASE SeatReview
  BY <1>2, <1>4 DEF SeatReview, ApproveSeat, RevertSeat, Seated
<1>5. ASSUME NEW i \in AddIds, NEW m \in Members, ApproveAddition(i, m) PROVE Held(u, o)'
  <2>1. addition[i].unit \in Units
    BY <1>1, <1>5 DEF ApproveAddition, TransferInv, RosterTyped, Addition
  <2>2. StaysPut
    BY <1>1, <1>5, <2>1, AdditionsFiled, AdditionStaysPut DEF ApproveAddition
  <2>3. \A k \in Members : owner[k] # Nil => identity'[k] = identity[k]
    BY <1>5 DEF ApproveAddition, ApproveAddMember, RequestsInv, NamesTyped
  <2>4. QED
    BY <1>5, <2>2, <2>3, StayingHeld DEF ApproveAddition
<1>6. CASE (CouncilorStep \/ SeasonStep \/ MoneyStep) /\ UNCHANGED <<identity, office, requests>>
  <2>1. StaysPut
    BY <1>1, <1>6, CouncilorsStayPut, SeasonsStayPut, MoneyStaysPut DEF requests
  <2>2. QED
    BY <1>6, <2>1, StayingHeld
<1>7. CASE UNCHANGED rvars
  BY <1>2, <1>7 DEF rvars, pvars, vars
<1>8. QED
  BY <1>3, <1>4, <1>5, <1>6, <1>7 DEF RequestsNext, Review

(* An official who is a member of the unit stays one, through every filing,*)
(* rejection and change of an identity: only the edits of the roster, the  *)
(* reviews of transfers and of officials, and the revert of a request that *)
(* was not about the identity part the two.                                *)
THEOREM OfficialsAlwaysFollow == RequestsSpec => OfficialsFollowMembers
<1>1. RequestsInv /\ [RequestsNext]_rvars =>
        [\A u \in Units, o \in Offices :
           (Held(u, o) /\ ~Held(u, o)')
           => \/ RosterStep \/ TransferReview \/ OfficialReview
              \/ \E i \in InfoIds : RevertInfo(i) /\ info[i].new = Nil]_rvars
  BY OthersHeld, InfoReviewHeld
<1>2. QED
  BY <1>1, RequestsAlways, PTL DEF RequestsSpec, OfficialsFollowMembers

-----------------------------------------------------------------------------
(* Concerns.                                                               *)

FilingAbout(m) == {f \in Filings : filing[f] = m}

Referring ==
  /\ concern \in [ConcernIds -> Concern \union {Nil}]
  /\ filing  \in [Filings -> Members \union {Nil}]
  /\ \A i \in ConcernIds : concern[i] # Nil => archived[concern[i].member] = concern[i].unit
  /\ \A f \in Filings : filing[f] # Nil => archived[filing[f]] # Nil

(* The concerns that wait together with those about to be stored.          *)
OneOfSome ==
  \A m \in Members :
    /\ IsFiniteSet(PendingAbout(m))
    /\ Cardinality(PendingAbout(m)) + Cardinality(FilingAbout(m)) <= Cardinality(Filings)

ConcernInv == TransferInv /\ Referring /\ OneOfSome

LEMMA FilingsFinite ==
  ASSUME NEW m
  PROVE  /\ IsFiniteSet(FilingAbout(m))
         /\ Cardinality(FilingAbout(m)) \in Nat
         /\ Cardinality(FilingAbout(m)) <= Cardinality(Filings)
         /\ Cardinality(Filings) \in Nat
<1>1. FilingAbout(m) \in SUBSET Filings /\ IsFiniteSet(Filings)
  BY ConcernsAssumption DEF FilingAbout
<1>2. QED
  BY <1>1, FS_Subset, FS_CardinalityType

LEMMA InitConcerns == ConcernsInit => ConcernInv
<1> SUFFICES ASSUME ConcernsInit PROVE ConcernInv
  OBVIOUS
<1>1. TransferInv
  BY InitTransfers DEF ConcernsInit
<1>2. Referring
  BY DEF ConcernsInit, Referring
<1>3. ASSUME NEW m \in Members
      PROVE  /\ IsFiniteSet(PendingAbout(m))
             /\ Cardinality(PendingAbout(m)) + Cardinality(FilingAbout(m)) <= Cardinality(Filings)
  <2>1. PendingAbout(m) = {}
    BY DEF PendingAbout, About, ConcernsInit
  <2>2. QED
    BY <2>1, FS_EmptySet, FilingsFinite
<1>4. QED
  BY <1>1, <1>2, <1>3 DEF ConcernInv, OneOfSome

(* Fewer that wait and fewer that are about to be stored.                  *)
LEMMA FewerCounted ==
  ASSUME OneOfSome,
         \A m \in Members : PendingAbout(m)' \subseteq PendingAbout(m)
                             /\ FilingAbout(m)' \subseteq FilingAbout(m)
  PROVE  OneOfSome'
<1> SUFFICES ASSUME NEW m \in Members
             PROVE  /\ IsFiniteSet(PendingAbout(m)')
                    /\ Cardinality(PendingAbout(m)') + Cardinality(FilingAbout(m)')
                         <= Cardinality(Filings)
  BY DEF OneOfSome
<1>1. IsFiniteSet(PendingAbout(m)) /\ Cardinality(PendingAbout(m)) \in Nat
  BY FS_CardinalityType DEF OneOfSome
<1>2. /\ IsFiniteSet(PendingAbout(m)')
      /\ Cardinality(PendingAbout(m)') <= Cardinality(PendingAbout(m))
      /\ Cardinality(PendingAbout(m)') \in Nat
  BY <1>1, FS_Subset, FS_CardinalityType
<1>3. /\ Cardinality(FilingAbout(m)') <= Cardinality(FilingAbout(m))
      /\ Cardinality(FilingAbout(m)') \in Nat
  BY FilingsFinite, FS_Subset, FS_CardinalityType
<1>4. QED
  BY <1>1, <1>2, <1>3, FilingsFinite DEF OneOfSome

(* Steps that leave the concerns, and the rows in the archive, alone.      *)
LEMMA OthersKeepConcerns ==
  ASSUME Referring, OneOfSome, concern' = concern, filing' = filing,
         \A m \in Members : archived[m] # Nil => archived'[m] = archived[m]
  PROVE  Referring' /\ OneOfSome'
<1>1. \A i \in ConcernIds : concern[i] # Nil =>
        concern[i].member \in Members /\ concern[i].unit # Nil
  BY RegistryAssumption DEF Referring, Concern
<1>2. Referring'
  BY <1>1 DEF Referring
<1>3. OneOfSome'
  BY FewerCounted DEF PendingAbout, About, FilingAbout
<1>4. QED
  BY <1>2, <1>3

LEMMA ArchivalKeepsConcerns ==
  ASSUME ConcernInv, NEW M \in SUBSET Members, NEW b \in Batches, ArchiveInBatch(M, b)
  PROVE  ConcernInv'
<1>1. TransferInv'
  BY ArchivalLeaves, LeavingKeepsTransfers DEF ConcernInv, ArchiveInBatch
<1>2. \A m \in Members : archived[m] # Nil => archived'[m] = archived[m]
  BY DEF ConcernInv, TransferInv, RosterTyped, ArchiveInBatch, ArchiveAndPurge, ArchiveMembers
<1>3. QED
  BY <1>1, <1>2, OthersKeepConcerns DEF ConcernInv, ArchiveInBatch

LEMMA RestorationKeepsConcerns ==
  ASSUME ConcernInv, NEW m \in Members, RestoreUnquestioned(m)
  PROVE  ConcernInv'
<1>1. TransferInv'
  BY RestorationStaysPut, StayingKeepsTransfers DEF ConcernInv, RestoreUnquestioned, requests
<1>2. archived' = [archived EXCEPT ![m] = Nil] /\ About(m) = {} /\ concern' = concern
      /\ filing' = [f \in Filings |-> IF filing[f] = m THEN Nil ELSE filing[f]]
  BY DEF RestoreUnquestioned, RestoreMember
<1>3. \A i \in ConcernIds : concern[i] # Nil =>
        concern[i].member \in Members /\ concern[i].member # m
  BY <1>2 DEF ConcernInv, Referring, Concern, About
<1>4. \A n \in Members \ {m} : archived'[n] = archived[n]
  BY <1>2 DEF ConcernInv, TransferInv, RosterTyped
<1>5. Referring'
  BY <1>2, <1>3, <1>4 DEF ConcernInv, Referring
<1>6. \A n \in Members : PendingAbout(n)' \subseteq PendingAbout(n)
  BY <1>2 DEF PendingAbout, About
<1>7. \A n \in Members : FilingAbout(n)' \subseteq FilingAbout(n)
  BY <1>2, ConcernsAssumption, RegistryAssumption DEF FilingAbout
<1>8. QED
  BY <1>1, <1>5, <1>6, <1>7, FewerCounted DEF ConcernInv

LEMMA StandingStillKeepsTransfers ==
  ASSUME TransferInv, UNCHANGED rvars
  PROVE  TransferInv'
BY QuietStaysPut, StayingKeepsTransfers DEF rvars, pvars, vars, requests

(* The check starts a count of none that wait.                             *)
LEMMA CheckKeepsConcerns ==
  ASSUME ConcernInv, NEW f \in Filings, NEW u \in Units, NEW m \in Members,
         CheckConcern(f, u, m)
  PROVE  ConcernInv'
<1>1. /\ concern' = concern /\ archived' = archived /\ filing[f] = Nil
      /\ filing' = [filing EXCEPT ![f] = m] /\ PendingAbout(m) = {} /\ archived[m] = u
  BY DEF CheckConcern, Recent, rvars, pvars, vars
<1>2. TransferInv'
  BY StandingStillKeepsTransfers DEF ConcernInv, CheckConcern
<1>3. u # Nil
  BY RegistryAssumption
<1>4. Referring'
  BY <1>1, <1>3 DEF ConcernInv, Referring
<1>5. ASSUME NEW n \in Members
      PROVE  /\ IsFiniteSet(PendingAbout(n)')
             /\ Cardinality(PendingAbout(n)') + Cardinality(FilingAbout(n)')
                  <= Cardinality(Filings)
  <2>1. PendingAbout(n)' = PendingAbout(n)
    BY <1>1 DEF PendingAbout, About
  <2>2. CASE n = m
    <3>1. FilingAbout(n)' \in SUBSET Filings
      BY DEF FilingAbout
    <3>2. /\ Cardinality(FilingAbout(n)') <= Cardinality(Filings)
          /\ Cardinality(FilingAbout(n)') \in Nat
      BY <3>1, ConcernsAssumption, FS_Subset, FS_CardinalityType
    <3>3. QED
      BY <1>1, <2>1, <2>2, <3>2, FS_EmptySet, FilingsFinite
  <2>3. CASE n # m
    <3>1. FilingAbout(n)' \subseteq FilingAbout(n)
      BY <1>1, <2>3 DEF FilingAbout, ConcernInv, Referring
    <3>2. /\ Cardinality(FilingAbout(n)') <= Cardinality(FilingAbout(n))
          /\ Cardinality(FilingAbout(n)') \in Nat
      BY <3>1, FilingsFinite, FS_Subset, FS_CardinalityType
    <3>3. IsFiniteSet(PendingAbout(n)) /\ Cardinality(PendingAbout(n)) \in Nat
      BY FS_CardinalityType DEF ConcernInv, OneOfSome
    <3>4. QED
      BY <2>1, <3>2, <3>3, FilingsFinite DEF ConcernInv, OneOfSome
  <2>4. QED
    BY <2>2, <2>3
<1>6. QED
  BY <1>2, <1>4, <1>5 DEF ConcernInv, OneOfSome

(* One more waits, and one fewer is about to be stored.                    *)
LEMMA StoringKeepsConcerns ==
  ASSUME ConcernInv, NEW f \in Filings, NEW i \in ConcernIds, StoreConcern(f, i)
  PROVE  ConcernInv'
<1> DEFINE m == filing[f]
<1> DEFINE s == [member |-> m, unit |-> archived[m], status |-> Pending]
<1>1. /\ m \in Members /\ concern[i] = Nil /\ concern' = [concern EXCEPT ![i] = s]
      /\ filing' = [filing EXCEPT ![f] = Nil] /\ archived' = archived
  BY DEF StoreConcern, ConcernInv, Referring, rvars, pvars, vars
<1>2. archived[m] \in Units
  BY <1>1 DEF StoreConcern, ConcernInv, Referring, TransferInv, RosterTyped
<1>3. s \in Concern /\ s # Nil /\ s.member = m /\ s.unit = archived[m] /\ s.status = Pending
  BY <1>1, <1>2, ConcernsAssumption DEF Concern, RequestStatus
<1> HIDE DEF s
<1>4. TransferInv'
  BY StandingStillKeepsTransfers DEF ConcernInv, StoreConcern
<1>5. concern'[i] = s /\ \A j \in ConcernIds \ {i} : concern'[j] = concern[j]
  BY <1>1 DEF ConcernInv, Referring
<1>6. Referring'
  BY <1>1, <1>3, <1>5 DEF ConcernInv, Referring
<1>7. ASSUME NEW n \in Members
      PROVE  /\ IsFiniteSet(PendingAbout(n)')
             /\ Cardinality(PendingAbout(n)') + Cardinality(FilingAbout(n)')
                  <= Cardinality(Filings)
  <2>1. IsFiniteSet(PendingAbout(n)) /\ Cardinality(PendingAbout(n)) \in Nat
    BY FS_CardinalityType DEF ConcernInv, OneOfSome
  <2>2. CASE n = m
    <3>1. PendingAbout(n)' = PendingAbout(n) \union {i} /\ i \notin PendingAbout(n)
      BY <1>1, <1>3, <1>5, <2>2 DEF PendingAbout, About
    <3>2. IsFiniteSet(PendingAbout(n)')
          /\ Cardinality(PendingAbout(n)') = Cardinality(PendingAbout(n)) + 1
      BY <2>1, <3>1, FS_AddElement
    <3>3. m # Nil
      BY DEF StoreConcern
    <3>4. FilingAbout(n)' = FilingAbout(n) \ {f} /\ f \in FilingAbout(n)
      BY <1>1, <2>2, <3>3 DEF FilingAbout, ConcernInv, Referring
    <3>5. Cardinality(FilingAbout(n)') = Cardinality(FilingAbout(n)) - 1
      BY <3>4, FilingsFinite, FS_RemoveElement
    <3>6. QED
      BY <2>1, <3>2, <3>5, FilingsFinite DEF ConcernInv, OneOfSome
  <2>3. CASE n # m
    <3>1. PendingAbout(n)' = PendingAbout(n)
      BY <1>1, <1>3, <1>5, <2>3 DEF PendingAbout, About
    <3>2. FilingAbout(n)' \subseteq FilingAbout(n)
      BY <1>1, RegistryAssumption, RequestsAssumption DEF FilingAbout, ConcernInv, Referring
    <3>3. /\ Cardinality(FilingAbout(n)') <= Cardinality(FilingAbout(n))
          /\ Cardinality(FilingAbout(n)') \in Nat
      BY <3>2, FilingsFinite, FS_Subset, FS_CardinalityType
    <3>4. QED
      BY <2>1, <3>1, <3>3, FilingsFinite DEF ConcernInv, OneOfSome
  <2>4. QED
    BY <2>2, <2>3
<1>8. QED
  BY <1>4, <1>6, <1>7 DEF ConcernInv, OneOfSome

LEMMA DroppingKeepsConcerns ==
  ASSUME ConcernInv, NEW f \in Filings, DropFiling(f)
  PROVE  ConcernInv'
<1>1. /\ concern' = concern /\ archived' = archived
      /\ filing' = [filing EXCEPT ![f] = Nil]
  BY DEF DropFiling, rvars, pvars, vars
<1>2. TransferInv'
  BY StandingStillKeepsTransfers DEF ConcernInv, DropFiling
<1>3. Referring'
  BY <1>1 DEF ConcernInv, Referring
<1>4. \A n \in Members : PendingAbout(n)' \subseteq PendingAbout(n)
  BY <1>1 DEF PendingAbout, About
<1>5. \A n \in Members : FilingAbout(n)' \subseteq FilingAbout(n)
  BY <1>1, RegistryAssumption DEF FilingAbout, ConcernInv, Referring
<1>6. QED
  BY <1>2, <1>3, <1>4, <1>5, FewerCounted DEF ConcernInv

LEMMA AnswersKeepConcerns ==
  ASSUME ConcernInv, NEW i \in ConcernIds, NEW st \in {Approved, Rejected}, Answer(i, st)
  PROVE  ConcernInv'
<1> DEFINE s == [concern[i] EXCEPT !.status = st]
<1>1. /\ concern[i] \in Concern /\ concern' = [concern EXCEPT ![i] = s]
      /\ filing' = filing /\ archived' = archived
  BY DEF Answer, ConcernInv, Referring, rvars, pvars, vars
<1>2. /\ s \in Concern /\ s # Nil /\ s.member = concern[i].member
      /\ s.unit = concern[i].unit /\ s.status # Pending
  BY <1>1, ConcernsAssumption DEF Concern, RequestStatus, Pending, Approved, Rejected
<1> HIDE DEF s
<1>3. concern'[i] = s /\ \A j \in ConcernIds \ {i} : concern'[j] = concern[j]
  BY <1>1 DEF ConcernInv, Referring
<1>4. TransferInv'
  BY StandingStillKeepsTransfers DEF ConcernInv, Answer
<1>5. Referring'
  BY <1>1, <1>2, <1>3 DEF ConcernInv, Referring, Answer
<1>6. \A n \in Members : PendingAbout(n)' \subseteq PendingAbout(n)
  BY <1>2, <1>3 DEF PendingAbout, About
<1>7. \A n \in Members : FilingAbout(n)' \subseteq FilingAbout(n)
  BY <1>1 DEF FilingAbout
<1>8. QED
  BY <1>4, <1>5, <1>6, <1>7, FewerCounted DEF ConcernInv

LEMMA NextKeepsConcerns == ConcernInv /\ [ConcernsNext]_<<rvars, cvars>> => ConcernInv'
<1> SUFFICES ASSUME ConcernInv, [ConcernsNext]_<<rvars, cvars>> PROVE ConcernInv'
  OBVIOUS
<1>1. CASE ConcernStep
  BY <1>1, CheckKeepsConcerns, StoringKeepsConcerns, DroppingKeepsConcerns, AnswersKeepConcerns
  DEF ConcernStep, ApproveConcern, RejectConcern
<1>2. CASE ArchiveStep
  BY <1>2, ArchivalKeepsConcerns, RestorationKeepsConcerns DEF ArchiveStep
<1>3. CASE ([RequestsNext]_rvars) /\ archived' = archived /\ UNCHANGED cvars
  BY <1>3, NextKeepsTransfers, OthersKeepConcerns DEF ConcernInv, cvars
<1>4. CASE UNCHANGED <<rvars, cvars>>
  BY <1>3, <1>4 DEF rvars, pvars, vars
<1>5. QED
  BY <1>1, <1>2, <1>3, <1>4 DEF ConcernsNext

(* However members are archived and restored and however many filings come *)
(* at the same time, concerns are about rows in the archive, and no more   *)
(* of them wait for one member than there are filings.                     *)
THEOREM ConcernsAlwaysStand == ConcernsSpec => []ConcernsStand
<1>1. ConcernsSpec => []ConcernInv
  BY InitConcerns, NextKeepsConcerns, PTL DEF ConcernsSpec
<1>2. ConcernInv => ConcernsStand
  <2> SUFFICES ASSUME ConcernInv PROVE ConcernsStand
    OBVIOUS
  <2>1. ASSUME NEW m \in Members PROVE Cardinality(PendingAbout(m)) <= Cardinality(Filings)
    <3>1. Cardinality(PendingAbout(m)) \in Nat
      BY FS_CardinalityType DEF ConcernInv, OneOfSome
    <3>2. QED
      BY <3>1, FilingsFinite DEF ConcernInv, OneOfSome
  <2>2. QED
    BY <2>1 DEF ConcernInv, Referring, ConcernsStand
<1>3. QED
  BY <1>1, <1>2, PTL
=============================================================================
