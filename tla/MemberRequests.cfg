SPECIFICATION WizardSpec
CONSTANTS
  Units = {u1, u2}
  Members = {m1, m2}
  Slots = {s1}
  Years = {1}
  UnitFee = 1
  MemberFee = 1
  RosterBand = 2
  Nil = Nil
  LegacyProofs = {}
  MaxProofs = 1
  MaxFee = 3
  Identities = {a, b}
  Offices = {secretary}
  President = president
  TransferIds = {t1, t2}
  InfoIds = {i1, i2}
  OfficialIds = {1}
  SeatIds = {1}
  AddIds = {1}
  MaxRequests = 2
  Batches = {1, 2}
  ConcernIds = {1, 2, 3}
  Filings = {f1, f2}
SYMMETRY Symmetry
VIEW RequestsView
INVARIANTS
  RequestsNamePresentMembers
  SoleTransferDecides
  ConcernsStand
PROPERTIES
  StrayOnlyByRequest
  OfficialsFollowMembers
