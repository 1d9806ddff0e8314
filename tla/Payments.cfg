SPECIFICATION PaymentsFocusSpec
CONSTANTS
  Units = {u1}
  Members = {m1, m2}
  Slots = {s1}
  Years = {1}
  UnitFee = 1
  MemberFee = 1
  RosterBand = 2
  Nil = Nil
  LegacyProofs <- OldProofs
  MaxProofs = 2
  MaxFee = 3
SYMMETRY Symmetry
INVARIANTS
  OnePending
  SnapshotPriced
PROPERTIES
  BalanceStaysExact
  ApprovalStands
  CreditOnlyFromLowerFee
  FeeFollowsRoster
