SPECIFICATION SeasonSpec
CONSTANTS
  Units = {u1}
  Members = {m1}
  Slots = {s1}
  Years = {1, 2}
  UnitFee = 1
  MemberFee = 1
  RosterBand = 1
  Nil = Nil
  LegacyProofs = {}
  MaxProofs = 1
  MaxFee = 2
INVARIANTS
  RenewalFollowsCompletion
PROPERTIES
  PastSeasonsStand
