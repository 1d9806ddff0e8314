SPECIFICATION FreshSpec
CONSTANTS
  Units = {u1}
  Members = {m1}
  Slots = {s1}
  Years = {1}
  UnitFee = 1
  MemberFee = 1
  RosterBand = 2
  Nil = Nil
  LegacyProofs = {}
  MaxProofs = 2
  MaxFee = 2
PROPERTIES
  CompletionIsPaid
