SPECIFICATION FocusSpec
CONSTANTS
  Units = {u1}
  Members = {m1, m2}
  Slots = {s1}
  Years = {1}
  UnitFee = 1
  MemberFee = 1
  RosterBand = 2
  Nil = Nil
  LegacyProofs = {}
  MaxProofs = 3
  MaxFee = 3
  Requests = {r1, r2}
SYMMETRY Symmetry
INVARIANTS
  FewWait
PROPERTIES
  AloneKeepsBooks
  TakenBackOnlyByOlderStep
