SPECIFICATION Spec
CONSTANTS
  Units = {u1}
  Members = {m1, m2, m3}
  Slots = {s1, s2, s3}
  Years = {1, 2}
  UnitFee = 1
  MemberFee = 1
  RosterBand = 1
  Nil = Nil
SYMMETRY Symmetry
INVARIANTS
  TypeOK
  CouncilorsAreOwnMembers
PROPERTIES
  CompletedIsFinal
  RequirementLostOnlyByEdits
