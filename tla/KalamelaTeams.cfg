SPECIFICATION FocusSpec
CONSTANTS
  Members = {m1, m2, m3}
  Units = {u1, u2}
  Districts = {d1, d2}
  FirstDistrict = d1
  SecondDistrict = d2
  FarUnit = u1
  DistrictOf <- TwoDistricts
  GroupEvents = {g1}
  DistrictTeams = 2
  TeamSize = 2
  MaxNumber = 2
  MaxBills = 3
  MaxRows = 3
  Codes = {q1}
  Categories = {c1}
  Fees = {f1, f2}
  Slots = {s1, s2}
  Titles = {n1, n2}
  Solo = {v1}
  Stages = {a1, a2}
  MaxTime = 3
  Admins = {p1, p2}
  Requests = {r1, r2}
  MaxEdits = 1
  Nil = Nil
SYMMETRY Symmetry
INVARIANTS
  CatalogueTypeOK
PROPERTIES
  
  SecondPaymentOnlyByReturn
  FeeLostOnlyByRace
  OverlapOnlyByRevivalOrRace
