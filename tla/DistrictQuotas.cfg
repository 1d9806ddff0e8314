SPECIFICATION QuotasSpec
CONSTANTS
  Members = {m1, m2, m3}
  Units = {u1, u2}
  Districts = {d1}
  DistrictOf <- OneDistrict
  Events = {e1, e2}
  Requests = {r1, r2}
  PersonLimit = 1
  UnitLimit = 2
  DistrictLimit = 1
  JuniorBase = 8
  SeniorBase = 9
  Wide = 10
  MaxChest = 10
  Nil = Nil
  Conferences = {c1}
  Officials = {o1, o2}
  People = {p1, p2}
  Calls = {k1, k2}
  StartQuotas = {1}
  MaxQuota = 1
  MaxBills = 2
  None = None
  UnitNames = {n1}
  ClergyDistricts = {z1}
  BloodBanks = {b1}
  ClergyOf <- ClergyOfName
  Digits = {t1}
  Secrets = {w1, w2}
  Handlers = {h1, h2}
  MaxAccounts = 2
  Absent = Absent
SYMMETRY Symmetry
INVARIANTS
  QuotasTypeOK
  NumbersFollowMembers
PROPERTIES
  EntryQuotasKept
  DelegateQuotaKept
  DelegatedOnce
  FoodStatedOnce
  AccountsFollowOwners
