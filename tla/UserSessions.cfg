SPECIFICATION FocusSpec
CONSTANTS
  Users = {u1}
  Pages = {p1}
  Reports = {k1}
  Workers = {w1, w2}
  Requests = {r1, r2}
  Tokens = {t1, t2, t3}
  UserTtl = 2
  PageTtl = 3
  ReportTtl = 2
  AccessTtl = 2
  Nil = Nil
INVARIANTS
  FewSessions

PROPERTIES
  StaleAnswersEnd
  DeactivationTakesEffect
  LogoutTakesEffect
