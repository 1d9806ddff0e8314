SPECIFICATION FocusSpec
CONSTANTS
  m1 = m1
  t1 = t1
  s1 = s1
  s2 = s2
  m2 = m2
  g1 = g1
  Members = {m1, m2}
  Teams = {t1}
  Solo = {s1, s2}
  Group = {g1}
  Entered <- SomeEntered
  Slots <- Contested
  Marks = {55, 80}
  Requests = {r1, r2}
  MaxCards = 4
  MaxStarted = 2
  Nil = Nil
SYMMETRY Symmetry
INVARIANTS
  PodiumFollowsMarks
PROPERTIES
  DisorderIsOwed
  RankingRestores
  AppealQuotaKept
