SPECIFICATION FocusSpec
CONSTANTS
  m1 = m1
  t1 = t1
  s1 = s1
  s2 = s2
  m2 = m2
  g1 = g1
  Members = {m1, m2}
  Teams = {t1}
  Solo = {s1, s2}
  Group = {g1}
  Entered <- SomeEntered
  Slots <- Contested
  Marks = {55}
  Requests = {r1}
  MaxCards = 2
  MaxStarted = 2
  Nil = Nil
CHECK_DEADLOCK FALSE
INVARIANT EligibleMaySubmit
