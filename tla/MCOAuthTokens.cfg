\* Five requests of one client, two at a time, over five instants.
CONSTANTS
  c1 = c1
  q1 = q1
  q2 = q2
  q3 = q3
  q4 = q4
  q5 = q5
  Clients = {c1}
  Reqs = {q1, q2, q3, q4, q5}
  Length <- ShortWindows
  Limit <- SmallLimits
  MaxTime = 4
  MaxOpen = 2
SPECIFICATION Spec
SYMMETRY Sym
INVARIANTS
  LessThanTwice
  DayGivesHalf
  OneLivePerSession
  SessionsSurvive
PROPERTY
  DeadStaysDead
  KeepsSession
CHECK_DEADLOCK FALSE
