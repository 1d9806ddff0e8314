SPECIFICATION MagazineSpec
CONSTANTS
  Requests = {r1, r2}
  Ids = {1, 2, 3}
  Files = {f1, f2}
  Durations = {1}
  LastDay = 2
  None = None
PROPERTY AnsweredSubscriptionStays
