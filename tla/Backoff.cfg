CONSTANTS
  t1 = t1
  t2 = t2
  unlimited = unlimited
  Reporters = {t1, t2}
  Durable = TRUE
  WholeSeconds = TRUE
  BaseCooldown = 1
  MaxCooldown = 3
  MaxDelta = 7
  AcceptedFor = {unlimited, 2}
  NoLimit = unlimited
  MaxFailures = 4
SPECIFICATION DisclosureSpec
SYMMETRY ReporterSymmetry
INVARIANTS DisclosureTypeOK NothingMissed
PROPERTIES FailuresCool BackoffSchedule RevokedStays
