CONSTANTS
  t1 = t1
  t2 = t2
  unlimited = unlimited
  Reporters = {t1}
  Durable = FALSE
  WholeSeconds = FALSE
  BaseCooldown = 1
  MaxCooldown = 4
  MaxDelta = 32
  AcceptedFor = {unlimited, 3}
  NoLimit = unlimited
  MaxFailures = 8
SPECIFICATION DisclosureSpec
PROPERTIES FailuresCool
