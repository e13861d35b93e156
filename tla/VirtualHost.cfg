CONSTANTS
  Tabs = {t1, t2, t3}
  Legacy = {t3}
  Sockets = {s1, s2, s3}
  Hosts = {h1, h2}
  Faults = {"toggle", "timeout", "reset", "restart", "probe"}
  MaxEvents = 9
  None = None
  t1 = t1
  t2 = t2
  t3 = t3
  s1 = s1
  s2 = s2
  s3 = s3
  h1 = h1
  h2 = h2
SPECIFICATION Spec
INVARIANTS OneTabIsServed LegacyStaysOut OneHostIsRead
PROPERTIES TabsSettle RetriesEnd CompanionIsShown
CHECK_DEADLOCK FALSE
