CONSTANTS
  b1 = b1
  b2 = b2
  t1 = t1
  t2 = t2
  Browsers = {b1, b2}
  Tabs = {t1, t2}
  Home <- BothOnOne
  Budget = 4
SPECIFICATION FairSpec
INVARIANTS TypeOK QuietJarIsCurrent LateNeverRenews SignupLinkSignsInOnce
PROPERTIES EveryCallReturns
CHECK_DEADLOCK FALSE
