\* Two tabs of one browser.
CONSTANTS
  Tabs = {t1, t2}
  MaxLoads = 2
  MaxFaults = 1
SPECIFICATION Spec
CHECK_DEADLOCK FALSE
INVARIANTS SignOutHasCause WaitersHaveRenewal
PROPERTY LoadingSettles
