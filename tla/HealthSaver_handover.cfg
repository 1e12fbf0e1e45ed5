SPECIFICATION Spec
CONSTANTS
    s1 = s1  s2 = s2
    Procs = {s1, s2}
    alive = alive  dead = dead  due = due
    Pictures = {alive, dead, due}
    Fresh = alive
    Restores <- RestoresAs
    Settings <- TwoSlow
    MaxCrashes = 0
INVARIANTS WritersHoldLock
CHECK_DEADLOCK FALSE
