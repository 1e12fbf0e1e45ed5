SPECIFICATION FairSpec
CONSTANTS
    s1 = s1  s2 = s2
    Procs = {s1, s2}
    alive = alive  dead = dead  due = due
    Pictures = {alive, dead, due}
    Fresh = alive
    Restores <- RestoresAs
    Settings <- AloneOrPrompt
    MaxCrashes = 1
INVARIANTS FileIsWhole SkipIsSafe
PROPERTIES EventuallySaved ShutdownEnds
CHECK_DEADLOCK FALSE
