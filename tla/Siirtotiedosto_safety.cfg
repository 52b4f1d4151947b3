\* Two runs that may fail, die or overlap, and a save at any time.  Three entities take
\* two pages; an oppilaitos and an osa share a page, another osa gets one of its own.
CONSTANTS
    Entities = {e1, e2, e3}
    Oppilaitokset = {o1}
    Osat = {s1, s2}
    MaxItems = 2
    Second = 2
    MaxNow = 3
    MaxRuns = 2
    MaxSaves = 1
SYMMETRY Symmetry
SPECIFICATION Spec
INVARIANTS TypeOK NoGapBetweenWindows CalmRunExportsAll NothingLeftBehind
CHECK_DEADLOCK FALSE
