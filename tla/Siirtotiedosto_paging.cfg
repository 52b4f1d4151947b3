\* One run reads two entities in two pages while one of them is saved.
CONSTANTS
    Entities = {e1, e2}
    Oppilaitokset = {}
    Osat = {}
    MaxItems = 1
    Second = 2
    MaxNow = 4
    MaxRuns = 1
    MaxSaves = 1
SPECIFICATION Spec
INVARIANT EveryChangeExported
CHECK_DEADLOCK FALSE
