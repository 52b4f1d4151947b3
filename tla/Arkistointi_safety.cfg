\* The nightly run and one by hand, beside a save by a person; one run or announcement
\* fails.  Two haut, one with two hakukohteet and one with none; both kinds of date either
\* come tomorrow or do not come.
CONSTANTS
    h1 = h1
    h2 = h2
    k1 = k1
    k2 = k2
    Haut = {h1, h2}
    Hakukohteet = {k1, k2}
    HakuOf <- BothOfOne
    Cron = cron
    Manual = {manual}
    MaxDay = 1
    Scheduled <- ScheduledDates
    Ended <- EndedDates
    MaxEdits = 1
    MaxStops = 1
SPECIFICATION Spec
INVARIANTS TypeOK IndexLagIsExplained
PROPERTIES RestoredStaysPublished NothingLeftPublished DueIsArchived
