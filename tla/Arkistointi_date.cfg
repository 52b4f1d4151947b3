\* One haku and the nightly run, undisturbed: a date of archiving that does not come, and
\* hakuajat that ended ten months ago tomorrow.
CONSTANTS
    h1 = h1
    h2 = h2
    k1 = k1
    k2 = k2
    Haut = {h1}
    Hakukohteet = {k1, k2}
    HakuOf <- BothOfOne
    Cron = cron
    Manual = {}
    MaxDay = 1
    Scheduled <- ScheduledDates
    Ended <- EndedDates
    MaxEdits = 0
    MaxStops = 0
SPECIFICATION Spec
PROPERTIES ScheduledDateIsKept
