\* A put, an update and an edit of the koulutus at once.
CONSTANTS
    t1 = t1
    t2 = t2
    x1 = x1
    x2 = x2
    x3 = x3
    o1 = o1
    o2 = o2
    Existing = {t1, t2}
    Puts = {p}
    Updates = {u}
    KoulutusEdits = {k}
    Tarjoajat <- MCTarjoajat
    Oppilaitos <- MCOppilaitos
    Providing <- MCProviding
    Choices <- MCChoices
SPECIFICATION Spec
INVARIANT TypeOK
PROPERTIES OthersTarjoajatStay ChangedKoulutusFits AloneKeepsCovered EntitiesKeepPromise
CHECK_DEADLOCK FALSE
