\* Two saves at a time, three altogether, of a small tree of entities.
CONSTANTS
    k = k
    t = t
    oj = oj
    h = h
    a = a
    s = s
    r1 = r1
    r2 = r2
    Koulutukset = {k}
    Toteutukset = {t, oj}
    Hakukohteet = {h}
    Haut = {a}
    Valintaperusteet = {}
    Sorakuvaukset = {s}
    Liitettavat = {oj}
    Bodies <- MCBodies
    Initial <- MCInitial
    Requests = {r1, r2}
    MaxSaves = 3
SPECIFICATION Spec
INVARIANT TypeOK
PROPERTIES AloneKeepsDependencies AloneKeepsPublished PoistettuIsFinal MovingTarjoajatFindsKoulutus EntitiesKeepPromise

SYMMETRY Symmetry
CHECK_DEADLOCK FALSE
