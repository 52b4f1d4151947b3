\* A deletion beside a save of what names the entity.
CONSTANTS
    k = k
    t = t
    oj = oj
    h = h
    a = a
    s = s
    r1 = r1
    r2 = r2
    Koulutukset = {k}
    Toteutukset = {t, oj}
    Hakukohteet = {h}
    Haut = {a}
    Valintaperusteet = {}
    Sorakuvaukset = {s}
    Liitettavat = {oj}
    Bodies <- MCBodies
    Initial <- MCInitial
    Requests = {r1, r2}
    MaxSaves = 2
SPECIFICATION Spec
INVARIANT NoOrphans
SYMMETRY Symmetry
CHECK_DEADLOCK FALSE
