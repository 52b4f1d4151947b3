\* Two browsers, two tickets, the rights of one organisation.  A step of time is an hour for
\* the sessions; of the hierarchy the whole outlives a slice and a slice outlives a step, so
\* that a slice is cut from any age of the whole and used at any age of its own.
CONSTANTS
    NoTicket = NoTicket
    Users = {u1, u2}
    Tickets = {t1, t2}
    Organisations = {o1}
    SessionAge = 1
    StoreAwait = 1
    CleanupAge = 2
    HierarchyAge = 3
    SliceAge = 2
SPECIFICATION Spec
INVARIANTS TypeOK RightsAreRecent HierarchyIsRecent
PROPERTIES LoggedOutStaysOut SessionsGo
