-------------------------------- MODULE Istunnot -------------------------------
(***************************************************************************)
(* Sessions.  A browser comes back from CAS with a ticket; the server has  *)
(* CAS validate it, which tells the rights of the person, and stores a     *)
(* session, waiting for the transaction a minute and no longer: the        *)
(* transaction goes on when the wait has ended.  CAS posts the ticket when *)
(* the person logs out.  A session counts for an hour from its storing,    *)
(* and a job of the database deletes it two days later.                    *)
(*                                                                         *)
(* A session is named by the ticket it was made for, since CAS accepts a   *)
(* ticket once; the id in the cookie is as unique.  Time goes in steps, by *)
(* Aging, and ages stop where they no longer matter.  The module has no    *)
(* specification of its own: Paasy composes it.                            *)
(***************************************************************************)
EXTENDS Naturals

CONSTANTS
    Users,          \* browsers, each with its cookie
    Tickets,        \* that CAS gives them
    NoTicket,
    SessionAge,     \* how long a session counts
    StoreAwait,     \* how long a login waits for its transaction
    CleanupAge      \* how old a session the job deletes

ASSUME SessionAssumption ==
    /\ NoTicket \notin Tickets
    /\ SessionAge \in Nat \ {0} /\ StoreAwait \in Nat /\ CleanupAge \in Nat
    /\ SessionAge <= CleanupAge

VARIABLES
    cookie,         \* the session each browser's cookie names
    login,          \* the login each browser waits for
    session,        \* of each ticket: its row, its age, and that of its rights
    loggedOut,      \* tickets whose logout was handled
    missed          \* those whose session was not stored then

sessionVars == <<cookie, login, session, loggedOut, missed>>

RightsBound == SessionAge + StoreAwait
Rows == {"none", "storing", "stored", "gone"}
Sessions == [row : Rows, created : 0 .. CleanupAge, rights : 0 .. RightsBound]
Logins == [ticket : Tickets \cup {NoTicket}, waited : 0 .. StoreAwait]

NoLogin == [ticket |-> NoTicket, waited |-> 0]
Gone == [row |-> "gone", created |-> 0, rights |-> 0]
Older(age, bound) == IF age < bound THEN age + 1 ELSE age

SessionsInit ==
    /\ cookie = [u \in Users |-> NoTicket]
    /\ login = [u \in Users |-> NoLogin]
    /\ session = [t \in Tickets |-> [row |-> "none", created |-> 0, rights |-> 0]]
    /\ loggedOut = {} /\ missed = {}

(* SessionDAO.get finds it. *)
Valid(t) == t \in Tickets /\ session[t].row = "stored" /\ session[t].created < SessionAge

(* CAS accepts the ticket and tells the rights; a session that counts is *)
(* kept instead.                                                         *)
Login(u, t) ==
    /\ login[u] = NoLogin /\ ~Valid(cookie[u])
    /\ session[t].row = "none"
    /\ session' = [session EXCEPT ![t].row = "storing"]
    /\ login' = [login EXCEPT ![u] = [ticket |-> t, waited |-> 0]]
    /\ UNCHANGED <<cookie, loggedOut, missed>>

(* The transaction commits, whether or not somebody still waits for it. *)
Store(t) ==
    /\ session[t].row = "storing"
    /\ session' = [session EXCEPT ![t].row = "stored"]
    /\ UNCHANGED <<cookie, login, loggedOut, missed>>

StoreFails(t) ==
    /\ session[t].row = "storing"
    /\ session' = [session EXCEPT ![t] = Gone]
    /\ login' = [u \in Users |-> IF login[u].ticket = t THEN NoLogin ELSE login[u]]
    /\ UNCHANGED <<cookie, loggedOut, missed>>

LoggedIn_Unstored(u) ==                                          \* faulty
    /\ login[u] # NoLogin
    /\ session[login[u].ticket].row \in {"storing", "stored", "gone"}
    /\ cookie' = [cookie EXCEPT ![u] = login[u].ticket]
    /\ login' = [login EXCEPT ![u] = NoLogin]
    /\ UNCHANGED <<session, loggedOut, missed>>

(* Await has its result; a logout may already have deleted the session. *)
LoggedIn(u) ==
    /\ login[u] # NoLogin
    /\ session[login[u].ticket].row \in {"stored", "gone"}
    /\ cookie' = [cookie EXCEPT ![u] = login[u].ticket]
    /\ login' = [login EXCEPT ![u] = NoLogin]
    /\ UNCHANGED <<session, loggedOut, missed>>

LoginTimeout(u) ==
    /\ login[u] # NoLogin /\ login[u].waited = StoreAwait
    /\ login' = [login EXCEPT ![u] = NoLogin]
    /\ UNCHANGED <<cookie, session, loggedOut, missed>>

(* CAS posts a ticket it has accepted. *)
Logout(t) ==
    /\ session[t].row # "none" /\ t \notin loggedOut
    /\ session' = [session EXCEPT ![t] = IF @.row = "stored" THEN Gone ELSE @]
    /\ loggedOut' = loggedOut \cup {t}
    /\ missed' = IF session[t].row = "storing" THEN missed \cup {t} ELSE missed
    /\ UNCHANGED <<cookie, login>>

Cleanup_OfOwners ==                                              \* faulty
    LET old == {t \in Tickets : session[t].row = "stored" /\ session[t].created = CleanupAge
                                /\ \E u \in Users : cookie[u] = t} IN
    /\ old # {}
    /\ session' = [t \in Tickets |-> IF t \in old THEN Gone ELSE session[t]]
    /\ UNCHANGED <<cookie, login, loggedOut, missed>>

(* session-cleanup, by pg_cron. *)
Cleanup ==
    LET old == {t \in Tickets : session[t].row = "stored" /\ session[t].created = CleanupAge} IN
    /\ old # {}
    /\ session' = [t \in Tickets |-> IF t \in old THEN Gone ELSE session[t]]
    /\ UNCHANGED <<cookie, login, loggedOut, missed>>

(* A step of time, which no wait outlives. *)
SessionsAging ==
    /\ \A u \in Users : login[u] # NoLogin => login[u].waited < StoreAwait
    /\ login' = [u \in Users |->
         IF login[u] = NoLogin THEN NoLogin ELSE [login[u] EXCEPT !.waited = @ + 1]]
    /\ session' = [t \in Tickets |->
         CASE session[t].row = "stored" ->
                [session[t] EXCEPT !.created = Older(@, CleanupAge), !.rights = Older(@, RightsBound)]
           [] session[t].row = "storing" -> [session[t] EXCEPT !.rights = Older(@, RightsBound)]
           [] OTHER -> session[t]]
    /\ UNCHANGED <<cookie, loggedOut, missed>>

(* The server stops, with what it was doing. *)
SessionsRestart ==
    /\ login' = [u \in Users |-> NoLogin]
    /\ session' = [t \in Tickets |-> IF session[t].row = "storing" THEN Gone ELSE session[t]]
    /\ UNCHANGED <<cookie, loggedOut, missed>>

SessionsTypeOK ==
    /\ cookie \in [Users -> Tickets \cup {NoTicket}]
    /\ login \in [Users -> Logins]
    /\ session \in [Tickets -> Sessions]
    /\ loggedOut \in SUBSET Tickets /\ missed \in SUBSET loggedOut
=============================================================================
