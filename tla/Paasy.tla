---------------------------------- MODULE Paasy --------------------------------
(***************************************************************************)
(* What a request is allowed: its session (Istunnot) tells the rights of   *)
(* the person as CAS told them at the login, and the cached hierarchy      *)
(* (Hierarkia) the organisations they reach.  Both are copies of what      *)
(* other services hold, of different ages; a request reads its session     *)
(* once, when it starts, and the hierarchy later, once or for each of the  *)
(* organisations the person has rights in.                                 *)
(***************************************************************************)
EXTENDS Istunnot, Hierarkia

VARIABLE request    \* of each browser: stage, and the ages of what it was allowed by

vars == <<sessionVars, hierarchyVars, request>>

Requests == [stage : {"none", "authenticated", "authorised"},
             rights : 0 .. RightsBound, hierarchy : 0 .. HierarchyAge + SliceAge]

NoRequest == [stage |-> "none", rights |-> 0, hierarchy |-> 0]

Init == SessionsInit /\ HierarchyInit /\ request = [u \in Users |-> NoRequest]

Authenticate_Remembered(u) ==                                    \* faulty
    /\ request[u] = NoRequest
    /\ cookie[u] \in Tickets /\ session[cookie[u]].row \in {"stored", "gone"}
    /\ session[cookie[u]].created < SessionAge
    /\ request' = [request EXCEPT ![u] =
         [stage |-> "authenticated", rights |-> session[cookie[u]].rights, hierarchy |-> 0]]
    /\ UNCHANGED <<sessionVars, hierarchyVars>>

(* CasAuthenticatedServlet.authenticate: the session is read once. *)
Authenticate(u) ==
    /\ request[u] = NoRequest /\ Valid(cookie[u])
    /\ request' = [request EXCEPT ![u] =
         [stage |-> "authenticated", rights |-> session[cookie[u]].rights, hierarchy |-> 0]]
    /\ UNCHANGED <<sessionVars, hierarchyVars>>

(* getAllChildOidsFlat of an organisation of the person's rights *)
Authorise(u) ==
    /\ request[u].stage # "none"
    /\ \E oid \in Organisations :
         /\ ReadHierarchy(oid)
         /\ request' = [request EXCEPT ![u].stage = "authorised", ![u].hierarchy = Found(oid).source]
    /\ UNCHANGED sessionVars

(* The rights of Opetushallitus itself need no hierarchy. *)
AuthoriseRoot(u) ==
    /\ request[u].stage = "authenticated"
    /\ request' = [request EXCEPT ![u].stage = "authorised"]
    /\ UNCHANGED <<sessionVars, hierarchyVars>>

(* Answered; or the hierarchy could not be loaded. *)
End(u) ==
    /\ \/ request[u].stage = "authorised"
       \/ /\ request[u].stage = "authenticated" /\ whole = HierarchyAge
          /\ \E oid \in Organisations : ~Sliced(oid)
    /\ request' = [request EXCEPT ![u] = NoRequest]
    /\ UNCHANGED <<sessionVars, hierarchyVars>>

Tick == SessionsAging /\ HierarchyAging /\ UNCHANGED request

Restart ==
    /\ SessionsRestart /\ HierarchyRestart
    /\ request' = [u \in Users |-> NoRequest]

OfSessions ==
    /\ \/ \E u \in Users : (\E t \in Tickets : Login(u, t)) \/ LoggedIn(u) \/ LoginTimeout(u)
       \/ \E t \in Tickets : Store(t) \/ StoreFails(t) \/ Logout(t)
       \/ Cleanup
    /\ UNCHANGED <<hierarchyVars, request>>

OfHierarchy == ReadWhole /\ UNCHANGED <<sessionVars, request>>

Next == \/ OfSessions \/ OfHierarchy \/ Tick \/ Restart
        \/ \E u \in Users : Authenticate(u) \/ Authorise(u) \/ AuthoriseRoot(u) \/ End(u)

(* Time passes, Await ends, and pg_cron runs. *)
Fairness ==
    /\ WF_vars(Tick)
    /\ WF_vars(Cleanup /\ UNCHANGED <<hierarchyVars, request>>)
    /\ \A u \in Users :
         WF_vars((LoggedIn(u) \/ LoginTimeout(u)) /\ UNCHANGED <<hierarchyVars, request>>)

Spec == Init /\ [][Next]_vars /\ Fairness

-----------------------------------------------------------------------------
(* Properties                                                              *)

(* Types; and what a request was allowed by has an age. *)
TypeOK == SessionsTypeOK /\ HierarchyTypeOK /\ request \in [Users -> Requests]

(* A right CAS no longer tells gives nothing to a request that starts an   *)
(* hour and a login's wait later: neither a login that took long, nor one  *)
(* stored after its caller gave up, nor use of the session makes it older. *)
RightsAreRecent == \A u \in Users :
    request[u].stage # "none" => request[u].rights < RightsBound

(* No request authenticates by a session that a logout has deleted, also   *)
(* when its cookie came after it; only a logout handled before the session *)
(* was stored does nothing.                                                *)
LoggedOutStaysOut ==
    [][\A u \in Users :
         request[u].stage = "none" /\ request'[u].stage = "authenticated"
           => cookie[u] \notin loggedOut \ missed]_vars

(* An organisation that has moved is where it was to no request later than *)
(* the two caches together keep it: a slice cut from a whole that is about *)
(* to expire outlives it, by its own time and no longer, however often it  *)
(* is read.                                                                *)
HierarchyIsRecent == \A u \in Users :
    request[u].stage = "authorised" => request[u].hierarchy < HierarchyAge + SliceAge

(* Every session is deleted, also one nobody has the cookie of, or whose   *)
(* logout came before it.                                                  *)
SessionsGo == \A t \in Tickets : session[t].row = "stored" ~> session[t].row = "gone"
=============================================================================
