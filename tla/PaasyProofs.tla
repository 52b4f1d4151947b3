------------------------------- MODULE PaasyProofs -----------------------------
(***************************************************************************)
(* For any browsers, tickets and ages: what a request is allowed by is     *)
(* recent, and a session that was logged out is not used again.            *)
(***************************************************************************)
EXTENDS Paasy, TLAPS

(* The rights of a session are older than it by no more than a login waits, *)
(* if its login is waited for or a browser has its cookie.                  *)
Near(t) ==
    /\ session[t].row \in {"storing", "stored", "gone"}
    /\ session[t].row = "stored" => session[t].rights <= session[t].created + StoreAwait

LoginKnown(u) == login[u] # NoLogin =>
    /\ login[u].ticket \in Tickets
    /\ Near(login[u].ticket)
    /\ session[login[u].ticket].row = "storing" =>
         session[login[u].ticket].rights <= login[u].waited

CookieKnown(u) == cookie[u] # NoTicket => Near(cookie[u]) /\ session[cookie[u]].row # "storing"

Fresh(t) == session[t].row = "none" => session[t].rights = 0
EndedIsGone(t) == t \in loggedOut \ missed => session[t].row = "gone"

SInv ==
    /\ SessionsTypeOK
    /\ \A t \in Tickets : Fresh(t) /\ EndedIsGone(t)
    /\ \A u \in Users : LoginKnown(u) /\ CookieKnown(u)

-----------------------------------------------------------------------------
(* Records *)

LEMMA NoLoginIsLogin == NoLogin \in Logins /\ NoLogin.ticket = NoTicket /\ NoLogin.waited = 0
BY SessionAssumption DEF NoLogin, Logins

LEMMA GoneIsSession == Gone \in Sessions /\ Gone.row = "gone"
BY SessionAssumption DEF Gone, Sessions, Rows, RightsBound

LEMMA NoRequestIsRequest ==
    NoRequest \in Requests /\ NoRequest.stage = "none" /\ NoRequest.hierarchy = 0
BY SessionAssumption, HierarchyAssumption DEF NoRequest, Requests, RightsBound

LEMMA SessionFields ==
    ASSUME NEW s \in Sessions
    PROVE  /\ s.row \in Rows /\ s.created \in 0 .. CleanupAge /\ s.rights \in 0 .. RightsBound
           /\ \A r \in Rows : /\ [s EXCEPT !.row = r] \in Sessions
                              /\ [s EXCEPT !.row = r].row = r
                              /\ [s EXCEPT !.row = r].created = s.created
                              /\ [s EXCEPT !.row = r].rights = s.rights
BY DEF Sessions

LEMMA LoginFields ==
    ASSUME NEW l \in Logins
    PROVE  l.ticket \in Tickets \cup {NoTicket} /\ l.waited \in 0 .. StoreAwait
BY DEF Logins

LEMMA Ageing ==
    ASSUME NEW b \in Nat, NEW age \in 0 .. b
    PROVE  Older(age, b) \in 0 .. b /\ Older(age, b) <= age + 1 /\ age <= Older(age, b)
           /\ (age < b => Older(age, b) = age + 1) /\ (age = b => Older(age, b) = b)
BY DEF Older

-----------------------------------------------------------------------------
(* Sessions *)

(* A session whose row and ages stay as near stays near. *)
LEMMA StoringOlder ==
    ASSUME NEW s \in Sessions
    PROVE  LET o == [s EXCEPT !.rights = Older(@, RightsBound)] IN
           /\ o \in Sessions /\ o.row = s.row /\ o.created = s.created
           /\ o.rights <= s.rights + 1
<1>1. RightsBound \in Nat
  BY SessionAssumption DEF RightsBound
<1>2. Older(s.rights, RightsBound) \in 0 .. RightsBound
      /\ Older(s.rights, RightsBound) <= s.rights + 1
  BY <1>1, SessionFields, Ageing
<1> QED BY <1>2 DEF Sessions

LEMMA StoredOlder ==
    ASSUME NEW s \in Sessions
    PROVE  LET o == [s EXCEPT !.created = Older(@, CleanupAge), !.rights = Older(@, RightsBound)] IN
           /\ o \in Sessions /\ o.row = s.row
           /\ s.rights <= s.created + StoreAwait => o.rights <= o.created + StoreAwait
<1>1. RightsBound \in Nat /\ CleanupAge \in Nat /\ StoreAwait \in Nat /\ SessionAge \in Nat
      /\ SessionAge <= CleanupAge /\ RightsBound = SessionAge + StoreAwait
  BY SessionAssumption DEF RightsBound
<1>2. /\ Older(s.rights, RightsBound) \in 0 .. RightsBound
      /\ Older(s.rights, RightsBound) <= s.rights + 1
  BY <1>1, SessionFields, Ageing
<1>3. /\ Older(s.created, CleanupAge) \in 0 .. CleanupAge
      /\ s.created < CleanupAge => Older(s.created, CleanupAge) = s.created + 1
      /\ s.created = CleanupAge => Older(s.created, CleanupAge) = CleanupAge
  BY <1>1, SessionFields, Ageing
<1>4. s.created \in 0 .. CleanupAge /\ s.rights \in 0 .. RightsBound
  BY SessionFields
<1>5. ASSUME s.rights <= s.created + StoreAwait
      PROVE  Older(s.rights, RightsBound) <= Older(s.created, CleanupAge) + StoreAwait
  BY <1>1, <1>2, <1>3, <1>4, <1>5
<1> QED BY <1>2, <1>3, <1>5 DEF Sessions

LEMMA SessionsStart == SessionsInit => SInv
<1> SUFFICES ASSUME SessionsInit PROVE SInv
  OBVIOUS
<1>1. [row |-> "none", created |-> 0, rights |-> 0] \in Sessions
  BY SessionAssumption DEF Sessions, Rows, RightsBound
<1>2. SessionsTypeOK
  BY <1>1, NoLoginIsLogin DEF SessionsInit, SessionsTypeOK
<1>3. \A t \in Tickets : session[t].rights = 0
  BY DEF SessionsInit
<1> QED BY <1>2, <1>3 DEF SInv, SessionsInit, Fresh, EndedIsGone, LoginKnown, CookieKnown

(* What an action that leaves the sessions and their logouts keeps. *)
LEMMA SessionsStay ==
    ASSUME SInv, UNCHANGED <<session, loggedOut, missed>>
    PROVE  /\ \A t \in Tickets : Fresh(t)' /\ EndedIsGone(t)' /\ (Near(t) => Near(t)')
           /\ session' \in [Tickets -> Sessions]
           /\ loggedOut' \in SUBSET Tickets /\ missed' \in SUBSET loggedOut'
BY DEF SInv, SessionsTypeOK, Fresh, EndedIsGone, Near

(* A browser that waits for nothing any more keeps the others' logins known. *)
LEMMA Known ==
    ASSUME SInv, NEW u \in Users
    PROVE  /\ login[u] \in Logins /\ cookie[u] \in Tickets \cup {NoTicket}
           /\ login[u].ticket = NoTicket \/ login[u].ticket \in Tickets
           /\ login[u] # NoLogin => login[u].ticket \in Tickets /\ login[u].ticket # NoTicket
<1>1. login[u] \in Logins /\ cookie[u] \in Tickets \cup {NoTicket}
  BY DEF SInv, SessionsTypeOK
<1>2. login[u].ticket \in Tickets \cup {NoTicket}
  BY <1>1, LoginFields
<1>3. login[u] # NoLogin => login[u].ticket \in Tickets
  BY DEF SInv, LoginKnown
<1> QED BY <1>1, <1>2, <1>3, SessionAssumption

LEMMA LoginStep ==
    ASSUME SInv, NEW u \in Users, NEW t \in Tickets, Login(u, t)
    PROVE  SInv'
<1> DEFINE new == [ticket |-> t, waited |-> 0]
<1>1. /\ session[t] \in Sessions /\ session[t].row = "none" /\ session[t].rights = 0
      /\ session' = [session EXCEPT ![t].row = "storing"]
      /\ login' = [login EXCEPT ![u] = new]
      /\ cookie' = cookie /\ loggedOut' = loggedOut /\ missed' = missed
  BY DEF Login, SInv, SessionsTypeOK, Fresh
<1>2. "storing" \in Rows /\ new \in Logins /\ new.ticket = t /\ new.waited = 0
  BY SessionAssumption DEF Rows, Logins
<1>3. session \in [Tickets -> Sessions]
  BY DEF SInv, SessionsTypeOK
<1>4. /\ session'[t] \in Sessions /\ session'[t].row = "storing" /\ session'[t].rights = 0
      /\ \A x \in Tickets : x # t => session'[x] = session[x]
      /\ session' \in [Tickets -> Sessions]
  <2>1. session'[t] = [session[t] EXCEPT !.row = "storing"]
    BY <1>1, <1>3
  <2>a. LET o == [session[t] EXCEPT !.row = "storing"] IN
        o \in Sessions /\ o.row = "storing" /\ o.rights = session[t].rights
    BY <1>1, <1>2, SessionFields
  <2>2. session'[t] \in Sessions /\ session'[t].row = "storing" /\ session'[t].rights = 0
    BY <1>1, <2>1, <2>a
  <2>3. \A x \in Tickets : x # t => session'[x] = session[x]
    BY <1>1, <1>3
  <2>4. session' = [x \in Tickets |-> session'[x]]
    BY <1>1, <1>3
  <2> QED BY <1>3, <2>2, <2>3, <2>4
<1>5. SessionsTypeOK'
  BY <1>1, <1>2, <1>4 DEF SInv, SessionsTypeOK
<1>6. ASSUME NEW x \in Tickets
      PROVE  Fresh(x)' /\ EndedIsGone(x)'
  BY <1>1, <1>4, <1>6 DEF SInv, Fresh, EndedIsGone
<1>7. ASSUME NEW x \in Tickets, Near(x)
      PROVE  x # t /\ Near(x)' /\ session'[x] = session[x]
  BY <1>1, <1>4, <1>7 DEF Near
<1>8. ASSUME NEW v \in Users
      PROVE  LoginKnown(v)'
  <2>1. CASE v = u
    <3>1. login'[v] = new
      BY <1>1, <2>1 DEF SInv, SessionsTypeOK
    <3>2. Near(t)'
      BY <1>4 DEF Near
    <3> QED BY <1>2, <1>4, <3>1, <3>2 DEF LoginKnown
  <2>2. CASE v # u
    <3>1. login'[v] = login[v]
      BY <1>1, <2>2 DEF SInv, SessionsTypeOK
    <3> QED BY <1>7, <3>1, Known DEF SInv, LoginKnown
  <2> QED BY <2>1, <2>2
<1>9. ASSUME NEW v \in Users
      PROVE  CookieKnown(v)'
  BY <1>1, <1>7, <1>9, Known DEF SInv, CookieKnown
<1> QED BY <1>5, <1>6, <1>8, <1>9 DEF SInv

LEMMA StoreStep ==
    ASSUME SInv, NEW t \in Tickets, Store(t)
    PROVE  SInv'
<1>1. /\ session[t] \in Sessions /\ session[t].row = "storing"
      /\ session' = [session EXCEPT ![t].row = "stored"]
      /\ login' = login /\ cookie' = cookie /\ loggedOut' = loggedOut /\ missed' = missed
  BY DEF Store, SInv, SessionsTypeOK
<1>2. "stored" \in Rows /\ session \in [Tickets -> Sessions]
  BY DEF Rows, SInv, SessionsTypeOK
<1>3. /\ session'[t] \in Sessions /\ session'[t].row = "stored"
      /\ session'[t].rights = session[t].rights /\ session'[t].created = session[t].created
      /\ \A x \in Tickets : x # t => session'[x] = session[x]
      /\ session' \in [Tickets -> Sessions]
  <2>1. session'[t] = [session[t] EXCEPT !.row = "stored"]
    BY <1>1, <1>2
  <2>2. /\ session'[t] \in Sessions /\ session'[t].row = "stored"
        /\ session'[t].rights = session[t].rights /\ session'[t].created = session[t].created
    BY <1>1, <1>2, <2>1, SessionFields
  <2>3. \A x \in Tickets : x # t => session'[x] = session[x]
    BY <1>1, <1>2
  <2>4. session' = [x \in Tickets |-> session'[x]]
    BY <1>1, <1>2
  <2> QED BY <1>2, <2>2, <2>3, <2>4
<1>4. SessionsTypeOK'
  BY <1>1, <1>3 DEF SInv, SessionsTypeOK
<1>5. ASSUME NEW x \in Tickets
      PROVE  Fresh(x)' /\ EndedIsGone(x)'
  BY <1>1, <1>3, <1>5 DEF SInv, Fresh, EndedIsGone
<1>6. ASSUME NEW v \in Users
      PROVE  LoginKnown(v)'
  <2>1. CASE login[v] # NoLogin /\ login[v].ticket = t
    <3>1. /\ session[t].rights <= login[v].waited /\ login[v].waited \in 0 .. StoreAwait
          /\ session[t].created \in 0 .. CleanupAge /\ session[t].rights \in 0 .. RightsBound
      BY <1>1, <2>1, Known, LoginFields, SessionFields DEF SInv, LoginKnown
    <3>2. session'[t].rights <= session'[t].created + StoreAwait
      <4>1. StoreAwait \in Nat /\ CleanupAge \in Nat /\ RightsBound \in Nat
        BY SessionAssumption DEF RightsBound
      <4> QED BY <1>3, <3>1, <4>1
    <3>3. Near(t)'
      BY <1>3, <3>2 DEF Near
    <3> QED BY <1>1, <1>3, <2>1, <3>3 DEF LoginKnown
  <2>2. CASE login[v] # NoLogin /\ login[v].ticket # t
    BY <1>1, <1>3, <2>2, Known DEF SInv, LoginKnown, Near
  <2> QED BY <1>1, <2>1, <2>2 DEF LoginKnown
<1>7. ASSUME NEW v \in Users
      PROVE  CookieKnown(v)'
  BY <1>1, <1>3, <1>7, Known DEF SInv, CookieKnown, Near
<1> QED BY <1>4, <1>5, <1>6, <1>7 DEF SInv

(* Sessions that go, some of them, and stay as they are, the others. *)
LEMMA Going ==
    ASSUME SInv, session' \in [Tickets -> Sessions],
           \A x \in Tickets : session'[x] = session[x] \/ session'[x] = Gone
    PROVE  /\ \A x \in Tickets : Fresh(x)' /\ (session[x].row = "gone" => session'[x].row = "gone")
           /\ \A x \in Tickets : Near(x) => Near(x)'
           /\ \A x \in Tickets : session'[x].row = "storing" => session'[x] = session[x]
<1>1. Gone.row = "gone"
  BY GoneIsSession
<1>2. \A x \in Tickets : Fresh(x)
  BY DEF SInv
<1>3. ASSUME NEW x \in Tickets
      PROVE  Fresh(x)' /\ (session[x].row = "gone" => session'[x].row = "gone")
  <2>1. CASE session'[x] = session[x]
    BY <1>2, <2>1 DEF Fresh
  <2>2. CASE session'[x] = Gone
    BY <1>1, <2>2 DEF Fresh
  <2> QED BY <2>1, <2>2
<1>4. ASSUME NEW x \in Tickets, Near(x)
      PROVE  Near(x)'
  <2>1. CASE session'[x] = session[x]
    BY <1>4, <2>1 DEF Near
  <2>2. CASE session'[x] = Gone
    BY <1>1, <2>2 DEF Near
  <2> QED BY <2>1, <2>2
<1> QED BY <1>1, <1>3, <1>4

LEMMA GoingKnown ==
    ASSUME SInv, session' \in [Tickets -> Sessions],
           \A x \in Tickets : session'[x] = session[x] \/ session'[x] = Gone,
           \A u \in Users : login'[u] = login[u] \/ login'[u] = NoLogin,
           UNCHANGED cookie
    PROVE  \A u \in Users : LoginKnown(u)' /\ CookieKnown(u)'
<1>1. ASSUME NEW u \in Users
      PROVE  LoginKnown(u)'
  <2>1. CASE login'[u] # NoLogin
    <3>1. login'[u] = login[u] /\ login[u].ticket \in Tickets /\ Near(login[u].ticket)
      BY <2>1, Known DEF SInv, LoginKnown
    <3>2. Near(login[u].ticket)'
          /\ (session'[login[u].ticket].row = "storing"
                => session'[login[u].ticket] = session[login[u].ticket])
      BY <3>1, Going DEF Near
    <3> QED BY <2>1, <3>1, <3>2 DEF SInv, LoginKnown
  <2> QED BY <2>1 DEF LoginKnown
<1>2. ASSUME NEW u \in Users
      PROVE  CookieKnown(u)'
  <2>1. CASE cookie[u] \in Tickets
    <3>1. cookie'[u] = cookie[u] /\ Near(cookie[u]) /\ session[cookie[u]].row # "storing"
      BY <2>1, SessionAssumption DEF SInv, CookieKnown
    <3>2. Near(cookie[u])' /\ session'[cookie[u]].row # "storing"
      BY <2>1, <3>1, Going DEF Near
    <3> QED BY <3>1, <3>2 DEF CookieKnown
  <2> QED BY <2>1, Known DEF CookieKnown
<1> QED BY <1>1, <1>2

LEMMA StoreFailsStep ==
    ASSUME SInv, NEW t \in Tickets, StoreFails(t)
    PROVE  SInv'
<1>1. /\ session \in [Tickets -> Sessions] /\ login \in [Users -> Logins]
      /\ session' = [session EXCEPT ![t] = Gone]
      /\ login' = [u \in Users |-> IF login[u].ticket = t THEN NoLogin ELSE login[u]]
      /\ cookie' = cookie /\ loggedOut' = loggedOut /\ missed' = missed
  BY DEF StoreFails, SInv, SessionsTypeOK
<1>2. session' \in [Tickets -> Sessions] /\ login' \in [Users -> Logins]
  BY <1>1, GoneIsSession, NoLoginIsLogin
<1>3. \A x \in Tickets : session'[x] = session[x] \/ session'[x] = Gone
  BY <1>1
<1>4. \A u \in Users : login'[u] = login[u] \/ login'[u] = NoLogin
  BY <1>1
<1>5. \A u \in Users : LoginKnown(u)' /\ CookieKnown(u)'
  BY <1>1, <1>2, <1>3, <1>4, GoingKnown
<1>6. \A x \in Tickets : Fresh(x)' /\ EndedIsGone(x)'
  BY <1>1, <1>2, <1>3, Going DEF SInv, EndedIsGone
<1>7. SessionsTypeOK'
  BY <1>1, <1>2 DEF SInv, SessionsTypeOK
<1> QED BY <1>5, <1>6, <1>7 DEF SInv

LEMMA LogoutStep ==
    ASSUME SInv, NEW t \in Tickets, Logout(t)
    PROVE  SInv'
<1>1. /\ session \in [Tickets -> Sessions] /\ session[t].row # "none"
      /\ session' = [session EXCEPT ![t] = IF session[t].row = "stored" THEN Gone ELSE session[t]]
      /\ loggedOut' = loggedOut \cup {t}
      /\ missed' = IF session[t].row = "storing" THEN missed \cup {t} ELSE missed
      /\ cookie' = cookie /\ login' = login
  <2>1. session' = [session EXCEPT ![t] = IF session[t].row = "stored" THEN Gone ELSE session[t]]
    BY DEF Logout
  <2>2. session \in [Tickets -> Sessions]
    BY DEF SInv, SessionsTypeOK
  <2> QED BY <2>1, <2>2 DEF Logout
<1>2. session' \in [Tickets -> Sessions]
  BY <1>1, GoneIsSession
<1>3. \A x \in Tickets : session'[x] = session[x] \/ session'[x] = Gone
  BY <1>1
<1>4. \A u \in Users : LoginKnown(u)' /\ CookieKnown(u)'
  BY <1>1, <1>2, <1>3, GoingKnown
<1>5. session[t].row \in {"storing", "stored", "gone"}
  <2>1. session[t] \in Sessions
    BY <1>1
  <2>2. session[t].row \in Rows
    BY <2>1, SessionFields
  <2> QED BY <1>1, <2>2 DEF Rows
<1>6. ASSUME NEW x \in Tickets
      PROVE  EndedIsGone(x)'
  <2>1. CASE x = t
    BY <1>1, <1>5, <2>1, GoneIsSession DEF EndedIsGone
  <2>2. CASE x # t
    <3>1. x \in loggedOut' \ missed' => x \in loggedOut \ missed
      BY <1>1, <2>2
    <3> QED BY <1>2, <1>3, <3>1, Going DEF SInv, EndedIsGone
  <2> QED BY <2>1, <2>2
<1>7. SessionsTypeOK'
  BY <1>1, <1>2 DEF SInv, SessionsTypeOK
<1>8. \A x \in Tickets : Fresh(x)'
  BY <1>2, <1>3, Going
<1> QED BY <1>4, <1>6, <1>7, <1>8 DEF SInv

LEMMA CleanupStep ==
    ASSUME SInv, Cleanup
    PROVE  SInv'
<1> DEFINE old == {t \in Tickets : session[t].row = "stored" /\ session[t].created = CleanupAge}
<1>1. /\ session \in [Tickets -> Sessions] /\ login \in [Users -> Logins]
      /\ session' = [t \in Tickets |-> IF t \in old THEN Gone ELSE session[t]]
      /\ login' = login /\ cookie' = cookie /\ loggedOut' = loggedOut /\ missed' = missed
  BY DEF Cleanup, SInv, SessionsTypeOK
<1> HIDE DEF old
<1>2. session' \in [Tickets -> Sessions]
  BY <1>1, GoneIsSession
<1>3. \A x \in Tickets : session'[x] = session[x] \/ session'[x] = Gone
  BY <1>1
<1>5. \A u \in Users : LoginKnown(u)' /\ CookieKnown(u)'
  BY <1>1, <1>2, <1>3, GoingKnown
<1>6. \A x \in Tickets : Fresh(x)' /\ EndedIsGone(x)'
  BY <1>1, <1>2, <1>3, Going DEF SInv, EndedIsGone
<1>7. SessionsTypeOK'
  BY <1>1, <1>2 DEF SInv, SessionsTypeOK
<1> QED BY <1>5, <1>6, <1>7 DEF SInv

LEMMA RestartStep ==
    ASSUME SInv, SessionsRestart
    PROVE  SInv'
<1>1. /\ session \in [Tickets -> Sessions]
      /\ session' = [t \in Tickets |-> IF session[t].row = "storing" THEN Gone ELSE session[t]]
      /\ login' = [u \in Users |-> NoLogin]
      /\ cookie' = cookie /\ loggedOut' = loggedOut /\ missed' = missed
  BY DEF SessionsRestart, SInv, SessionsTypeOK
<1>2. session' \in [Tickets -> Sessions] /\ login' \in [Users -> Logins]
  BY <1>1, GoneIsSession, NoLoginIsLogin
<1>3. \A x \in Tickets : session'[x] = session[x] \/ session'[x] = Gone
  BY <1>1
<1>4. \A u \in Users : login'[u] = login[u] \/ login'[u] = NoLogin
  BY <1>1
<1>5. \A u \in Users : LoginKnown(u)' /\ CookieKnown(u)'
  BY <1>1, <1>2, <1>3, <1>4, GoingKnown
<1>6. \A x \in Tickets : Fresh(x)' /\ EndedIsGone(x)'
  BY <1>1, <1>2, <1>3, Going DEF SInv, EndedIsGone
<1>7. SessionsTypeOK'
  BY <1>1, <1>2 DEF SInv, SessionsTypeOK
<1> QED BY <1>5, <1>6, <1>7 DEF SInv

(* The login is answered, or no longer waited for. *)
LEMMA AnswerStep ==
    ASSUME SInv, NEW u \in Users, LoggedIn(u) \/ LoginTimeout(u)
    PROVE  SInv'
<1>1. /\ session' = session /\ loggedOut' = loggedOut /\ missed' = missed
      /\ login' = [login EXCEPT ![u] = NoLogin]
      /\ cookie' = cookie
         \/ /\ cookie' = [cookie EXCEPT ![u] = login[u].ticket]
            /\ session[login[u].ticket].row \in {"stored", "gone"}
      /\ login[u] # NoLogin
  BY DEF LoggedIn, LoginTimeout
<1>2. /\ cookie \in [Users -> Tickets \cup {NoTicket}] /\ login \in [Users -> Logins]
  BY DEF SInv, SessionsTypeOK
<1>3. login[u].ticket \in Tickets /\ Near(login[u].ticket)
  BY <1>1, Known DEF SInv, LoginKnown
<1>4. cookie' \in [Users -> Tickets \cup {NoTicket}] /\ login' \in [Users -> Logins]
  BY <1>1, <1>2, <1>3, NoLoginIsLogin
<1>5. ASSUME NEW v \in Users
      PROVE  LoginKnown(v)' /\ CookieKnown(v)'
  <2>1. LoginKnown(v)'
    <3>1. login'[v] = login[v] \/ login'[v] = NoLogin
      BY <1>1, <1>2
    <3> QED BY <1>1, <3>1 DEF SInv, LoginKnown, Near
  <2>2. CookieKnown(v)'
    <3>1. \/ cookie'[v] = cookie[v]
          \/ cookie'[v] = login[u].ticket /\ session[login[u].ticket].row \in {"stored", "gone"}
      BY <1>1, <1>2
    <3>2. CASE cookie'[v] = cookie[v]
      BY <1>1, <3>2 DEF SInv, CookieKnown, Near
    <3>3. CASE cookie'[v] = login[u].ticket /\ session[login[u].ticket].row \in {"stored", "gone"}
      BY <1>1, <1>3, <3>3 DEF CookieKnown, Near
    <3> QED BY <3>1, <3>2, <3>3
  <2> QED BY <2>1, <2>2
<1>6. SessionsTypeOK' /\ \A x \in Tickets : Fresh(x)' /\ EndedIsGone(x)'
  BY <1>1, <1>4, SessionsStay DEF SInv, SessionsTypeOK
<1> QED BY <1>5, <1>6 DEF SInv

LEMMA SessionsAgingStep ==
    ASSUME SInv, SessionsAging
    PROVE  SInv'
<1>1. /\ session \in [Tickets -> Sessions] /\ login \in [Users -> Logins]
      /\ cookie' = cookie /\ loggedOut' = loggedOut /\ missed' = missed
      /\ \A u \in Users : login[u] # NoLogin => login[u].waited < StoreAwait
  BY DEF SessionsAging, SInv, SessionsTypeOK
<1>2. \A u \in Users :
        login'[u] = IF login[u] = NoLogin THEN NoLogin ELSE [login[u] EXCEPT !.waited = login[u].waited + 1]
  BY DEF SessionsAging
<1>3. ASSUME NEW t \in Tickets
      PROVE  /\ session'[t] \in Sessions /\ session'[t].row = session[t].row
             /\ session[t].row = "none" => session'[t] = session[t]
             /\ session[t].row = "storing" => session'[t].rights <= session[t].rights + 1
             /\ Near(t) => Near(t)'
  <2>1. session[t] \in Sessions
    BY <1>1
  <2>2. CASE session[t].row = "stored"
    <3>1. session'[t] = [session[t] EXCEPT !.created = Older(@, CleanupAge),
                                           !.rights = Older(@, RightsBound)]
      BY <2>2 DEF SessionsAging
    <3>2. /\ session'[t] \in Sessions /\ session'[t].row = session[t].row
          /\ session[t].rights <= session[t].created + StoreAwait
               => session'[t].rights <= session'[t].created + StoreAwait
      BY <2>1, <3>1, StoredOlder
    <3> QED BY <2>2, <3>2 DEF Near
  <2>3. CASE session[t].row = "storing"
    <3>1. session'[t] = [session[t] EXCEPT !.rights = Older(@, RightsBound)]
      BY <2>3 DEF SessionsAging
    <3>2. /\ session'[t] \in Sessions /\ session'[t].row = session[t].row
          /\ session'[t].rights <= session[t].rights + 1
      BY <2>1, <3>1, StoringOlder
    <3> QED BY <2>3, <3>2 DEF Near
  <2>4. CASE session[t].row \notin {"stored", "storing"}
    <3>1. session'[t] = session[t]
      BY <2>4 DEF SessionsAging
    <3> QED BY <2>1, <2>4, <3>1 DEF Near
  <2> QED BY <2>2, <2>3, <2>4
<1>4. ASSUME NEW u \in Users, login[u] # NoLogin
      PROVE  /\ login'[u] \in Logins /\ login'[u].ticket = login[u].ticket
             /\ login'[u].waited = login[u].waited + 1
  <2>1. login[u] \in Logins /\ login[u].waited < StoreAwait /\ StoreAwait \in Nat
    BY <1>1, <1>4, SessionAssumption
  <2>2. login'[u] = [login[u] EXCEPT !.waited = login[u].waited + 1]
    BY <1>2, <1>4
  <2> QED BY <2>1, <2>2 DEF Logins
<1>5. ASSUME NEW u \in Users, login[u] = NoLogin
      PROVE  login'[u] = NoLogin
  BY <1>2, <1>5
<1>6. SessionsTypeOK'
  <2>1. session' = [t \in Tickets |-> session'[t]] /\ login' = [u \in Users |-> login'[u]]
    BY DEF SessionsAging
  <2>2. \A u \in Users : login'[u] \in Logins
    BY <1>4, <1>5, NoLoginIsLogin
  <2> QED BY <1>1, <1>3, <2>1, <2>2 DEF SInv, SessionsTypeOK
<1>7. ASSUME NEW t \in Tickets
      PROVE  Fresh(t)' /\ EndedIsGone(t)'
  BY <1>1, <1>3 DEF SInv, Fresh, EndedIsGone
<1>8. ASSUME NEW u \in Users
      PROVE  LoginKnown(u)'
  <2>1. CASE login[u] # NoLogin
    <3> DEFINE t == login[u].ticket
    <3>1. t \in Tickets /\ Near(t) /\ (session[t].row = "storing" => session[t].rights <= login[u].waited)
      BY <2>1 DEF SInv, LoginKnown
    <3>2. login'[u].ticket = t /\ Near(t)' /\ session'[t].row = session[t].row
      BY <1>3, <1>4, <2>1, <3>1
    <3>3. ASSUME session[t].row = "storing"
          PROVE  session'[t].rights <= login'[u].waited
      <4>1. /\ session'[t].rights <= session[t].rights + 1 /\ session[t].rights <= login[u].waited
            /\ login'[u].waited = login[u].waited + 1
        BY <1>3, <1>4, <2>1, <3>1, <3>3
      <4>2. session[t] \in Sessions /\ session'[t] \in Sessions /\ login[u] \in Logins
        BY <1>1, <1>3, <3>1
      <4>3. /\ session[t].rights \in 0 .. RightsBound /\ session'[t].rights \in 0 .. RightsBound
            /\ login[u].waited \in 0 .. StoreAwait
        BY <4>2, SessionFields, LoginFields
      <4>4. RightsBound \in Nat /\ StoreAwait \in Nat
        BY SessionAssumption DEF RightsBound
      <4> HIDE DEF t
      <4> QED BY <4>1, <4>3, <4>4
    <3> QED BY <3>1, <3>2, <3>3 DEF LoginKnown
  <2> QED BY <1>5, <2>1 DEF LoginKnown
<1>9. ASSUME NEW u \in Users
      PROVE  CookieKnown(u)'
  <2>1. CASE cookie[u] \in Tickets
    BY <1>1, <1>3, <2>1, SessionAssumption DEF SInv, CookieKnown
  <2> QED BY <1>1, <2>1, Known DEF CookieKnown
<1> QED BY <1>6, <1>7, <1>8, <1>9 DEF SInv

LEMMA SessionsIdle == ASSUME SInv, UNCHANGED sessionVars PROVE SInv'
<1>1. UNCHANGED <<cookie, login, session, loggedOut, missed>>
  BY DEF sessionVars
<1> QED BY <1>1 DEF SInv, SessionsTypeOK, Fresh, EndedIsGone, LoginKnown, CookieKnown, Near

LEMMA SessionsNext == ASSUME SInv, [Next]_vars PROVE SInv'
<1>1. CASE OfSessions
  <2>1. CASE \E u \in Users, t \in Tickets : Login(u, t)
    BY <2>1, LoginStep
  <2>2. CASE \E u \in Users : LoggedIn(u) \/ LoginTimeout(u)
    BY <2>2, AnswerStep
  <2>3. CASE \E t \in Tickets : Store(t) \/ StoreFails(t) \/ Logout(t)
    BY <2>3, StoreStep, StoreFailsStep, LogoutStep
  <2>4. CASE Cleanup
    BY <2>4, CleanupStep
  <2> QED BY <1>1, <2>1, <2>2, <2>3, <2>4 DEF OfSessions
<1>2. CASE Tick
  BY <1>2, SessionsAgingStep DEF Tick
<1>3. CASE Restart
  BY <1>3, RestartStep DEF Restart
<1>4. CASE UNCHANGED sessionVars
  BY <1>4, SessionsIdle
<1>5. OfHierarchy => UNCHANGED sessionVars
  BY DEF OfHierarchy
<1>6. ASSUME NEW u \in Users, Authenticate(u) \/ Authorise(u) \/ AuthoriseRoot(u) \/ End(u)
      PROVE  UNCHANGED sessionVars
  BY <1>6 DEF Authenticate, Authorise, AuthoriseRoot, End
<1>7. UNCHANGED vars => UNCHANGED sessionVars
  BY DEF vars
<1> QED BY <1>1, <1>2, <1>3, <1>4, <1>5, <1>6, <1>7 DEF Next

-----------------------------------------------------------------------------
(* The hierarchy *)

LEMMA Got ==
    ASSUME NEW age \in 0 .. HierarchyAge
    PROVE  Get(age) \in 0 .. HierarchyAge /\ Get(age) < HierarchyAge
BY HierarchyAssumption DEF Get

(* What a slice shows was younger than the whole may be when it was cut. *)
Recent(s) == s.age < SliceAge => s.source < HierarchyAge + s.age

HInv == HierarchyTypeOK /\ \A oid \in Organisations : Recent(slice[oid])

LEMMA SliceFields ==
    ASSUME NEW s \in Slices
    PROVE  s.age \in 0 .. SliceAge /\ s.source \in 0 .. HierarchyAge + SliceAge
BY DEF Slices

LEMMA NoSliceIsSlice == NoSlice \in Slices /\ Recent(NoSlice)
BY HierarchyAssumption DEF NoSlice, Slices, Recent

(* The slice a request goes by. *)
LEMMA FoundIsRecent ==
    ASSUME HInv, NEW oid \in Organisations
    PROVE  /\ Found(oid) \in Slices /\ Recent(Found(oid))
           /\ Found(oid).source < HierarchyAge + SliceAge
<1>1. HierarchyAge \in Nat \ {0} /\ SliceAge \in Nat \ {0}
  BY HierarchyAssumption
<1>2. slice[oid] \in Slices /\ Recent(slice[oid])
  BY DEF HInv, HierarchyTypeOK
<1>3. CASE Sliced(oid)
  <2>1. Found(oid) = slice[oid] /\ slice[oid].age < SliceAge
    BY <1>3 DEF Found, Sliced
  <2>2. slice[oid].source < HierarchyAge + slice[oid].age
    BY <1>2, <2>1 DEF Recent
  <2>3. slice[oid].age \in 0 .. SliceAge /\ slice[oid].source \in 0 .. HierarchyAge + SliceAge
    BY <1>2, SliceFields
  <2>4. slice[oid].source < HierarchyAge + SliceAge
    BY <1>1, <2>1, <2>2, <2>3
  <2> QED BY <1>2, <2>1, <2>4
<1>4. CASE ~Sliced(oid)
  <2>1. Found(oid) = [age |-> 0, source |-> Get(whole)]
    BY <1>4 DEF Found
  <2>2. Get(whole) \in 0 .. HierarchyAge /\ Get(whole) < HierarchyAge
    BY Got DEF HInv, HierarchyTypeOK
  <2>3. Found(oid).age = 0 /\ Found(oid).source = Get(whole)
    BY <2>1
  <2>4. Found(oid) \in Slices
    BY <1>1, <2>1, <2>2 DEF Slices
  <2>5. Recent(Found(oid))
    BY <1>1, <2>2, <2>3 DEF Recent
  <2> QED BY <1>1, <2>2, <2>3, <2>4, <2>5
<1> QED BY <1>3, <1>4

(* A slice and what it shows grow old together, until it expires. *)
LEMMA SliceOlder ==
    ASSUME NEW s \in Slices, Recent(s)
    PROVE  LET o == IF s.age + 1 < SliceAge
                    THEN [age |-> s.age + 1, source |-> s.source + 1] ELSE NoSlice
           IN  o \in Slices /\ Recent(o)
<1>1. HierarchyAge \in Nat \ {0} /\ SliceAge \in Nat \ {0}
  BY HierarchyAssumption
<1>2. s.age \in 0 .. SliceAge /\ s.source \in 0 .. HierarchyAge + SliceAge
  BY SliceFields
<1>3. CASE s.age + 1 < SliceAge
  <2> DEFINE o == [age |-> s.age + 1, source |-> s.source + 1]
  <2>1. s.age < SliceAge
    BY <1>1, <1>2, <1>3
  <2>2. s.source < HierarchyAge + s.age
    BY <2>1 DEF Recent
  <2>3. s.age + 1 \in 0 .. SliceAge /\ s.source + 1 \in 0 .. HierarchyAge + SliceAge
        /\ s.source + 1 < HierarchyAge + (s.age + 1)
    BY <1>1, <1>2, <1>3, <2>2
  <2>4. o \in Slices
    BY <2>3 DEF Slices
  <2>5. o.age = s.age + 1 /\ o.source = s.source + 1
    OBVIOUS
  <2>6. Recent(o)
    BY <2>3, <2>5 DEF Recent
  <2> QED BY <1>3, <2>4, <2>6
<1>4. CASE ~(s.age + 1 < SliceAge)
  BY <1>4, NoSliceIsSlice
<1> QED BY <1>3, <1>4

LEMMA HierarchyStart == HierarchyInit => HInv
BY NoSliceIsSlice, HierarchyAssumption DEF HierarchyInit, HInv, HierarchyTypeOK

LEMMA ReadHierarchyStep ==
    ASSUME HInv, NEW oid \in Organisations, ReadHierarchy(oid)
    PROVE  HInv'
<1>1. Get(whole) \in 0 .. HierarchyAge
  BY Got DEF HInv, HierarchyTypeOK
<1>2. whole' \in 0 .. HierarchyAge
  BY <1>1 DEF ReadHierarchy, HInv, HierarchyTypeOK
<1>3. slice \in [Organisations -> Slices] /\ slice' = [slice EXCEPT ![oid] = Found(oid)]
  BY DEF ReadHierarchy, HInv, HierarchyTypeOK
<1>4. Found(oid) \in Slices /\ Recent(Found(oid))
  BY FoundIsRecent
<1> QED BY <1>2, <1>3, <1>4 DEF HInv, HierarchyTypeOK

LEMMA HierarchyAgingStep == ASSUME HInv, HierarchyAging PROVE HInv'
<1>1. whole' \in 0 .. HierarchyAge
  BY HierarchyAssumption DEF HierarchyAging, HInv, HierarchyTypeOK
<1>2. slice' = [oid \in Organisations |->
                 IF slice[oid].age + 1 < SliceAge
                 THEN [age |-> slice[oid].age + 1, source |-> slice[oid].source + 1] ELSE NoSlice]
  BY DEF HierarchyAging, SlicesAging
<1>3. ASSUME NEW oid \in Organisations
      PROVE  slice'[oid] \in Slices /\ Recent(slice'[oid])
  <2>1. slice[oid] \in Slices /\ Recent(slice[oid])
    BY DEF HInv, HierarchyTypeOK
  <2> QED BY <1>2, <2>1, SliceOlder
<1>4. slice' \in [Organisations -> Slices]
  BY <1>2, <1>3
<1> QED BY <1>1, <1>3, <1>4 DEF HInv, HierarchyTypeOK

LEMMA HierarchyNext == ASSUME HInv, [Next]_vars PROVE HInv'
<1>1. CASE OfHierarchy
  <2>1. Get(whole) \in 0 .. HierarchyAge
    BY Got DEF HInv, HierarchyTypeOK
  <2> QED BY <1>1, <2>1 DEF OfHierarchy, ReadWhole, HInv, HierarchyTypeOK
<1>2. CASE Tick
  BY <1>2, HierarchyAgingStep DEF Tick
<1>3. CASE Restart
  BY <1>3, NoSliceIsSlice, HierarchyAssumption DEF Restart, HierarchyRestart, HInv, HierarchyTypeOK
<1>4. CASE UNCHANGED hierarchyVars
  BY <1>4 DEF hierarchyVars, HInv, HierarchyTypeOK
<1>5. OfSessions => UNCHANGED hierarchyVars
  BY DEF OfSessions
<1>6. ASSUME NEW u \in Users, Authenticate(u) \/ AuthoriseRoot(u) \/ End(u)
      PROVE  UNCHANGED hierarchyVars
  BY <1>6 DEF Authenticate, AuthoriseRoot, End
<1>7. ASSUME NEW u \in Users, Authorise(u)
      PROVE  HInv'
  <2>1. PICK oid \in Organisations : ReadHierarchy(oid)
    BY <1>7 DEF Authorise
  <2> QED BY <2>1, ReadHierarchyStep
<1>8. UNCHANGED vars => UNCHANGED hierarchyVars
  BY DEF vars
<1> QED BY <1>1, <1>2, <1>3, <1>4, <1>5, <1>6, <1>7, <1>8 DEF Next

-----------------------------------------------------------------------------
(* Requests *)

HierarchiesRecent == \A u \in Users : request[u].hierarchy < HierarchyAge + SliceAge

RInv == request \in [Users -> Requests] /\ RightsAreRecent /\ HierarchiesRecent

LEMMA RequestFields ==
    ASSUME NEW r \in Requests
    PROVE  /\ r.rights \in 0 .. RightsBound /\ r.hierarchy \in 0 .. HierarchyAge + SliceAge
           /\ \A h \in 0 .. HierarchyAge + SliceAge :
                LET a == [r EXCEPT !.stage = "authorised", !.hierarchy = h] IN
                a \in Requests /\ a.rights = r.rights /\ a.hierarchy = h
           /\ LET a == [r EXCEPT !.stage = "authorised"] IN
              a \in Requests /\ a.rights = r.rights /\ a.hierarchy = r.hierarchy
BY DEF Requests

(* One request changes, to one that is allowed by what is recent. *)
LEMMA RequestChanges ==
    ASSUME RInv, NEW u \in Users, NEW r \in Requests,
           request' = [request EXCEPT ![u] = r],
           r.stage # "none" => r.rights < RightsBound,
           r.hierarchy < HierarchyAge + SliceAge
    PROVE  RInv'
<1>1. request' \in [Users -> Requests] /\ request'[u] = r
      /\ \A v \in Users : v # u => request'[v] = request[v]
  BY DEF RInv
<1>2. RightsAreRecent'
  BY <1>1 DEF RInv, RightsAreRecent
<1>3. HierarchiesRecent'
  BY <1>1 DEF RInv, HierarchiesRecent
<1> QED BY <1>1, <1>2, <1>3 DEF RInv

(* A session that counts, of a browser's cookie, is stored less than an hour. *)
LEMMA AuthenticateStep ==
    ASSUME SInv, RInv, NEW u \in Users, Authenticate(u)
    PROVE  RInv' /\ cookie[u] \notin loggedOut \ missed
<1> DEFINE t == cookie[u]
           r == [stage |-> "authenticated", rights |-> session[t].rights, hierarchy |-> 0]
<1>1. /\ t \in Tickets /\ session[t].row = "stored" /\ session[t].created < SessionAge
      /\ request' = [request EXCEPT ![u] = r]
  BY DEF Authenticate, Valid
<1>2. session[t] \in Sessions
  BY <1>1 DEF SInv, SessionsTypeOK
<1>3. session[t].created \in 0 .. CleanupAge /\ session[t].rights \in 0 .. RightsBound
  BY <1>2, SessionFields
<1>4. session[t].rights <= session[t].created + StoreAwait
  BY <1>1, SessionAssumption DEF SInv, CookieKnown, Near
<1>5. session[t].rights < RightsBound
  <2>1. SessionAge \in Nat /\ StoreAwait \in Nat /\ CleanupAge \in Nat
        /\ RightsBound = SessionAge + StoreAwait
    BY SessionAssumption DEF RightsBound
  <2> HIDE DEF t
  <2> QED BY <1>1, <1>3, <1>4, <2>1
<1>6. r \in Requests /\ r.rights = session[t].rights /\ r.hierarchy = 0
  BY <1>3, HierarchyAssumption DEF Requests
<1>7. RInv'
  <2>1. r.hierarchy < HierarchyAge + SliceAge
    BY <1>6, HierarchyAssumption
  <2> HIDE DEF r
  <2> QED BY <1>1, <1>5, <1>6, <2>1, RequestChanges
<1>8. t \notin loggedOut \ missed
  BY <1>1 DEF SInv, EndedIsGone
<1> QED BY <1>7, <1>8

LEMMA RequestsNext == ASSUME SInv, HInv, RInv, [Next]_vars PROVE RInv'
<1>1. CASE UNCHANGED request
  BY <1>1 DEF RInv, RightsAreRecent, HierarchiesRecent
<1>2. CASE Restart
  <2>1. request' = [u \in Users |-> NoRequest]
    BY <1>2 DEF Restart
  <2> QED BY <2>1, NoRequestIsRequest, HierarchyAssumption DEF RInv, RightsAreRecent, HierarchiesRecent
<1>3. ASSUME NEW u \in Users, Authenticate(u)
      PROVE  RInv'
  BY <1>3, AuthenticateStep
<1>4. ASSUME NEW u \in Users, Authorise(u)
      PROVE  RInv'
  <2>1. PICK oid \in Organisations :
          request' = [request EXCEPT ![u].stage = "authorised", ![u].hierarchy = Found(oid).source]
    BY <1>4 DEF Authorise
  <2> DEFINE h == Found(oid).source
             r == [request[u] EXCEPT !.stage = "authorised", !.hierarchy = h]
  <2>2. request[u] \in Requests /\ request[u].stage # "none"
    BY <1>4 DEF Authorise, RInv
  <2>3. request' = [request EXCEPT ![u] = r]
    BY <2>1, <2>2 DEF RInv
  <2>4. h \in 0 .. HierarchyAge + SliceAge /\ h < HierarchyAge + SliceAge
    BY FoundIsRecent, SliceFields
  <2>5. r \in Requests /\ r.rights = request[u].rights /\ r.hierarchy = h
    <3> HIDE DEF h
    <3> QED BY <2>2, <2>4, RequestFields
  <2>6. request[u].rights < RightsBound
    BY <2>2 DEF RInv, RightsAreRecent
  <2> HIDE DEF r, h
  <2> QED BY <2>3, <2>4, <2>5, <2>6, RequestChanges
<1>5. ASSUME NEW u \in Users, AuthoriseRoot(u)
      PROVE  RInv'
  <2> DEFINE r == [request[u] EXCEPT !.stage = "authorised"]
  <2>1. request[u] \in Requests /\ request[u].stage = "authenticated"
        /\ request' = [request EXCEPT ![u] = r]
    BY <1>5 DEF AuthoriseRoot, RInv
  <2>2. r \in Requests /\ r.rights = request[u].rights /\ r.hierarchy = request[u].hierarchy
    BY <2>1, RequestFields
  <2>3. request[u].rights < RightsBound /\ request[u].hierarchy < HierarchyAge + SliceAge
    BY <2>1 DEF RInv, RightsAreRecent, HierarchiesRecent
  <2> HIDE DEF r
  <2> QED BY <2>1, <2>2, <2>3, RequestChanges
<1>6. ASSUME NEW u \in Users, End(u)
      PROVE  RInv'
  <2>1. request' = [request EXCEPT ![u] = NoRequest]
    BY <1>6 DEF End
  <2>2. NoRequest.hierarchy < HierarchyAge + SliceAge
    BY NoRequestIsRequest, HierarchyAssumption
  <2> QED BY <2>1, <2>2, NoRequestIsRequest, RequestChanges
<1>7. OfSessions \/ OfHierarchy \/ Tick \/ UNCHANGED vars => UNCHANGED request
  BY DEF OfSessions, OfHierarchy, Tick, vars
<1> QED BY <1>1, <1>2, <1>3, <1>4, <1>5, <1>6, <1>7 DEF Next

-----------------------------------------------------------------------------
(* What holds of every behaviour *)

IInv == SInv /\ HInv /\ RInv

LEMMA Invariance == Spec => []IInv
<1>1. Init => IInv
  <2> SUFFICES ASSUME Init PROVE IInv
    OBVIOUS
  <2>1. SInv
    BY SessionsStart DEF Init
  <2>2. HInv
    BY HierarchyStart DEF Init
  <2>3. RInv
    BY NoRequestIsRequest, HierarchyAssumption
    DEF Init, RInv, RightsAreRecent, HierarchiesRecent
  <2> QED BY <2>1, <2>2, <2>3 DEF IInv
<1>2. IInv /\ [Next]_vars => IInv'
  BY SessionsNext, HierarchyNext, RequestsNext DEF IInv
<1> QED BY <1>1, <1>2, PTL DEF Spec

(* Every reachable state has its type. *)
THEOREM TypeCorrect == Spec => []TypeOK
<1>1. IInv => TypeOK
  BY DEF IInv, SInv, HInv, RInv, TypeOK
<1> QED BY <1>1, Invariance, PTL

(* A request is allowed by rights that CAS told less than an hour, and a    *)
(* login's wait, before it started.                                         *)
THEOREM RightsRecent == Spec => []RightsAreRecent
<1>1. IInv => RightsAreRecent
  BY DEF IInv, RInv
<1> QED BY <1>1, Invariance, PTL

(* A request is authorised by a hierarchy no older than the whole and a     *)
(* slice of it are kept together: a slice found in its cache is older than  *)
(* what it was cut from was then by the slice's own age and no more.        *)
THEOREM HierarchyRecent == Spec => []HierarchyIsRecent
<1>1. IInv => HierarchyIsRecent
  BY DEF IInv, RInv, HierarchiesRecent, HierarchyIsRecent
<1> QED BY <1>1, Invariance, PTL

(* A session that a logout has deleted authenticates no request.            *)
THEOREM LoggedOutStays == Spec => LoggedOutStaysOut
<1> DEFINE Kept == \A u \in Users :
      request[u].stage = "none" /\ request'[u].stage = "authenticated"
        => cookie[u] \notin loggedOut \ missed
<1>1. ASSUME IInv, Next, NEW u \in Users,
             request[u].stage = "none", request'[u].stage = "authenticated"
      PROVE  cookie[u] \notin loggedOut \ missed
  <2>1. request \in [Users -> Requests]
    BY <1>1 DEF IInv, RInv
  <2>2. request'[u] # request[u]
    BY <1>1
  <2>3. ~ (OfSessions \/ OfHierarchy \/ Tick \/ Restart)
    <3>1. Restart => request'[u].stage = "none"
      BY NoRequestIsRequest DEF Restart
    <3> QED BY <1>1, <2>2, <3>1 DEF OfSessions, OfHierarchy, Tick
  <2>4. PICK v \in Users : Authenticate(v) \/ Authorise(v) \/ AuthoriseRoot(v) \/ End(v)
    BY <1>1, <2>3 DEF Next
  <2>5. v = u
    BY <2>1, <2>2, <2>4 DEF Authenticate, Authorise, AuthoriseRoot, End
  <2>6. request[u].stage = "none" => ~ (Authorise(u) \/ AuthoriseRoot(u) \/ End(u))
    BY DEF Authorise, AuthoriseRoot, End
  <2>7. Authenticate(u)
    BY <1>1, <2>4, <2>5, <2>6
  <2> QED BY <1>1, <2>7, AuthenticateStep DEF IInv
<1>2. IInv /\ [Next]_vars => [Kept]_vars
  BY <1>1
<1>3. Spec => [][Kept]_vars
  <2> HIDE DEF Kept
  <2> QED BY <1>2, Invariance, PTL DEF Spec
<1> QED BY <1>3 DEF LoggedOutStaysOut
=============================================================================
