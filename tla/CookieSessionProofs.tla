-------------------------- MODULE CookieSessionProofs --------------------------
(***************************************************************************)
(* Proofs about CookieSession, for any number of tabs, any roles and any   *)
(* rules of the operations.                                                *)
(***************************************************************************)
EXTENDS CookieSession, SequenceTheorems, TLAPS

\* Two cookies that the browser keeps apart differ in their scopes.
JarInv == \A i, j \in DOMAIN jar : i # j => jar[i].scope # jar[j].scope

\* The user was let in with every session that is on its way, in a cache or in a
\* request; after a cookie has ceased to decode, a request may have no roles.
ApprovedInv ==
    /\ \A t \in Tabs : user[t] # None => user[t] \in approved \/ (spoiled /\ user[t] = {})
    /\ \A i \in DOMAIN jar : jar[i].session \in approved \/ (spoiled /\ jar[i].session = Unreadable)
    /\ \A t \in Tabs : sets[t].kind = "save" => sets[t].cookie.session \in approved
    /\ tokenCache # None => tokenCache \in approved

\* A request is served by the rule of its operation.
RuleInv ==
    \A t \in Tabs : at[t] = "served" =>
        /\ user[t] # None
        /\ rule[t].requireMatchAll \subseteq user[t]
        /\ rule[t].requireMatchAny # {} => \E role \in rule[t].requireMatchAny : role \in user[t]
        /\ rule[t].denyMatchAll # {} => \E role \in rule[t].denyMatchAll : role \notin user[t]
        /\ user[t] \cap rule[t].denyMatchAny = {}

\* Among cookies of one scope are those of the last answer, or none.
LastInv ==
    Unmixed("domain") =>
        /\ jar = <<>> <=> left = None
        /\ \A i \in DOMAIN jar : jar[i].session = left \/ (spoiled /\ jar[i].session = Unreadable)

IInv == TypeOK /\ JarInv /\ ApprovedInv /\ RuleInv /\ LastInv
-----------------------------------------------------------------------------
(* The cookies of a browser *)

\* A jar holds one cookie or two, and only a browser that keeps the scopes apart
\* holds two.
LEMMA JarIsSmall ==
    ASSUME TypeOK
    PROVE  /\ Len(jar) \in 0 .. 2 /\ DOMAIN jar = 1 .. Len(jar)
           /\ \A i \in DOMAIN jar : jar[i] \in Cookies
           /\ ~separate => Len(jar) <= 1
           /\ jar = <<>> <=> Len(jar) = 0
<1>1. jar \in Seq(Cookies)
  BY DEF TypeOK
<1>2. Len(jar) \in Nat /\ DOMAIN jar = 1 .. Len(jar)
  BY <1>1
<1>3. \A i \in DOMAIN jar : jar[i] \in Cookies
  BY <1>1
<1>4. Len(jar) <= 2 /\ (~separate => Len(jar) <= 1)
  BY <1>2 DEF TypeOK
<1>5. jar = <<>> <=> Len(jar) = 0
  BY <1>1, EmptySeq
<1>6. QED
  BY <1>2, <1>3, <1>4, <1>5

\* Put gives a jar in which the scopes differ, with the new cookie in it and
\* nothing that was not there.
LEMMA PutIsJar ==
    ASSUME TypeOK, JarInv, NEW c \in Cookies
    PROVE  /\ Put(c) \in Seq(Cookies) /\ Len(Put(c)) <= (IF separate THEN 2 ELSE 1)
           /\ \A i, j \in DOMAIN Put(c) : i # j => Put(c)[i].scope # Put(c)[j].scope
           /\ \A i \in DOMAIN Put(c) : Put(c)[i] = c \/ (i \in DOMAIN jar /\ Put(c)[i] = jar[i])
           /\ \E i \in DOMAIN Put(c) : Put(c)[i] = c
<1> USE JarIsSmall DEF JarInv, Same, Scopes, Cookies
<1>1. CASE \E i \in DOMAIN jar : Same(jar[i], c.scope)
  <2> DEFINE new == [i \in DOMAIN jar |-> IF Same(jar[i], c.scope) THEN c ELSE jar[i]]
  <2>1. Put(c) = new
    BY <1>1 DEF Put
  <2>2. new \in Seq(Cookies) /\ Len(new) = Len(jar)
    OBVIOUS
  <2>3. QED
    BY <1>1, <2>1, <2>2 DEF TypeOK
<1>2. CASE ~\E i \in DOMAIN jar : Same(jar[i], c.scope)
  <2>1. Put(c) = Append(jar, c)
    BY <1>2 DEF Put
  <2>2. Len(jar) <= IF separate THEN 1 ELSE 0
    <3>1. Len(jar) \in 0 .. 2 /\ DOMAIN jar = 1 .. Len(jar)
      OBVIOUS
    <3>2. CASE ~separate
      <4>1. DOMAIN jar = {}
        BY <1>2, <3>2
      <4>2. QED
        BY <3>1, <3>2, <4>1
    <3>3. CASE separate
      <4>1. \A i, j \in DOMAIN jar : i = j
        BY <1>2, <3>3
      <4>2. Len(jar) < 2
        BY <3>1, <4>1
      <4>3. QED
        BY <3>1, <3>3, <4>2
    <3>4. QED
      BY <3>2, <3>3
  <2>3. QED
    BY <1>2, <2>1, <2>2 DEF TypeOK
<1>3. QED
  BY <1>1, <1>2

\* A reset leaves what it does not name.
LEMMA WithoutIsJar ==
    ASSUME TypeOK, JarInv
    PROVE  /\ Without(resetScope) \in Seq(Cookies)
           /\ Len(Without(resetScope)) <= 1
           /\ \A i \in DOMAIN Without(resetScope) :
                 /\ \E j \in DOMAIN jar : Without(resetScope)[i] = jar[j]
                 /\ Without(resetScope)[i].scope = "host"
<1> DEFINE others == {i \in DOMAIN jar : ~Same(jar[i], resetScope)}
<1>1. CASE others = {}
  BY <1>1 DEF Without
<1>2. CASE others # {}
  <2>1. PICK i \in others : Without(resetScope) = <<jar[i]>>
    BY <1>2 DEF Without
  <2>2. jar[i] \in Cookies /\ jar[i].scope = "host"
    BY <2>1, JarIsSmall DEF Same, resetScope, Cookies, Scopes
  <2>3. QED
    BY <2>1, <2>2
<1>3. QED
  BY <1>1, <1>2
-----------------------------------------------------------------------------
(* Every step keeps the invariant *)

\* The jar changes only where an answer is received or a cookie ceases to decode.
LEMMA JarSteps ==
    [Next]_vars =>
        \/ \E t \in Tabs : Receive(t)
        \/ Spoil
        \/ UNCHANGED <<separate, jar, spoiled, left>>
BY DEF Next, vars, settings, browserVars, Send, SendToken, SendCallback, Redirect, Authorize,
       Callback, ApproveLogin, User, Revalidate, Logout, LoadToken, ApproveToken, Operation,
       StateExpires, TokenExpires, GrantsChange

\* The browser sends a session, or none.
LEMMA CarriedIsSession == TypeOK => Carried \in Sessions \cup {None}
BY JarIsSmall DEF Carried, Cookies, Sessions

\* A cookie that ceases to decode stays where it is, with its scope.
LEMMA SpoilIsJar ==
    ASSUME TypeOK, Spoil
    PROVE  /\ jar' \in Seq(Cookies) /\ Len(jar') = Len(jar) /\ DOMAIN jar' = DOMAIN jar
           /\ \A i \in DOMAIN jar :
                 /\ jar'[i].scope = jar[i].scope
                 /\ jar'[i].session \in {jar[i].session, Unreadable}
<1>1. PICK i \in DOMAIN jar : jar' = [jar EXCEPT ![i].session = Unreadable]
  BY DEF Spoil
<1>2. /\ jar \in Seq(Cookies) /\ jar[i] \in Cookies /\ DOMAIN jar = 1 .. Len(jar)
  BY JarIsSmall DEF TypeOK
<1> DEFINE c == [jar[i] EXCEPT !.session = Unreadable]
<1>3. c \in Cookies /\ c.scope = jar[i].scope /\ c.session = Unreadable
  BY <1>2 DEF Cookies
<1>4. jar' = [jar EXCEPT ![i] = c]
  BY <1>1
<1> HIDE DEF c
<1>5. QED
  BY <1>2, <1>3, <1>4

\* Every step keeps the types; the jar is as the lemmas above say.
LEMMA TypeStep == IInv /\ [Next]_vars => TypeOK'
<1> SUFFICES ASSUME IInv, [Next]_vars PROVE TypeOK'
  OBVIOUS
<1> USE SessionAssumption, CarriedIsSession
        DEF IInv, TypeOK, vars, settings, browserVars, requestVars, hookVars, Sessions, None,
        NoTab, NoCookies, Answers, Cookies, Scopes, LetIn, Refuse, LoginRoles
<1>1. ASSUME NEW t \in Tabs, Send(t) PROVE TypeOK'
  BY <1>1 DEF Send, Reach
<1>2. ASSUME NEW t \in Tabs, SendToken(t) PROVE TypeOK'
  BY <1>2 DEF SendToken
<1>3. ASSUME NEW t \in Tabs, SendCallback(t) PROVE TypeOK'
  BY <1>3 DEF SendCallback
<1>4. ASSUME NEW t \in Tabs, Receive(t) PROVE TypeOK'
  <2>1. CASE sets[t].kind = "save"
    <3>1. sets[t].cookie \in Cookies
      BY <2>1
    <3>2. jar' = Put(sets[t].cookie) /\ left' = sets[t].cookie.session
      BY <1>4, <2>1 DEF Receive
    <3>3. jar' \in Seq(Cookies) /\ Len(jar') <= IF separate THEN 2 ELSE 1
      BY <3>1, <3>2, PutIsJar
    <3>4. QED
      BY <1>4, <2>1, <3>1, <3>2, <3>3 DEF Receive
  <2>2. CASE sets[t].kind = "reset"
    <3>1. jar' = Without(resetScope) /\ left' = None
      BY <1>4, <2>2 DEF Receive
    <3>2. jar' \in Seq(Cookies) /\ Len(jar') <= 1
      BY <3>1, WithoutIsJar
    <3>3. jar' \in Seq(Cookies) /\ Len(jar') <= IF separate THEN 2 ELSE 1
      BY <3>2
    <3>4. at' = [at EXCEPT ![t] = "idle"] /\ state' = state
      BY <1>4, <2>2 DEF Receive
    <3>5. sets' \in [Tabs -> Answers] /\ \A u \in Tabs : sets'[u] # NoCookies => at'[u] = "answered"
      BY <1>4, <3>4 DEF Receive
    <3>6. QED
      BY <1>4, <3>1, <3>3, <3>4, <3>5 DEF Receive
  <2>3. CASE sets[t].kind \notin {"save", "reset"}
    BY <1>4, <2>3 DEF Receive
  <2>4. QED
    BY <2>1, <2>2, <2>3
<1>0. ASSUME NEW t \in Tabs, Redirect(t) PROVE TypeOK'
  BY <1>0 DEF Redirect, Answer
<1>5. ASSUME NEW t \in Tabs, Authorize(t) PROVE TypeOK'
  BY <1>5 DEF Authorize, Answer
<1>6. ASSUME NEW t \in Tabs, Callback(t) PROVE TypeOK'
  BY <1>6 DEF Callback, Answer
<1>7. ASSUME NEW t \in Tabs, ApproveLogin(t) PROVE TypeOK'
  <2>1. approved' \subseteq Sessions
    BY <1>7 DEF ApproveLogin
  <2>2. sets' \in [Tabs -> Answers] /\ at' = [at EXCEPT ![t] = "answered"]
    BY <1>7 DEF ApproveLogin, Save, Answer
  <2>3. \A u \in Tabs : sets'[u] # NoCookies => at'[u] = "answered"
    BY <1>7 DEF ApproveLogin, Save, Answer
  <2>4. QED
    BY <1>7, <2>1, <2>2, <2>3 DEF ApproveLogin
<1>8. ASSUME NEW t \in Tabs, User(t) PROVE TypeOK'
  <2>1. CASE Answer(t, NoCookies)
    BY <1>8, <2>1 DEF User, Answer
  <2>2. CASE at' = [at EXCEPT ![t] = "revalidate"] /\ UNCHANGED sets
    BY <1>8, <2>2 DEF User
  <2>3. QED
    BY <1>8, <2>1, <2>2 DEF User
<1>9. ASSUME NEW t \in Tabs, Revalidate(t) PROVE TypeOK'
  <2>1. approved' \subseteq Sessions
    BY <1>9 DEF Revalidate
  <2>2. sets' \in [Tabs -> Answers] /\ at' = [at EXCEPT ![t] = "answered"]
    BY <1>9 DEF Revalidate, Save, Answer
  <2>3. \A u \in Tabs : sets'[u] # NoCookies => at'[u] = "answered"
    BY <1>9 DEF Revalidate, Save, Answer
  <2>4. QED
    BY <1>9, <2>1, <2>2, <2>3 DEF Revalidate
<1>10. ASSUME NEW t \in Tabs, Logout(t) PROVE TypeOK'
  BY <1>10 DEF Logout, Answer
<1>11. ASSUME NEW t \in Tabs, LoadToken(t) PROVE TypeOK'
  <2>1. CASE tokenCache = None
    BY <1>11, <2>1 DEF LoadToken
  <2>2. CASE tokenCache # None
    <3>1. Reach(t, tokenCache) /\ sets[t] = NoCookies
      BY <1>11, <2>2 DEF LoadToken
    <3>2. QED
      BY <1>11, <3>1 DEF LoadToken, Reach
  <2>3. QED
    BY <2>1, <2>2
<1>12. ASSUME NEW t \in Tabs, ApproveToken(t) PROVE TypeOK'
  BY <1>12 DEF ApproveToken, Reach
<1>13. ASSUME NEW t \in Tabs, Operation(t) PROVE TypeOK'
  BY <1>13 DEF Operation, Enforce
<1>14. CASE StateExpires
  BY <1>14 DEF StateExpires
<1>15. CASE TokenExpires
  BY <1>15 DEF TokenExpires
<1>16. CASE GrantsChange
  BY <1>16 DEF GrantsChange
<1>17. CASE Spoil
  BY <1>17, SpoilIsJar DEF Spoil
<1>18. CASE UNCHANGED vars
  BY <1>18
<1> HIDE DEF IInv, TypeOK
<1>19. QED
  BY <1>0, <1>1, <1>2, <1>3, <1>4, <1>5, <1>6, <1>7, <1>8, <1>9, <1>10, <1>11,
     <1>12, <1>13, <1>14, <1>15, <1>16, <1>17, <1>18 DEF Next


\* The scopes in the jar stay different: a cookie is put where its like is, or none is.
LEMMA JarStep == IInv /\ [Next]_vars => JarInv'
<1> SUFFICES ASSUME IInv, [Next]_vars PROVE JarInv'
  OBVIOUS
<1>1. ASSUME NEW t \in Tabs, Receive(t) PROVE JarInv'
  <2>1. CASE sets[t].kind = "save"
    <3>1. sets[t].cookie \in Cookies /\ jar' = Put(sets[t].cookie)
      BY <1>1, <2>1 DEF Receive, IInv, TypeOK, Answers, NoCookies, Cookies
    <3>2. TypeOK /\ JarInv
      BY DEF IInv
    <3> DEFINE c == sets[t].cookie
    <3>3. \A i, j \in DOMAIN Put(c) : i # j => Put(c)[i].scope # Put(c)[j].scope
      BY <3>1, <3>2, PutIsJar
    <3>4. QED
      BY <3>1, <3>3 DEF JarInv
  <2>2. CASE sets[t].kind = "reset"
    <3>1. jar' = Without(resetScope)
      BY <1>1, <2>2 DEF Receive
    <3>2. QED
      BY <3>1, WithoutIsJar DEF IInv, JarInv
  <2>3. CASE sets[t].kind \notin {"save", "reset"}
    BY <1>1, <2>3 DEF Receive, IInv, JarInv
  <2>4. QED
    BY <2>1, <2>2, <2>3
<1>2. CASE Spoil
  BY <1>2, SpoilIsJar DEF IInv, JarInv
<1>3. CASE UNCHANGED <<separate, jar, spoiled, left>>
  BY <1>3 DEF IInv, JarInv
<1>4. QED
  BY <1>1, <1>2, <1>3, JarSteps

\* The next request carries what the last answer left: if every cookie names a
\* domain, there is but one.
LEMMA LastStep == IInv /\ [Next]_vars => LastInv'
<1> SUFFICES ASSUME IInv, [Next]_vars PROVE LastInv'
  OBVIOUS
<1> USE DEF IInv
<1>1. ASSUME NEW t \in Tabs, Receive(t) PROVE LastInv'
  <2> SUFFICES ASSUME ~separate \/ \A i \in DOMAIN jar' : jar'[i].scope = "domain"
               PROVE  /\ jar' = <<>> <=> left' = None
                      /\ \A i \in DOMAIN jar' :
                            jar'[i].session = left' \/ (spoiled' /\ jar'[i].session = Unreadable)
    BY <1>1 DEF LastInv, Unmixed, Receive, settings
  <2>1. CASE sets[t].kind = "save"
    <3> DEFINE c == sets[t].cookie
    <3>0. c \in [scope : Scopes, session : Sessions]
      BY <2>1 DEF TypeOK, Answers, NoCookies
    <3>1. c \in Cookies /\ jar' = Put(c) /\ left' = c.session /\ left' # None
      <4>1. c \in Cookies /\ c.session # None
        BY <3>0, SessionAssumption DEF Cookies, Sessions, None
      <4>2. jar' = Put(c) /\ left' = c.session
        BY <1>1, <2>1 DEF Receive
      <4>3. QED
        BY <4>1, <4>2
    <3>2. jar' \in Seq(Cookies) /\ Len(jar') <= (IF separate THEN 2 ELSE 1)
      BY <3>1, PutIsJar
    <3>3. \A i, j \in DOMAIN jar' : i = j
      <4>1. CASE ~separate
        BY <3>2, <4>1
      <4>2. CASE \A i \in DOMAIN jar' : jar'[i].scope = "domain"
        <5>1. \A i, j \in DOMAIN Put(c) : i # j => Put(c)[i].scope # Put(c)[j].scope
          BY <3>1, PutIsJar, Zenon
        <5>2. QED
          BY <3>1, <4>2, <5>1
      <4>3. QED
        BY <4>1, <4>2
    <3>4. \E i \in DOMAIN jar' : jar'[i] = c
      BY <3>1, PutIsJar
    <3>5. jar' # <<>> /\ \A i \in DOMAIN jar' : jar'[i] = c
      BY <3>2, <3>3, <3>4
    <3>6. QED
      BY <3>1, <3>5
  <2>2. CASE sets[t].kind = "reset"
    <3>1. jar' = Without(resetScope) /\ left' = None
      BY <1>1, <2>2 DEF Receive
    <3>2. jar' = <<>>
      <4>1. CASE ~separate
        BY <3>1, <4>1 DEF Without, Same
      <4>2. CASE \A i \in DOMAIN jar' : jar'[i].scope = "domain"
        <5>1. jar' \in Seq(Cookies) /\ DOMAIN jar' = {}
          BY <3>1, <4>2, WithoutIsJar
        <5>2. QED
          BY <5>1, EmptySeq
      <4>3. QED
        BY <4>1, <4>2
    <3>3. QED
      BY <3>1, <3>2
  <2>3. CASE sets[t].kind \notin {"save", "reset"}
    BY <1>1, <2>3 DEF Receive, LastInv, Unmixed
  <2>4. QED
    BY <2>1, <2>2, <2>3
<1>2. CASE Spoil
  <2>1. /\ UNCHANGED <<separate, left>> /\ spoiled' /\ DOMAIN jar' = DOMAIN jar
        /\ jar' = <<>> <=> jar = <<>>
    BY <1>2, SpoilIsJar, JarIsSmall, EmptySeq DEF Spoil, settings
  <2>2. \A i \in DOMAIN jar :
           jar'[i].scope = jar[i].scope /\ jar'[i].session \in {jar[i].session, Unreadable}
    BY <1>2, SpoilIsJar
  <2>3. QED
    BY <2>1, <2>2 DEF LastInv, Unmixed
<1>3. CASE UNCHANGED <<separate, jar, spoiled, left>>
  BY <1>3 DEF LastInv, Unmixed
<1>4. QED
  BY <1>1, <1>2, <1>3, JarSteps

\* What the server reads from a cookie is a session that the user was let in with.
LEMMA CarriedIsApproved ==
    IInv => (Carried # None => Carried \in approved \/ (spoiled /\ Carried = {}))
<1> SUFFICES ASSUME IInv, Carried # None PROVE Carried \in approved \/ (spoiled /\ Carried = {})
  OBVIOUS
<1>1. jar # <<>> /\ 1 \in DOMAIN jar
  BY JarIsSmall DEF IInv, Carried
<1>2. jar[1].session \in approved \/ (spoiled /\ jar[1].session = Unreadable)
  BY <1>1 DEF IInv, ApprovedInv
<1>3. Unreadable \notin approved
  BY SessionAssumption DEF IInv, TypeOK, Sessions, Unreadable
<1>4. QED
  BY <1>1, <1>2, <1>3 DEF Carried

\* No other session comes to be: LetIn makes them, and cookies, the token cache and
\* requests copy them.
LEMMA ApprovedStep == IInv /\ [Next]_vars => ApprovedInv'
<1> SUFFICES ASSUME IInv, [Next]_vars PROVE ApprovedInv'
  OBVIOUS
<1> USE CarriedIsApproved, SessionAssumption
    DEF IInv, TypeOK, ApprovedInv, vars, settings, browserVars, requestVars, hookVars, Sessions,
        None, NoCookies, Answers, Cookies, LetIn, Refuse, LoginRoles
<1>1. ASSUME NEW t \in Tabs, Send(t) PROVE ApprovedInv'
  BY <1>1 DEF Send, Reach
<1>2. ASSUME NEW t \in Tabs, SendToken(t) PROVE ApprovedInv'
  BY <1>2 DEF SendToken
<1>3. ASSUME NEW t \in Tabs, SendCallback(t) PROVE ApprovedInv'
  BY <1>3 DEF SendCallback
<1>4. ASSUME NEW t \in Tabs, Receive(t) PROVE ApprovedInv'
  <2>1. \A u \in Tabs : user'[u] # None => user'[u] \in approved \/ (spoiled /\ user'[u] = {})
    BY <1>4 DEF Receive
  <2>2. \A i \in DOMAIN jar' :
           jar'[i].session \in approved \/ (spoiled /\ jar'[i].session = Unreadable)
    <3>1. CASE sets[t].kind = "save"
      <4>1. sets[t].cookie \in Cookies /\ jar' = Put(sets[t].cookie)
        BY <1>4, <3>1 DEF Receive
      <4>2. \A i \in DOMAIN jar' :
              jar'[i] = sets[t].cookie \/ (i \in DOMAIN jar /\ jar'[i] = jar[i])
        BY <4>1, PutIsJar
      <4>3. QED
        BY <3>1, <4>2
    <3>2. CASE sets[t].kind = "reset"
      <4>1. jar' = Without(resetScope)
        BY <1>4, <3>2 DEF Receive
      <4>2. \A i \in DOMAIN jar' : \E j \in DOMAIN jar : jar'[i] = jar[j]
        BY <4>1, WithoutIsJar
      <4>3. QED
        BY <4>2
    <3>3. CASE sets[t].kind \notin {"save", "reset"}
      BY <1>4, <3>3 DEF Receive
    <3>4. QED
      BY <3>1, <3>2, <3>3
  <2>3. \A u \in Tabs : sets'[u].kind = "save" => sets'[u].cookie.session \in approved
    BY <1>4 DEF Receive
  <2>4. QED
    BY <1>4, <2>1, <2>2, <2>3 DEF Receive
<1>0. ASSUME NEW t \in Tabs, Redirect(t) PROVE ApprovedInv'
  BY <1>0 DEF Redirect, Answer
<1>5. ASSUME NEW t \in Tabs, Authorize(t) PROVE ApprovedInv'
  BY <1>5 DEF Authorize, Answer
<1>6. ASSUME NEW t \in Tabs, Callback(t) PROVE ApprovedInv'
  BY <1>6 DEF Callback, Answer
<1>7. ASSUME NEW t \in Tabs, ApproveLogin(t) PROVE ApprovedInv'
  <2>1. approved \subseteq approved'
    BY <1>7 DEF ApproveLogin
  <2>2. \A u \in Tabs : sets'[u].kind = "save" => sets'[u].cookie.session \in approved'
    BY <1>7, <2>1 DEF ApproveLogin, Save, Answer
  <2>3. QED
    BY <1>7, <2>1, <2>2 DEF ApproveLogin
<1>8. ASSUME NEW t \in Tabs, User(t) PROVE ApprovedInv'
  BY <1>8 DEF User, Answer
<1>9. ASSUME NEW t \in Tabs, Revalidate(t) PROVE ApprovedInv'
  <2>1. approved \subseteq approved'
    BY <1>9 DEF Revalidate
  <2>2. \A u \in Tabs : sets'[u].kind = "save" => sets'[u].cookie.session \in approved'
    BY <1>9, <2>1 DEF Revalidate, Save, Answer
  <2>3. QED
    BY <1>9, <2>1, <2>2 DEF Revalidate
<1>10. ASSUME NEW t \in Tabs, Logout(t) PROVE ApprovedInv'
  BY <1>10 DEF Logout, Answer
<1>11. ASSUME NEW t \in Tabs, LoadToken(t) PROVE ApprovedInv'
  BY <1>11 DEF LoadToken, Reach
<1>12. ASSUME NEW t \in Tabs, ApproveToken(t) PROVE ApprovedInv'
  BY <1>12 DEF ApproveToken, Reach
<1>13. ASSUME NEW t \in Tabs, Operation(t) PROVE ApprovedInv'
  BY <1>13 DEF Operation, Enforce
<1>14. CASE StateExpires
  BY <1>14 DEF StateExpires
<1>15. CASE TokenExpires
  BY <1>15 DEF TokenExpires
<1>16. CASE GrantsChange
  BY <1>16 DEF GrantsChange
<1>17. CASE Spoil
  <2>1. \A i \in DOMAIN jar' : jar'[i].session \in approved \/ jar'[i].session = Unreadable
    BY <1>17, SpoilIsJar
  <2>2. QED
    BY <1>17, <2>1 DEF Spoil
<1>18. CASE UNCHANGED vars
  BY <1>18
<1> HIDE DEF IInv, TypeOK
<1>19. QED
  BY <1>0, <1>1, <1>2, <1>3, <1>4, <1>5, <1>6, <1>7, <1>8, <1>9, <1>10, <1>11,
     <1>12, <1>13, <1>14, <1>15, <1>16, <1>17, <1>18 DEF Next

\* A request is served after the rule was enforced on its user, and neither
\* changes before the answer is received.
LEMMA RuleStep == IInv /\ [Next]_vars => RuleInv'
<1> SUFFICES ASSUME IInv, [Next]_vars PROVE RuleInv'
  OBVIOUS
<1> USE SessionAssumption
    DEF IInv, TypeOK, RuleInv, vars, settings, browserVars, requestVars, hookVars, Sessions,
        None, NoRule
<1>1. ASSUME NEW t \in Tabs, Send(t) PROVE RuleInv'
  BY <1>1 DEF Send, Reach
<1>2. ASSUME NEW t \in Tabs, SendToken(t) PROVE RuleInv'
  BY <1>2 DEF SendToken
<1>3. ASSUME NEW t \in Tabs, SendCallback(t) PROVE RuleInv'
  BY <1>3 DEF SendCallback
<1>4. ASSUME NEW t \in Tabs, Receive(t) PROVE RuleInv'
  BY <1>4 DEF Receive
<1>0. ASSUME NEW t \in Tabs, Redirect(t) PROVE RuleInv'
  BY <1>0 DEF Redirect, Answer
<1>5. ASSUME NEW t \in Tabs, Authorize(t) PROVE RuleInv'
  BY <1>5 DEF Authorize, Answer
<1>6. ASSUME NEW t \in Tabs, Callback(t) PROVE RuleInv'
  BY <1>6 DEF Callback, Answer
<1>7. ASSUME NEW t \in Tabs, ApproveLogin(t) PROVE RuleInv'
  BY <1>7 DEF ApproveLogin, Save, Answer
<1>8. ASSUME NEW t \in Tabs, User(t) PROVE RuleInv'
  BY <1>8 DEF User, Answer
<1>9. ASSUME NEW t \in Tabs, Revalidate(t) PROVE RuleInv'
  BY <1>9 DEF Revalidate, Save, Answer
<1>10. ASSUME NEW t \in Tabs, Logout(t) PROVE RuleInv'
  BY <1>10 DEF Logout, Answer
<1>11. ASSUME NEW t \in Tabs, LoadToken(t) PROVE RuleInv'
  BY <1>11 DEF LoadToken, Reach
<1>12. ASSUME NEW t \in Tabs, ApproveToken(t) PROVE RuleInv'
  BY <1>12 DEF ApproveToken, Reach
<1>13. ASSUME NEW t \in Tabs, Operation(t) PROVE RuleInv'
  BY <1>13 DEF Operation, Enforce
<1>14. CASE StateExpires
  BY <1>14 DEF StateExpires
<1>15. CASE TokenExpires
  BY <1>15 DEF TokenExpires
<1>16. CASE GrantsChange
  BY <1>16 DEF GrantsChange
<1>17. CASE Spoil
  BY <1>17 DEF Spoil
<1>18. CASE UNCHANGED vars
  BY <1>18
<1> HIDE DEF IInv, TypeOK
<1>19. QED
  BY <1>0, <1>1, <1>2, <1>3, <1>4, <1>5, <1>6, <1>7, <1>8, <1>9, <1>10, <1>11,
     <1>12, <1>13, <1>14, <1>15, <1>16, <1>17, <1>18 DEF Next

-----------------------------------------------------------------------------
(* The theorems *)

\* The invariant holds in every state.
LEMMA Inductive == Spec => []IInv
<1>1. Init => IInv
  <2> SUFFICES ASSUME Init PROVE IInv
    OBVIOUS
  <2>1. TypeOK
    <3>1. jar \in Seq(Cookies) /\ Len(jar) <= IF separate THEN 2 ELSE 1
      BY DEF Init
    <3>2. QED
      BY <3>1 DEF Init, TypeOK, Sessions, None, NoTab, NoCookies, Answers
  <2>2. JarInv /\ ApprovedInv /\ RuleInv /\ LastInv
    BY DEF Init, JarInv, ApprovedInv, RuleInv, LastInv, NoCookies
  <2>3. QED
    BY <2>1, <2>2 DEF IInv
<1>2. IInv /\ [Next]_vars => IInv'
  BY TypeStep, JarStep, ApprovedStep, RuleStep, LastStep DEF IInv
<1>3. QED
  BY <1>1, <1>2, PTL DEF Spec

\* Type correctness of pkg/authentication's sessions, with the bounds on the jar.
THEOREM TypeCorrect == Spec => []TypeOK
BY Inductive, PTL DEF IInv

\* Requests go on with roles that the user was let in with, or, once a "user" cookie has
\* ceased to decode, with none, and are served under all four lists of the operation's
\* rule (User.Load, RequiresAuthentication and RBACEnforcer of authentication.go).
THEOREM ServedSafe == Spec => []ServedAsApproved
<1>1. IInv => ServedAsApproved
  BY DEF IInv, ApprovedInv, RuleInv, ServedAsApproved
<1>2. QED
  BY <1>1, Inductive, PTL

\* Whatever the order of the answers to the tabs, the last one decides what the next
\* request carries, unless the cookies of a revalidation are kept apart (User.Load,
\* User.Save and resetUserCookies).
THEOREM LastAnswerSafe == Spec => []LastAnswerCounts
<1>1. IInv => LastAnswerCounts
  <2> SUFFICES ASSUME IInv, Unmixed("domain")
               PROVE  Carried = left \/ (spoiled /\ left # None /\ Carried = {})
    BY DEF LastAnswerCounts
  <2> USE DEF IInv, LastInv
  <2>1. CASE jar = <<>>
    BY <2>1 DEF Carried
  <2>2. CASE jar # <<>>
    <3>1. 1 \in DOMAIN jar /\ left # None
      BY <2>2, JarIsSmall
    <3>2. left \in Sessions /\ Unreadable \notin Sessions
      BY <3>1, SessionAssumption DEF TypeOK, Sessions, Unreadable
    <3>3. QED
      BY <2>2, <3>1, <3>2 DEF Carried
  <2>3. QED
    BY <2>1, <2>2
<1>2. QED
  BY <1>1, Inductive, PTL

\* A browser that keeps one session cookie only, or that has received none of a
\* revalidation, forgets the session with the answer to a logout, as the documentation
\* of the postLogout hook has it (resetUserCookies).
THEOREM LogoutEndsUnlessKeptApart == Spec => [](Unmixed("domain") => LogoutEndsSession)
<1>1. LastAnswerCounts => (Unmixed("domain") => LogoutEndsSession)
  BY DEF LastAnswerCounts, LogoutEndsSession
<1>2. QED
  BY <1>1, LastAnswerSafe, PTL
=============================================================================
