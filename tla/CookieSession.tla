---------------------------- MODULE CookieSession ----------------------------
(***************************************************************************)
(* The session of a user: pkg/authentication and the routes that           *)
(* registerAuth of pkg/apihandler mounts.  The session has no state on the *)
(* server.  It is a pair of signed cookies, "user" and "id", that a login  *)
(* or a revalidation sets and a logout resets, each after the hooks server *)
(* was asked, so that the answers to the tabs of one browser overtake each *)
(* other.  A request may also carry a bearer token, whose user is cached.  *)
(*                                                                         *)
(* The two cookies are set, kept and reset together, and are one here.     *)
(* That of them which can go wrong by itself is "user": when it no longer  *)
(* decodes beside an "id" that does, the request has a user without roles. *)
(*                                                                         *)
(* A cookie that names a domain and one that names none are two, and the   *)
(* older is sent first, except where a browser takes them for one: on a    *)
(* host such as localhost, whose name a cookie cannot have as its domain.  *)
(***************************************************************************)
EXTENDS Naturals, Sequences

CONSTANTS
    Tabs,            \* the tabs of the browser, each with one request at a time
    Roles,           \* the roles that a hook can give to the user
    Rules            \* the role rules that an operation can have

ASSUME SessionAssumption ==
    /\ {"nobody", "unreadable"} \cap Roles = {}
    /\ Rules \subseteq [requireMatchAll : SUBSET Roles, requireMatchAny : SUBSET Roles,
                        denyMatchAll : SUBSET Roles, denyMatchAny : SUBSET Roles]

VARIABLES
    separate,        \* does the browser keep the two kinds of cookies apart?
    hooked,          \* is there a mutatingPostAuthentication hook?
    jar,             \* the session cookies, in the order in which they were created
    spoiled,         \* has a "user" cookie ceased to decode?
    state,           \* the tab whose login the "state" cookie belongs to
    left,            \* the session that the last answer with cookies left
    at,              \* where the request of each tab is
    rule,            \* the role rule of the operation that is requested
    user,            \* the user in the context of the request
    sets,            \* the cookies that the answer sets
    granted,         \* the roles that the hooks give to the user now
    tokenCache,      \* the user that the loader has cached for the bearer token
    approved         \* the roles that the user was let in with so far

settings == <<separate, hooked>>
browserVars == <<jar, spoiled, state, left>>
requestVars == <<at, rule, user, sets>>
hookVars == <<granted, tokenCache, approved>>
vars == <<settings, browserVars, requestVars, hookVars>>

\* A session is the user it is for, and of the user the roles count.
Sessions == SUBSET Roles
None == {"nobody"}
Unreadable == {"unreadable"}
NoTab == "none"
NoRule == [requireMatchAll |-> {}, requireMatchAny |-> {}, denyMatchAll |-> {}, denyMatchAny |-> {}]
Scopes == {"domain", "host"}
Cookies == [scope : Scopes, session : Sessions \cup {Unreadable}]
NoCookies == [kind |-> "nothing"]
Answers == {NoCookies, [kind |-> "state"], [kind |-> "reset"]}
           \cup {[kind |-> "save", cookie |-> c] : c \in [scope : Scopes, session : Sessions]}

TypeOK ==
    /\ separate \in BOOLEAN /\ hooked \in BOOLEAN
    /\ jar \in Seq(Cookies) /\ Len(jar) <= IF separate THEN 2 ELSE 1
    /\ spoiled \in BOOLEAN
    /\ state \in Tabs \cup {NoTab}
    /\ left \in Sessions \cup {None}
    /\ at \in [Tabs -> {"idle", "authorize", "provider", "callback", "mismatch", "approve",
                        "user", "revalidate", "logout", "token", "tokenHook", "operation",
                        "answered", "served"}]
    /\ rule \in [Tabs -> Rules \cup {NoRule}]
    /\ user \in [Tabs -> Sessions \cup {None}]
    /\ sets \in [Tabs -> Answers]
    /\ \A t \in Tabs : sets[t] # NoCookies => at[t] = "answered"
    /\ granted \subseteq Roles
    /\ tokenCache \in Sessions \cup {None}
    /\ approved \subseteq Sessions

Init ==
    /\ separate \in BOOLEAN /\ hooked \in BOOLEAN
    /\ jar = <<>> /\ spoiled = FALSE /\ state = NoTab /\ left = None
    /\ at = [t \in Tabs |-> "idle"]
    /\ rule = [t \in Tabs |-> NoRule]
    /\ user = [t \in Tabs |-> None]
    /\ sets = [t \in Tabs |-> NoCookies]
    /\ granted \in SUBSET Roles
    /\ tokenCache = None /\ approved = {}
-----------------------------------------------------------------------------
(* The browser *)

\* User.Load: of the cookies that the server finds first, an error of "id" leaves
\* no user, and one of "user" leaves a user whose fields are empty.
Carried ==
    IF jar = <<>> THEN None
    ELSE IF jar[1].session = Unreadable THEN {} ELSE jar[1].session

\* Two cookies are one unless the browser keeps their scopes apart.
Same(c, scope) == c.scope = scope \/ ~separate

Put(cookie) ==
    IF \E i \in DOMAIN jar : Same(jar[i], cookie.scope)
    THEN [i \in DOMAIN jar |-> IF Same(jar[i], cookie.scope) THEN cookie ELSE jar[i]]
    ELSE Append(jar, cookie)

\* A request comes to a route with this user in its context.
Reach(t, session) ==
    /\ user' = [user EXCEPT ![t] = session]
    /\ \/ /\ \E where \in {"authorize", "user", "logout"} : at' = [at EXCEPT ![t] = where]
          /\ UNCHANGED rule
       \/ /\ at' = [at EXCEPT ![t] = "operation"]
          /\ \E r \in Rules : rule' = [rule EXCEPT ![t] = r]

Send(t) ==
    /\ at[t] = "idle"
    /\ Reach(t, Carried)
    /\ UNCHANGED <<sets, settings, browserVars, hookVars>>

\* A request with a bearer token: whichever route it goes to, the user comes first.
SendToken(t) ==
    /\ at[t] = "idle"
    /\ at' = [at EXCEPT ![t] = "token"]
    /\ user' = [user EXCEPT ![t] = Carried]
    /\ UNCHANGED <<rule, sets, settings, browserVars, hookVars>>

\* The user comes back from the provider with the state of the login of this tab.
SendCallback(t) ==
    /\ at[t] = "provider"
    /\ at' = [at EXCEPT ![t] = IF state = t THEN "callback" ELSE "mismatch"]
    /\ user' = [user EXCEPT ![t] = Carried]
    /\ UNCHANGED <<rule, sets, settings, browserVars, hookVars>>

\* A "user" cookie no longer decodes, as when another version of the node has
\* written it.  Bound: once.
Spoil ==
    /\ ~spoiled /\ spoiled' = TRUE
    /\ \E i \in DOMAIN jar : jar' = [jar EXCEPT ![i].session = Unreadable]
    /\ UNCHANGED <<state, left, settings, requestVars, hookVars>>

\* One cookie at most is kept apart from those of a scope.
Without(scope) ==
    LET others == {i \in DOMAIN jar : ~Same(jar[i], scope)}
    IN  IF others = {} THEN <<>> ELSE <<jar[CHOOSE i \in others : TRUE]>>

\* Mutant of resetScope: the cookies are reset without their domain.
hostScope == "host"

\* resetUserCookies names the domain, as Save does at a login.
resetScope == "domain"

Receive(t) ==
    /\ at[t] \in {"answered", "served"}
    /\ at' = [at EXCEPT ![t] = IF sets[t].kind = "state" THEN "provider" ELSE "idle"]
    /\ state' = IF sets[t].kind = "state" THEN t ELSE state
    /\ jar' = CASE sets[t].kind = "save" -> Put(sets[t].cookie)
                [] sets[t].kind = "reset" -> Without(resetScope)
                [] OTHER -> jar
    /\ left' = CASE sets[t].kind = "save" -> sets[t].cookie.session
                 [] sets[t].kind = "reset" -> None
                 [] OTHER -> left
    /\ user' = [user EXCEPT ![t] = None]
    /\ rule' = [rule EXCEPT ![t] = NoRule]
    /\ sets' = [sets EXCEPT ![t] = NoCookies]
    /\ UNCHANGED <<spoiled, settings, hookVars>>

\* The cookie of a login lives for a minute.
StateExpires ==
    /\ state # NoTab
    /\ state' = NoTab
    /\ UNCHANGED <<jar, spoiled, left, settings, requestVars, hookVars>>
-----------------------------------------------------------------------------
(* The hooks server *)

\* Somebody changes what the hooks answer for the user.
GrantsChange ==
    /\ granted' \in SUBSET Roles \ {granted}
    /\ UNCHANGED <<tokenCache, approved, settings, browserVars, requestVars>>

\* Without the hook, the user that the provider has named is let in without roles.
LoginRoles == IF hooked THEN granted ELSE {}

\* The user is let in with these roles: a hook answers "ok", or there is none ...
LetIn(roles) == approved' = approved \cup {roles}

\* ... or a hook answers with another status, or it fails, or the user cannot be
\* loaded or saved.
Refuse == UNCHANGED approved

Answer(t, cookies) ==
    /\ at' = [at EXCEPT ![t] = "answered"]
    /\ sets' = [sets EXCEPT ![t] = cookies]
-----------------------------------------------------------------------------
(* Login *)

\* RedirectAlreadyAuthenticatedUsers, on all the routes of cookies: a request with
\* a user and an authorized redirect_uri goes there.  Without one, authorize and
\* callback answer with an error.
Redirect(t) ==
    /\ at[t] \in {"authorize", "callback", "mismatch", "user", "logout"}
    /\ user[t] # None
    /\ Answer(t, NoCookies)
    /\ UNCHANGED <<rule, user, settings, browserVars, hookVars>>

\* The cookies of a new login.
Authorize(t) ==
    /\ at[t] = "authorize" /\ user[t] = None
    /\ Answer(t, [kind |-> "state"])
    /\ UNCHANGED <<rule, user, settings, browserVars, hookVars>>

\* Without the state cookie of this login, or when the code cannot be exchanged,
\* the login ends.
Callback(t) ==
    /\ user[t] = None
    /\ \/ /\ at[t] \in {"callback", "mismatch"}
          /\ Answer(t, NoCookies)
       \/ /\ at[t] = "callback"
          /\ at' = [at EXCEPT ![t] = "approve"]
          /\ UNCHANGED sets
    /\ UNCHANGED <<rule, user, settings, browserVars, hookVars>>

Save(t, scope, session) ==
    Answer(t, [kind |-> "save", cookie |-> [scope |-> scope, session |-> session]])

\* Mutant of ApproveLogin: whether the hook lets the user in is not looked at.
ApproveLoginAlways(t) ==
    /\ at[t] = "approve"
    /\ Save(t, "domain", LoginRoles)
    /\ UNCHANGED <<rule, user, settings, browserVars, hookVars>>

\* handleMutatingPostAuthentication, and the cookies of the user it returned.
ApproveLogin(t) ==
    /\ at[t] = "approve"
    /\ \/ LetIn(LoginRoles) /\ Save(t, "domain", LoginRoles)
       \/ Refuse /\ Answer(t, NoCookies)
    /\ UNCHANGED <<rule, user, settings, browserVars, granted, tokenCache>>
-----------------------------------------------------------------------------
(* The user endpoint and the logout *)

\* Without a user 404; otherwise the user, revalidated when the request asks for it.
User(t) ==
    /\ at[t] = "user"
    /\ \/ Answer(t, NoCookies)
       \/ /\ user[t] # None
          /\ at' = [at EXCEPT ![t] = "revalidate"] /\ UNCHANGED sets
    /\ UNCHANGED <<rule, user, settings, browserVars, hookVars>>

\* Mutant of Revalidate: the user of the request is saved, not the hook's.
RevalidateOldUser(t) ==
    /\ at[t] = "revalidate"
    /\ \/ LetIn(granted) /\ Save(t, "host", user[t])
       \/ Refuse /\ Answer(t, NoCookies)
    /\ UNCHANGED <<rule, user, settings, browserVars, granted, tokenCache>>

\* Mutant of Revalidate: the answer resets the session before the hook is asked.
RevalidateResets(t) ==
    /\ at[t] = "revalidate"
    /\ sets' = [sets EXCEPT ![t] = [kind |-> "reset"]]
    /\ UNCHANGED <<at, rule, user, settings, browserVars, hookVars>>

\* The handler was given no Host, so that the cookies it saves name no domain.
\* A refusal is answered with 404 and leaves the cookies as they are.
Revalidate(t) ==
    /\ at[t] = "revalidate"
    /\ \/ LetIn(granted) /\ Save(t, "host", granted)
       \/ Refuse /\ Answer(t, NoCookies)
    /\ UNCHANGED <<rule, user, settings, browserVars, granted, tokenCache>>

\* Whether or not there is a user: the postLogout hook of a user is called after
\* the headers are set and before they are sent.
Logout(t) ==
    /\ at[t] = "logout"
    /\ Answer(t, [kind |-> "reset"])
    /\ UNCHANGED <<rule, user, settings, browserVars, hookVars>>
-----------------------------------------------------------------------------
(* Bearer tokens and operations *)

\* User.Load with a bearer token: the cache, or the hooks ...
LoadToken(t) ==
    /\ at[t] = "token"
    /\ IF tokenCache = None
       THEN at' = [at EXCEPT ![t] = "tokenHook"] /\ UNCHANGED <<rule, user>>
       ELSE Reach(t, tokenCache)
    /\ UNCHANGED <<sets, settings, browserVars, hookVars>>

\* ... and when they refuse, the cookies of the request.  The cache may drop what
\* it is given.
ApproveToken(t) ==
    /\ at[t] = "tokenHook"
    /\ \/ /\ LetIn(LoginRoles)
          /\ Reach(t, LoginRoles)
          /\ tokenCache' \in {LoginRoles, tokenCache}
       \/ Refuse /\ Reach(t, user[t]) /\ UNCHANGED tokenCache
    /\ UNCHANGED <<sets, settings, browserVars, granted>>

TokenExpires ==
    /\ tokenCache # None
    /\ tokenCache' = None
    /\ UNCHANGED <<granted, approved, settings, browserVars, requestVars>>

\* RBACEnforcer.Enforce; an empty list of a rule is no rule.
Enforce(r, roles) ==
    /\ r.requireMatchAll \subseteq roles
    /\ r.requireMatchAny = {} \/ r.requireMatchAny \cap roles # {}
    /\ r.denyMatchAll = {} \/ ~(r.denyMatchAll \subseteq roles)
    /\ r.denyMatchAny \cap roles = {}

\* RequiresAuthentication, and the enforcer of an operation with rules.
Operation(t) ==
    /\ at[t] = "operation"
    /\ at' = [at EXCEPT ![t] = IF user[t] # None /\ (rule[t] # NoRule => Enforce(rule[t], user[t]))
                               THEN "served" ELSE "answered"]
    /\ UNCHANGED <<rule, user, sets, settings, browserVars, hookVars>>
-----------------------------------------------------------------------------
Next ==
    \/ \E t \in Tabs :
          \/ Send(t) \/ SendToken(t) \/ SendCallback(t) \/ Receive(t)
          \/ Redirect(t) \/ Authorize(t) \/ Callback(t) \/ ApproveLogin(t)
          \/ User(t) \/ Revalidate(t) \/ Logout(t)
          \/ LoadToken(t) \/ ApproveToken(t) \/ Operation(t)
    \/ StateExpires \/ TokenExpires \/ GrantsChange \/ Spoil

Spec == Init /\ [][Next]_vars
-----------------------------------------------------------------------------
(* What a session guarantees *)

\* Whatever the order of the answers, the roles that a request goes on with are
\* roles that the user was let in with, by a hook where there is one, or, after a
\* "user" cookie has ceased to decode, none; and what is served is allowed by each
\* of the four lists of the operation's rule.
ServedAsApproved ==
    /\ \A t \in Tabs : user[t] # None => user[t] \in approved \/ (spoiled /\ user[t] = {})
    /\ \A i \in DOMAIN jar : jar[i].session \in approved \cup {Unreadable}
    /\ \A t \in Tabs : at[t] = "served" =>
          /\ user[t] # None
          /\ rule[t].requireMatchAll \subseteq user[t]
          /\ rule[t].requireMatchAny # {} => \E role \in rule[t].requireMatchAny : role \in user[t]
          /\ rule[t].denyMatchAll # {} => \E role \in rule[t].denyMatchAll : role \notin user[t]
          /\ user[t] \cap rule[t].denyMatchAny = {}

\* The next request carries what the last answer left, unless the browser keeps
\* the cookies of a revalidation apart from those of a login; a session whose
\* cookie has ceased to decode is carried as a user without roles.
Unmixed(scope) == ~separate \/ \A i \in DOMAIN jar : jar[i].scope = scope
LastAnswerCounts ==
    Unmixed("domain") => Carried = left \/ (spoiled /\ left # None /\ Carried = {})

\* Where the browser has no cookie of a login beside those of a revalidation:
\* while the hooks give a user the same roles, revalidation after revalidation
\* brings the session to these roles.
RevalidationIsReceived ==
    \E t \in Tabs :
        /\ Receive(t)
        /\ sets[t].kind = "save" /\ sets[t].cookie.scope = "host"
RevalidationConverges ==
    \A roles \in Sessions :
        (/\ <>[](granted = roles /\ hooked /\ Unmixed("host"))
         /\ []<><<RevalidationIsReceived>>_vars)
        => <>[](Carried \in {roles, None})

\* The documentation of the revalidate hook: what it returns for the user is the
\* user from then on.  The request after a revalidation carries what it saved.
RevalidationUpdatesUser == [][RevalidationIsReceived => Carried' = left']_vars

\* The documentation of the postLogout hook: it is called after the user has
\* been logged out.  What the answer to a logout leaves is the end of the session.
\* It fails where the one above does: a revalidation's cookies outlive the logout.
LogoutEndsSession == left = None => Carried = None
=============================================================================
