----------------------------- MODULE QueryCache -----------------------------
(***************************************************************************)
(* QueryHandler.ServeHTTP (pkg/apihandler/apihandler.go): concurrent query *)
(* requests of one node, the response cache they share (pkg/apicache) and  *)
(* the pool of byte buffers they take their variables' memory from         *)
(* (pkg/pool).                                                             *)
(*                                                                         *)
(* Go runs deferred calls last-in first-out.  A handler therefore puts the *)
(* buffer its variables live in back into the pool first, and only then    *)
(* runs the closure that revalidates a stale cache entry with those same   *)
(* variables: Release comes before Revalidate here as it does there.       *)
(*                                                                         *)
(* Abstractions.  A key is the request URI and stands for the variables    *)
(* parsed from it; the operations of the keys outside Cached have no       *)
(* cacheConfig.  A result is the key whose variables it was resolved with, *)
(* the version of the upstream data it read, and its form: "raw" as the    *)
(* resolver left it, or "final" after the transformations and hooks.  A    *)
(* 304 confirms the result a 200 would have carried, so the two are one    *)
(* answer.  buf and hookBuf are scratch memory that is not read after its  *)
(* put, so only compactBuf is modelled.  The resolver reads the variables  *)
(* in one step, the mildest reading of memory that another request may be  *)
(* writing.  Live queries leave before the cache is consulted and are not  *)
(* modelled here.                                                          *)
(***************************************************************************)
EXTENDS Integers, FiniteSets

CONSTANTS
    Requests,              \* requests the node handles at a time
    Keys,                  \* request URIs
    Cached,                \* those whose operation has caching enabled
    Buffers,               \* byte buffers of the pool
    MaxAge,                \* cacheConfig.maxAge
    StaleWhileRevalidate,  \* cacheConfig.staleWhileRevalidate
    MaxVersion,            \* bound: versions of the upstream data
    None

ASSUME CacheAssumption ==
    /\ Cached \subseteq Keys
    /\ MaxAge \in Nat
    /\ StaleWhileRevalidate \in Nat
    /\ MaxVersion \in Nat
    /\ None \notin Keys \cup Buffers

VARIABLES
    pc,       \* pc[r]: the statement request r is about to run
    key,      \* key[r]: its URI
    since,    \* since[r]: the upstream version when r arrived
    vars,     \* vars[r]: the buffer ctx.Variables points into
    stale,    \* stale[r]: cacheIsStale
    out,      \* out[r]: the result r has resolved, None before
    answer,   \* answer[r]: what the client of r gets, None before
    mem,      \* mem[b]: the key whose variables were last written to b
    free,     \* buffers in the pool
    cache,    \* cache[k]: the item under k, None if there is none
    version   \* version of the upstream data

locals == <<key, since, vars, stale, out, answer>>
store == <<mem, free, cache, version>>
allVars == <<pc, locals, store>>

Ttl == MaxAge + StaleWhileRevalidate

Result == [key : Keys, version : 0 .. MaxVersion, form : {"raw", "final"}]

\* An item carries the time to live it was stored with.  Its age stops counting
\* when it is past every comparison the code makes.
Item == [data : Result, age : 0 .. Ttl + 1, ttl : {Ttl, 0}]

NoAnswer == [kind |-> "none"]
Answer ==
    [kind : {"none", "error", "custom"}]
    \cup [kind : {"miss"}, data : Result]
    \cup [kind : {"hit"}, data : Result, age : 0 .. Ttl + 1]

Stages == {"idle", "compact", "lookup", "resolve", "transform", "store",
           "release", "deferred", "revalidated", "end"}

TypeOK ==
    /\ pc \in [Requests -> Stages]
    /\ key \in [Requests -> Keys \cup {None}]
    /\ since \in [Requests -> 0 .. MaxVersion]
    /\ vars \in [Requests -> Buffers \cup {None}]
    /\ stale \in [Requests -> BOOLEAN]
    /\ out \in [Requests -> Result \cup {None}]
    /\ answer \in [Requests -> Answer]
    /\ mem \in [Buffers -> Keys \cup {None}]
    /\ free \in SUBSET Buffers
    /\ cache \in [Keys -> Item \cup {None}]
    /\ version \in 0 .. MaxVersion

Init ==
    /\ pc = [r \in Requests |-> "idle"]
    /\ key = [r \in Requests |-> None]
    /\ since = [r \in Requests |-> 0]
    /\ vars = [r \in Requests |-> None]
    /\ stale = [r \in Requests |-> FALSE]
    /\ out = [r \in Requests |-> None]
    /\ answer = [r \in Requests |-> NoAnswer]
    /\ mem = [b \in Buffers |-> None]
    /\ free = Buffers
    /\ cache = [k \in Keys |-> None]
    /\ version = 0

Goto(r, stage) == pc' = [pc EXCEPT ![r] = stage]

-----------------------------------------------------------------------------
(***************************************************************************)
(* The cache (external: ristretto in process, or redis).                   *)
(***************************************************************************)

\* Get finds an item until its time to live has passed.  A time to live of
\* zero is no limit.
Alive(item) == item # None /\ (item.ttl = 0 \/ item.age <= item.ttl)

\* Mutant: the item is stored without its time to live (Set).
SetWithoutTTL(k, data) ==
    cache' \in {cache, [cache EXCEPT ![k] = [data |-> data, age |-> 0, ttl |-> 0]]}

\* SetWithTTL stores a copy with the time of the call.  Both caches may drop a
\* store: ristretto when its write buffer is full or its policy rejects the
\* item, redis when it cannot be reached.
SetWithTTL(k, data) ==
    cache' \in {cache, [cache EXCEPT ![k] = [data |-> data, age |-> 0, ttl |-> Ttl]]}

\* A second passes for every item.
Tick ==
    /\ \E k \in Keys : cache[k] # None /\ cache[k].age <= Ttl
    /\ cache' = [k \in Keys |->
                    IF cache[k] = None \/ cache[k].age > Ttl
                      THEN cache[k]
                      ELSE [cache[k] EXCEPT !.age = @ + 1]]
    /\ UNCHANGED <<pc, locals, mem, free, version>>

\* The cache evicts an item: it expired, or others needed its room.
Evict(k) ==
    /\ cache[k] # None
    /\ cache' = [cache EXCEPT ![k] = None]
    /\ UNCHANGED <<pc, locals, mem, free, version>>

\* Someone changes the upstream data.
Update ==
    /\ version < MaxVersion
    /\ version' = version + 1
    /\ UNCHANGED <<pc, locals, mem, free, cache>>

-----------------------------------------------------------------------------
(***************************************************************************)
(* The handler.                                                            *)
(***************************************************************************)

\* ResolveGraphQLResponse: reads the variables where ctx.Variables points to
\* and fetches the upstream data they ask for.
Resolved(r) == [key |-> mem[vars[r]], version |-> version, form |-> "raw"]

\* A request arrives: its variables are parsed and interpolated.
Begin(r, k) ==
    /\ pc[r] = "idle"
    /\ Goto(r, "compact")
    /\ key' = [key EXCEPT ![r] = k]
    /\ since' = [since EXCEPT ![r] = version]
    /\ UNCHANGED <<vars, stale, out, answer, store>>

\* Mutant: the put of compactBuf is deferred before the buffer is taken.
RejectAndRelease(r) ==
    /\ pc[r] = "compact"
    /\ Goto(r, "release")
    /\ answer' = [answer EXCEPT ![r] = [kind |-> "error"]]
    /\ UNCHANGED <<key, since, vars, stale, out, store>>

\* The RBAC check or the variables' validation refuses the request.  Nothing
\* was taken from the pool for its variables.
Reject(r) ==
    /\ pc[r] = "compact"
    /\ Goto(r, "deferred")
    /\ answer' = [answer EXCEPT ![r] = [kind |-> "error"]]
    /\ UNCHANGED <<key, since, vars, stale, out, store>>

\* Mutant: compactBuf is put back at once, not deferred.
CompactAndRelease(r) ==
    /\ pc[r] = "compact"
    /\ \E b \in free :
          /\ mem' = [mem EXCEPT ![b] = key[r]]
          /\ vars' = [vars EXCEPT ![r] = b]
    /\ Goto(r, IF key[r] \in Cached THEN "lookup" ELSE "resolve")
    /\ UNCHANGED <<key, since, stale, out, answer, free, cache, version>>

\* compactBuf := pool.GetBytesBuffer(); json.Compact(compactBuf, ctx.Variables);
\* ctx.Variables = compactBuf.Bytes().  What follows returns the same slice for
\* an operation that interpolates, extracts and injects nothing.
Compact(r) ==
    /\ pc[r] = "compact"
    /\ \E b \in free :
          /\ free' = free \ {b}
          /\ mem' = [mem EXCEPT ![b] = key[r]]
          /\ vars' = [vars EXCEPT ![r] = b]
    /\ Goto(r, IF key[r] \in Cached THEN "lookup" ELSE "resolve")
    /\ UNCHANGED <<key, since, stale, out, answer, cache, version>>

\* The cache has the item: it is the answer, stale or not.
Hit(r) ==
    /\ pc[r] = "lookup"
    /\ Alive(cache[key[r]])
    /\ LET item == cache[key[r]]
       IN  /\ answer' = [answer EXCEPT ![r] =
                           [kind |-> "hit", data |-> item.data, age |-> item.age]]
           /\ stale' = [stale EXCEPT ![r] = item.age > MaxAge]
    /\ Goto(r, "release")
    /\ UNCHANGED <<key, since, vars, out, store>>

\* The cache has no such item, or redis failed to look it up.
Miss(r) ==
    /\ pc[r] = "lookup"
    /\ Goto(r, "resolve")
    /\ UNCHANGED <<locals, store>>

\* The mockResolve or the customResolve hook answers in place of the resolver.
HookAnswers(r) ==
    /\ pc[r] \in {"lookup", "resolve"}
    /\ answer' = [answer EXCEPT ![r] = [kind |-> "custom"]]
    /\ Goto(r, "release")
    /\ UNCHANGED <<key, since, vars, stale, out, store>>

\* A hook, the resolver or a transformation fails: handleOperationErr and
\* handleHookOut answer an error status.
Fail(r) ==
    /\ pc[r] \in {"lookup", "resolve", "transform"}
    /\ answer' = [answer EXCEPT ![r] = [kind |-> "error"]]
    /\ Goto(r, "release")
    /\ UNCHANGED <<key, since, vars, stale, out, store>>

Resolve(r) ==
    /\ pc[r] = "resolve"
    /\ out' = [out EXCEPT ![r] = Resolved(r)]
    /\ Goto(r, "transform")
    /\ UNCHANGED <<key, since, vars, stale, answer, store>>

\* postResolveTransformer.Transform, then the postResolve and the
\* mutatingPostResolve hook.
Transform(r) ==
    /\ pc[r] = "transform"
    /\ out' = [out EXCEPT ![r].form = "final"]
    /\ Goto(r, "store")
    /\ UNCHANGED <<key, since, vars, stale, answer, store>>

\* The result is stored and sent, or confirmed when the client has it.
StoreAndWrite(r) ==
    /\ pc[r] = "store"
    /\ IF key[r] \in Cached THEN SetWithTTL(key[r], out[r]) ELSE UNCHANGED cache
    /\ answer' = [answer EXCEPT ![r] = [kind |-> "miss", data |-> out[r]]]
    /\ Goto(r, "release")
    /\ UNCHANGED <<key, since, vars, stale, out, mem, free, version>>

\* The first deferred calls: compactBuf goes back to the pool.  ctx.Variables
\* still points into it.
Release(r) ==
    /\ pc[r] = "release"
    /\ free' = free \cup {vars[r]}
    /\ Goto(r, "deferred")
    /\ UNCHANGED <<locals, mem, cache, version>>

\* The last deferred closure: a stale item is resolved anew, on the goroutine
\* of the request.
Revalidate(r) ==
    /\ pc[r] = "deferred"
    /\ stale[r]
    /\ out' = [out EXCEPT ![r] = Resolved(r)]
    /\ Goto(r, "revalidated")
    /\ UNCHANGED <<key, since, vars, stale, answer, store>>

\* What was resolved is stored as the resolver left it.
StoreRevalidated(r) ==
    /\ pc[r] = "revalidated"
    /\ SetWithTTL(key[r], out[r])
    /\ Goto(r, "end")
    /\ UNCHANGED <<locals, mem, free, version>>

\* There is nothing to revalidate, or the resolver fails, which is ignored.
SkipRevalidation(r) ==
    /\ pc[r] = "deferred"
    /\ Goto(r, "end")
    /\ UNCHANGED <<locals, store>>

\* The handler returns, and with it net/http completes the response.
End(r) ==
    /\ pc[r] = "end"
    /\ Goto(r, "idle")
    /\ key' = [key EXCEPT ![r] = None]
    /\ since' = [since EXCEPT ![r] = 0]
    /\ vars' = [vars EXCEPT ![r] = None]
    /\ stale' = [stale EXCEPT ![r] = FALSE]
    /\ out' = [out EXCEPT ![r] = None]
    /\ answer' = [answer EXCEPT ![r] = NoAnswer]
    /\ UNCHANGED store

Handle(r) ==
    \/ \E k \in Keys : Begin(r, k)
    \/ Reject(r)
    \/ Compact(r)
    \/ Hit(r)
    \/ Miss(r)
    \/ HookAnswers(r)
    \/ Fail(r)
    \/ Resolve(r)
    \/ Transform(r)
    \/ StoreAndWrite(r)
    \/ Release(r)
    \/ Revalidate(r)
    \/ StoreRevalidated(r)
    \/ SkipRevalidation(r)
    \/ End(r)

Next ==
    \/ \E r \in Requests : Handle(r)
    \/ Tick
    \/ \E k \in Keys : Evict(k)
    \/ Update

Spec == Init /\ [][Next]_allVars
-----------------------------------------------------------------------------
(* Safety *)

\* A result that was not taken from the cache answers the request that was made:
\* it was resolved with the request's own variables whatever other handlers did
\* with the pool meanwhile, it reads the upstream data no earlier than the
\* request came in, and it went through the transformations and hooks.
MissAnswersOwnResult ==
    \A r \in Requests :
        answer[r].kind = "miss" =>
            /\ answer[r].data.key = key[r]
            /\ answer[r].data.version \in since[r] .. version
            /\ answer[r].data.form = "final"

\* Stale data is acceptable for staleWhileRevalidate seconds after maxAge and
\* no longer: no client is sent an item that was stored before, whatever
\* revalidations failed or were dropped.
HitIsWithinTtl ==
    \A r \in Requests :
        answer[r].kind = "hit" /\ Ttl > 0 => answer[r].age <= Ttl

\* http-layer-caching.md:63, "cached objects are the same for all users": what
\* is cached under a URI is the result of that URI's variables.
CachedUnderOwnKey == \A k \in Keys : cache[k] # None => cache[k].data.key = k
=============================================================================
