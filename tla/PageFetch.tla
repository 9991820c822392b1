----------------------------- MODULE PageFetch ------------------------------
(***************************************************************************)
(* browser.py: fetch_page and the cache of RNS links it keeps, one link    *)
(* per destination.                                                        *)
(*                                                                         *)
(* A fetch runs on its own thread under the lock of its destination.  It   *)
(* finds a path, tries the cached link once, then fresh links: up to       *)
(* MAX_ATTEMPTS of them and, if an announce comes in time, one more.  An   *)
(* attempt waits for an event that callbacks on Reticulum's threads set,   *)
(* and gives up when its watchdog runs out; the callbacks may then still   *)
(* come, and write to the result of that attempt.  Fetches of other        *)
(* destinations push links out of the cache, and the keepalive thread      *)
(* throws out the link of a node it could not reach, neither of them       *)
(* holding the lock of that destination.                                   *)
(*                                                                         *)
(* Reticulum is external.  Assumed of it: a link is established at most    *)
(* once; a request is answered or fails at most once, possibly after its   *)
(* link has closed; the closed callback registered when a link closes runs *)
(* soon after it, whichever side closed it.                                *)
(***************************************************************************)
EXTENDS Naturals, FiniteSets

CONSTANTS Fetch,        \* the calls of fetch_page
          Dest,         \* destinations
          DestOf,       \* the destination of each fetch
          Keepalive,    \* the fetches that are the keepalive thread's
          NoFetch,      \* the value of lock[d] while the lock is free
          MaxCached,    \* LINK_CACHE_MAX_SIZE
          MaxAttempts,  \* MAX_ATTEMPTS
          MaxLinks      \* bound: how many links are opened in all

ASSUME FetchAssumption ==
    /\ IsFiniteSet(Dest)
    /\ DestOf \in [Fetch -> Dest]
    /\ Keepalive \subseteq Fetch
    /\ NoFetch \notin Fetch
    /\ MaxCached \in Nat \ {0} /\ MaxAttempts \in Nat \ {0} /\ MaxLinks \in Nat

(* Links are numbered in the order they are opened.                        *)
Link == 1..MaxLinks
NoLink == 0

VARIABLES
    pc,       \* where each fetch is in _fetch_page_locked
    attempt,  \* the fresh links each fetch has opened
    link,     \* the link of its attempt, NoLink before the first
    final,    \* the attempt whose result dict is final_result
    victims,  \* the links it popped from the cache and has yet to tear down
    lock,     \* _inflight_fetches
    cache,    \* _link_cache
    before,   \* the destinations cached longer than each one
    state,    \* the link's status, and how far its closed callback is
    watch,    \* whose closed callback is registered on each link
    request,  \* the request sent on each link
    result    \* the result dict and the event of the attempt on each link

fetchVars == <<pc, attempt, link, final, victims>>
cacheVars == <<cache, before>>
linkVars  == <<state, watch, request, result>>
vars == <<fetchVars, lock, cacheVars, linkVars>>

Point == {"start", "path", "lookup", "check", "reuse", "drop", "fresh",
          "wait", "judge", "kept", "torn", "store", "evict", "watch",
          "salvage", "record", "done", "failed", "reset", "over"}

(* "other" stands for the errors that are not RETRYABLE_ERRORS; "blank"    *)
(* for the b"" of an empty response or one that could not be read.         *)
Result == [content : {"none", "page", "blank"},
           error : {"none", "retry", "other"}, done : BOOLEAN]
NoResult == [content |-> "none", error |-> "none", done |-> FALSE]

TypeOK ==
    /\ pc \in [Fetch -> Point]
    /\ attempt \in [Fetch -> 0..(MaxAttempts + 1)]
    /\ link \in [Fetch -> Link \cup {NoLink}]
    /\ final \in [Fetch -> Link \cup {NoLink}]
    /\ victims \in [Fetch -> SUBSET Link]
    /\ lock \in [Dest -> Fetch \cup {NoFetch}]
    /\ cache \in [Dest -> Link \cup {NoLink}]
    /\ Cardinality({d \in Dest : cache[d] # NoLink}) <= MaxCached
    /\ before \in [Dest -> SUBSET Dest]
    /\ state \in [Link -> {"new", "pending", "active",
                           "closing", "reporting", "closed"}]
    /\ watch \in [Link -> {"attempt", "cache"}]
    /\ request \in [Link -> {"none", "sent", "refused", "over"}]
    /\ result \in [Link -> Result]

Init ==
    /\ pc = [f \in Fetch |-> "start"]
    /\ attempt = [f \in Fetch |-> 0]
    /\ link = [f \in Fetch |-> NoLink]
    /\ final = [f \in Fetch |-> NoLink]
    /\ victims = [f \in Fetch |-> {}]
    /\ lock = [d \in Dest |-> NoFetch]
    /\ cache = [d \in Dest |-> NoLink]
    /\ before = [d \in Dest |-> {}]
    /\ state = [l \in Link |-> "new"]
    /\ watch = [l \in Link |-> "attempt"]
    /\ request = [l \in Link |-> "none"]
    /\ result = [l \in Link |-> NoResult]

-----------------------------------------------------------------------------
(* The links.                                                              *)

(* The state of a link after its teardown() or after its peer's.           *)
Closed(s) == IF s \in {"pending", "active"} THEN "closing" ELSE s
TearDown(L) == state' = [l \in Link |-> IF l \in L THEN Closed(state[l])
                                                    ELSE state[l]]

DoneOnly(l, error) == [result[l] EXCEPT !.done = TRUE]
Fail(l, error) == [result[l] EXCEPT !.error = error, !.done = TRUE]

(* link.request returns False when the link is not active any more or no   *)
(* interface takes the packet; then no callback will ever come, and the    *)
(* attempt is told at once.                                                *)
Send(l, r) ==
    \/ /\ request' = [request EXCEPT ![l] = "sent"]
       /\ result' = [result EXCEPT ![l] = r]
       /\ state[l] \in {"pending", "active"}
    \/ /\ request' = [request EXCEPT ![l] = "refused"]
       /\ result' = [result EXCEPT ![l] =
                       [r EXCEPT !.error = "retry", !.done = TRUE]]

(* _on_link_established.                                                   *)
Established(l) ==
    /\ state[l] = "pending"
    /\ Send(l, result[l])
    /\ state' = [state EXCEPT ![l] = "active"]
    /\ UNCHANGED <<fetchVars, lock, cacheVars, watch>>

(* _on_response: it never looks at what the watchdog has decided.          *)
Response(l) ==
    /\ request[l] = "sent"
    /\ request' = [request EXCEPT ![l] = "over"]
    /\ \/ result' = [result EXCEPT ![l].content = "page", ![l].done = TRUE]
       \/ result' = [result EXCEPT ![l] = [content |-> "blank",
                                           error |-> "other", done |-> TRUE]]
    /\ UNCHANGED <<fetchVars, lock, cacheVars, state, watch>>

(* _on_failed.                                                             *)
RequestFailed(l) ==
    /\ request[l] = "sent"
    /\ request' = [request EXCEPT ![l] = "over"]
    /\ result' = [result EXCEPT ![l] = Fail(l, "retry")]
    /\ UNCHANGED <<fetchVars, lock, cacheVars, state, watch>>

(* The peer closes the link, or Reticulum gives it up.                     *)
PeerCloses(l) ==
    /\ state[l] \in {"pending", "active"}
    /\ TearDown({l})
    /\ UNCHANGED <<fetchVars, lock, cacheVars, watch, request, result>>

(* What the cache holds without the links of D.                            *)
Pop(D) ==
    /\ cache' = [d \in Dest |-> IF d \in D THEN NoLink ELSE cache[d]]
    /\ before' = [d \in Dest |-> IF d \in D THEN {} ELSE before[d] \ D]

(* The closed callback.  That of the cache, _on_close, takes the link out  *)
(* if it is still the one stored; that of the attempt, _on_link_closed,    *)
(* reports an error if it finds the event not set, in two steps.           *)
ClosedCallback(l) ==
    /\ state[l] = "closing"
    /\ IF watch[l] = "cache"
       THEN /\ Pop({d \in Dest : cache[d] = l})
            /\ state' = [state EXCEPT ![l] = "closed"]
       ELSE /\ state' = [state EXCEPT ![l] =
                           IF result[l].done THEN "closed" ELSE "reporting"]
            /\ UNCHANGED cacheVars
    /\ UNCHANGED <<fetchVars, lock, watch, request, result>>

ClosedReport(l) ==
    /\ state[l] = "reporting"
    /\ state' = [state EXCEPT ![l] = "closed"]
    /\ result' = [result EXCEPT ![l] = Fail(l, "retry")]
    /\ UNCHANGED <<fetchVars, lock, cacheVars, watch, request>>

-----------------------------------------------------------------------------
(* The fetch, up to its first attempt.                                     *)

Go(f, p) == pc' = [pc EXCEPT ![f] = p]
D(f) == DestOf[f]

EnterAnyway(f) ==
    /\ pc[f] = "start"
    /\ lock' = [lock EXCEPT ![D(f)] = f]
    /\ Go(f, "path")
    /\ UNCHANGED <<attempt, link, final, victims, cacheVars, linkVars>>
LockDest(f) ==
    /\ pc[f] = "start"
    /\ lock[D(f)] = NoFetch
    /\ lock' = [lock EXCEPT ![D(f)] = f]
    /\ Go(f, "path")
    /\ UNCHANGED <<attempt, link, final, victims, cacheVars, linkVars>>

(* The lock is left by every return.                                       *)
Leave(f, p) ==
    /\ lock' = [lock EXCEPT ![D(f)] = NoFetch]
    /\ Go(f, p)
    /\ UNCHANGED <<attempt, link, final, victims, cacheVars, linkVars>>

PathFound(f) ==
    /\ pc[f] = "path"
    /\ Go(f, "lookup")
    /\ UNCHANGED <<attempt, link, final, victims, lock, cacheVars, linkVars>>

(* No path within PATH_TIMEOUT, or no identity: the fetch returns.         *)
PathTimeout(f) == pc[f] = "path" /\ Leave(f, "failed")

(* _get_cached_link reads the cache, and then looks at the link.           *)
Lookup(f) ==
    /\ pc[f] = "lookup"
    /\ link' = [link EXCEPT ![f] = cache[D(f)]]
    /\ Go(f, IF cache[D(f)] = NoLink THEN "fresh" ELSE "check")
    /\ UNCHANGED <<attempt, final, victims, lock, cacheVars, linkVars>>

CheckActive(f) ==
    /\ pc[f] = "check"
    /\ state[link[f]] = "active"
    /\ Go(f, "reuse")
    /\ UNCHANGED <<attempt, link, final, victims, lock, cacheVars, linkVars>>

(* _evict_cached_link pops the entry.  It tears down what it popped if the *)
(* link has just failed; the stale link of _get_cached_link is torn down   *)
(* although another thread may have popped it before.                      *)
Discard(f) ==
    /\ \/ pc[f] = "check" /\ state[link[f]] # "active" /\ TearDown({link[f]})
       \/ pc[f] = "drop" /\ TearDown({cache[D(f)]})
    /\ Pop({D(f)})
    /\ Go(f, "fresh")
    /\ UNCHANGED <<attempt, link, final, victims, lock, watch, request, result>>

-----------------------------------------------------------------------------
(* The attempts.                                                           *)

(* _do_attempt(existing_link): the link may have closed since the check.   *)
Reuse(f) ==
    /\ pc[f] = "reuse"
    /\ watch' = [watch EXCEPT ![link[f]] = "attempt"]
    /\ Send(link[f], NoResult)
    /\ Go(f, "wait")
    /\ UNCHANGED <<attempt, link, final, victims, lock, cacheVars, state>>

(* _do_attempt(): RNS.Link with the attempt's callbacks.                   *)
OpenLink(f) ==
    /\ pc[f] = "fresh"
    /\ \E l \in Link :
         /\ state[l] = "new" /\ \A k \in Link : k < l => state[k] # "new"
         /\ state' = [state EXCEPT ![l] = "pending"]
         /\ link' = [link EXCEPT ![f] = l]
    /\ attempt' = [attempt EXCEPT ![f] = @ + 1]
    /\ Go(f, "wait")
    /\ UNCHANGED <<final, victims, lock, cacheVars, watch, request, result>>

WakeUp(f) ==
    /\ pc[f] = "wait"
    /\ result[link[f]].done
    /\ Go(f, "judge")
    /\ UNCHANGED <<attempt, link, final, victims, lock, cacheVars, linkVars>>

(* The watchdog: LINK_ESTABLISH_TIMEOUT until the link is established, and *)
(* then the stall timeouts and the hard cap.  It does not set the event,   *)
(* which may have been set since the loop tested it.                       *)
TimeoutOnceEstablished(f) ==
    /\ pc[f] = "wait"
    /\ request[link[f]] # "none"
    /\ result' = [result EXCEPT ![link[f]].error = "other"]
    /\ Go(f, "judge")
    /\ UNCHANGED <<attempt, link, final, victims, lock, cacheVars, state,
                   watch, request>>
Timeout(f) ==
    /\ pc[f] = "wait"
    /\ result' = [result EXCEPT ![link[f]].error =
                    IF request[link[f]] = "none" THEN "retry" ELSE "other"]
    /\ Go(f, "judge")
    /\ UNCHANGED <<attempt, link, final, victims, lock, cacheVars, state,
                   watch, request>>

(* The end of _do_attempt.  A fresh link without content is torn down; a   *)
(* reused one is left to the caller.                                       *)
Judge(f) ==
    /\ pc[f] = "judge"
    /\ LET nothing == result[link[f]].content = "none"
       IN IF attempt[f] = 0
          THEN /\ Go(f, IF nothing THEN "drop" ELSE "store")
               /\ final' = [final EXCEPT ![f] = IF nothing THEN NoLink
                                                           ELSE link[f]]
               /\ UNCHANGED state
          ELSE /\ Go(f, IF nothing THEN "torn" ELSE "kept")
               /\ IF nothing THEN TearDown({link[f]}) ELSE UNCHANGED state
               /\ UNCHANGED final
    /\ UNCHANGED <<attempt, link, victims, lock, cacheVars, watch, request,
                   result>>

(* The retry loop looks at the content again.                              *)
Success(f) ==
    /\ pc[f] \in {"kept", "torn"}
    /\ result[link[f]].content # "none"
    /\ final' = [final EXCEPT ![f] = link[f]]
    /\ Go(f, IF pc[f] = "kept" THEN "store" ELSE "record")
    /\ UNCHANGED <<attempt, link, victims, lock, cacheVars, linkVars>>

Retry(f) ==
    /\ pc[f] = "torn"
    /\ result[link[f]].content = "none"
    /\ IF attempt[f] <= MaxAttempts
       THEN /\ final' = [final EXCEPT ![f] = link[f]]
            /\ Go(f, IF /\ result[link[f]].error = "retry"
                        /\ attempt[f] < MaxAttempts
                     THEN "fresh" ELSE "salvage")
       ELSE Go(f, "record") /\ UNCHANGED final
    /\ UNCHANGED <<attempt, link, victims, lock, cacheVars, linkVars>>

(* "Final salvage": one more attempt, if the last error was retryable and  *)
(* an announce of the destination comes within FINAL_ANNOUNCE_WAIT.        *)
Salvage(f) ==
    /\ pc[f] = "salvage"
    /\ \/ /\ result[final[f]].content = "none"
          /\ result[final[f]].error = "retry"
          /\ Go(f, "fresh")
          /\ attempt' = [attempt EXCEPT ![f] = MaxAttempts]
       \/ Go(f, "record") /\ UNCHANGED attempt
    /\ UNCHANGED <<link, final, victims, lock, cacheVars, linkVars>>

-----------------------------------------------------------------------------
(* _cache_link, the return of fetch_page, and the keepalive thread's       *)
(* _reset_default_node_rns_state.                                          *)

Cached == {d \in Dest : cache[d] # NoLink}
Oldest(S) == {d \in S : before[d] \cap S = {}}

(* The destination pushed out when d enters the cache.                     *)
EvictedByOneMore(d) ==
    IF Cardinality(Cached \ {d}) > MaxCached THEN Oldest(Cached \ {d}) ELSE {}
Evicted(d) ==
    IF Cardinality(Cached \ {d}) >= MaxCached THEN Oldest(Cached \ {d}) ELSE {}

(* Under _link_cache_lock: take out the link of d itself, so that the new  *)
(* entry comes last, make room, insert.                                    *)
StoreLink(f) ==
    /\ pc[f] = "store"
    /\ LET d   == D(f)
           out == Evicted(d)
       IN /\ cache' = [e \in Dest |-> IF e = d THEN link[f]
                                      ELSE IF e \in out THEN NoLink ELSE cache[e]]
          /\ before' = [e \in Dest |-> IF e = d THEN Cached \ (out \cup {d})
                                       ELSE IF e \in out THEN {}
                                       ELSE before[e] \ (out \cup {d})]
          /\ victims' = [victims EXCEPT ![f] =
                            {cache[e] : e \in out \cup {d}} \ {link[f], NoLink}]
    /\ Go(f, "evict")
    /\ UNCHANGED <<attempt, link, final, lock, linkVars>>

(* After the cache's lock is released, and so is that of the destination   *)
(* in the keepalive thread.                                                *)
TearDownNoVictim(f) ==
    /\ pc[f] \in {"evict", "reset"}
    /\ victims' = [victims EXCEPT ![f] = {}]
    /\ Go(f, IF pc[f] = "evict" THEN "watch" ELSE "over")
    /\ UNCHANGED <<attempt, link, final, lock, cacheVars, linkVars>>
TearDownVictims(f) ==
    /\ pc[f] \in {"evict", "reset"}
    /\ TearDown(victims[f])
    /\ victims' = [victims EXCEPT ![f] = {}]
    /\ Go(f, IF pc[f] = "evict" THEN "watch" ELSE "over")
    /\ UNCHANGED <<attempt, link, final, lock, cacheVars, watch, request, result>>

(* set_link_closed_callback(_on_close): it fires only if the link closes   *)
(* after this.                                                             *)
WatchLink(f) ==
    /\ pc[f] = "watch"
    /\ watch' = [watch EXCEPT ![link[f]] = "cache"]
    /\ Go(f, "record")
    /\ UNCHANGED <<attempt, link, final, victims, lock, cacheVars, state, request,
                   result>>

(* What fetch_page returns: final_result, which starts out empty, as it    *)
(* stands by now.                                                          *)
Reply(f) == IF final[f] = NoLink THEN NoResult ELSE result[final[f]]

Return(f) ==
    /\ pc[f] = "record"
    /\ Leave(f, IF Reply(f).content = "none" THEN "failed" ELSE "done")

(* After DEFAULT_NODE_HARD_RESET_FAILURES failures in a row, here after    *)
(* one: the link is popped without the lock of the destination.            *)
HardReset(f) ==
    /\ pc[f] = "failed" /\ f \in Keepalive
    /\ victims' = [victims EXCEPT ![f] = {cache[D(f)]} \ {NoLink}]
    /\ Pop({D(f)})
    /\ Go(f, "reset")
    /\ UNCHANGED <<attempt, link, final, lock, linkVars>>

Step(f) ==
    \/ LockDest(f) \/ PathFound(f) \/ PathTimeout(f)
    \/ Lookup(f) \/ CheckActive(f) \/ Discard(f)
    \/ Reuse(f) \/ OpenLink(f) \/ WakeUp(f) \/ Timeout(f)
    \/ Judge(f) \/ Success(f) \/ Retry(f) \/ Salvage(f)
    \/ StoreLink(f) \/ TearDownVictims(f) \/ WatchLink(f) \/ Return(f)
    \/ HardReset(f)

Reticulum(l) ==
    \/ Established(l) \/ Response(l) \/ RequestFailed(l) \/ PeerCloses(l)
    \/ ClosedCallback(l) \/ ClosedReport(l)

Next == (\E f \in Fetch : Step(f)) \/ (\E l \in Link : Reticulum(l))

(* Every thread goes on, and every wait has its timeout; Reticulum owes    *)
(* nothing.                                                                *)
Fairness == \A f \in Fetch : WF_vars(Step(f))

Spec == Init /\ [][Next]_vars /\ Fairness

-----------------------------------------------------------------------------
(* Properties.                                                             *)

(* Two fetches never work on one link at a time: a callback that sets the  *)
(* event of an attempt is always that attempt's.  It is the purpose of the *)
(* lock per destination; without it both would take the same cached link,  *)
(* and each would read the other's answer or tear the link down under it.  *)
Using(f) == pc[f] \in {"check", "reuse", "drop", "wait", "judge", "kept",
                       "torn", "store", "evict", "watch"}
ExclusiveUse ==
    \A f, g \in Fetch :
        Using(f) /\ Using(g) /\ link[f] = link[g] => f = g

(* No link is leaked: one that is still open or opening is cached, or the  *)
(* fetch that opened it is still at it, or whoever popped it is about to   *)
(* tear it down.  Time-outs, late answers, evictions for another           *)
(* destination and the keepalive's reset all pass links on.                *)
NoLeak ==
    \A l \in Link : state[l] \in {"pending", "active"} =>
        \/ \E d \in Dest : cache[d] = l
        \/ \E f \in Fetch :
             \/ l \in victims[f]
             \/ link[f] = l /\ pc[f] \in {"wait", "judge", "kept", "store"}

(* What a fetch returns is explained: without content there is an error,   *)
(* and an empty answer comes with the error that says why.                 *)
Explained ==
    \A f \in Fetch : pc[f] = "record" =>
        (Reply(f).error = "none" => Reply(f).content = "page")

(* Every fetch returns, whatever Reticulum does with its links: each wait  *)
(* has an end, and whoever holds the lock of the destination leaves it.    *)
(* Only a fetch that wants more links than the model has stops it.         *)
OutOfLinks == \E f \in Fetch : pc[f] = "fresh" /\ \A l \in Link : state[l] # "new"
FetchEnds ==
    \A f \in Fetch : pc[f] = "start" ~>
        (pc[f] \in {"done", "failed", "reset", "over"} \/ OutOfLinks)

=============================================================================
