--------------------------- MODULE PageFetchProofs --------------------------
(***************************************************************************)
(* Theorems about PageFetch, for any fetches, destinations, links, sizes   *)
(* of the cache and numbers of attempts.                                   *)
(***************************************************************************)
EXTENDS PageFetch, FiniteSetTheorems, WellFoundedInduction, TLAPS

-----------------------------------------------------------------------------
(* The invariant.                                                          *)

(* The cache's order: before is what is cached and older, and transitive,  *)
(* so that a full cache has an oldest entry to push out.                   *)
OrderInv ==
    /\ \A d \in Dest : before[d] \subseteq Cached \ {d}
    /\ \A d \in Dest : \A e \in before[d] : before[e] \subseteq before[d]

(* A fetch between its lock and its return holds the lock.                 *)
Inside(f) == pc[f] \notin {"start", "done", "failed", "reset", "over"}
LockInv == \A f \in Fetch : Inside(f) => lock[D(f)] = f

(* A link belongs to one destination, wherever it is referred to.          *)
OwnInv ==
    /\ \A f, g \in Fetch :
         link[f] # NoLink /\ link[f] \in {link[g], final[g]} => D(f) = D(g)
    /\ \A d \in Dest, f \in Fetch :
         cache[d] # NoLink /\ cache[d] \in {link[f], final[f]} => d = D(f)
    /\ \A d, e \in Dest : cache[d] # NoLink /\ cache[d] = cache[e] => d = e

(* Nobody knows a link before it is opened.                                *)
NewInv ==
    \A l \in Link : state[l] = "new" =>
      /\ \A d \in Dest : cache[d] # l
      /\ \A f \in Fetch : link[f] # l /\ final[f] # l

(* What a fetch has at the points of its way.                              *)
PointInv ==
    \A f \in Fetch :
      /\ Using(f) => link[f] # NoLink
      /\ pc[f] \in {"start", "path", "lookup", "check", "reuse"} => final[f] = NoLink
      /\ pc[f] \in {"start", "path", "lookup", "check", "reuse", "drop"} => attempt[f] = 0
      /\ pc[f] = "fresh" => attempt[f] <= MaxAttempts
      /\ pc[f] \in {"kept", "torn"} => attempt[f] > 0
      /\ pc[f] \in {"store", "evict", "watch", "salvage", "record"} => final[f] # NoLink
      /\ pc[f] = "fresh" /\ attempt[f] = MaxAttempts => final[f] # NoLink
      /\ pc[f] \in {"wait", "judge", "kept", "torn"} /\ attempt[f] > MaxAttempts =>
           final[f] # NoLink
      /\ pc[f] = "check" => cache[D(f)] \in {link[f], NoLink}
      /\ victims[f] # {} => pc[f] \in {"evict", "reset"}

(* NoLeak, where a reused link is the cache's still and not the fetch's.   *)
LeakInv ==
    \A l \in Link : state[l] \in {"pending", "active"} =>
        \/ \E d \in Dest : cache[d] = l
        \/ \E f \in Fetch :
             \/ l \in victims[f]
             \/ /\ link[f] = l
                /\ pc[f] \in {"kept", "store"} \/ (pc[f] \in {"wait", "judge"} /\ attempt[f] > 0)

(* An attempt that is judged was told something, and its last result is    *)
(* not overwritten while its fetch is inside.                              *)
Settled(l) == result[l].done \/ result[l].error # "none"
ResultInv ==
    /\ \A l \in Link :
         /\ result[l].content = "blank" => result[l].error # "none"
         /\ result[l].done /\ result[l].error = "none" => result[l].content = "page"
    /\ \A f \in Fetch :
         /\ pc[f] \in {"judge", "kept", "torn"} => Settled(link[f])
         /\ Inside(f) /\ final[f] # NoLink => Settled(final[f])

Inv ==
    /\ TypeOK /\ OrderInv /\ LockInv /\ OwnInv /\ NewInv /\ PointInv /\ LeakInv
    /\ ResultInv

(* The rest of TypeOK.                                                     *)
Bound == Cardinality({d \in Dest : cache[d] # NoLink}) <= MaxCached
TypesOK ==
    /\ pc \in [Fetch -> Point]
    /\ attempt \in [Fetch -> 0..(MaxAttempts + 1)]
    /\ link \in [Fetch -> Link \cup {NoLink}]
    /\ final \in [Fetch -> Link \cup {NoLink}]
    /\ victims \in [Fetch -> SUBSET Link]
    /\ lock \in [Dest -> Fetch \cup {NoFetch}]
    /\ cache \in [Dest -> Link \cup {NoLink}]
    /\ before \in [Dest -> SUBSET Dest]
    /\ state \in [Link -> {"new", "pending", "active",
                           "closing", "reporting", "closed"}]
    /\ watch \in [Link -> {"attempt", "cache"}]
    /\ request \in [Link -> {"none", "sent", "refused", "over"}]
    /\ result \in [Link -> Result]

LEMMA TypeParts == (TypeOK <=> TypesOK /\ Bound) /\ (TypeOK' <=> TypesOK' /\ Bound')
BY DEF TypeOK, TypesOK, Bound

LEMMA NoLinkIsNone == NoLink \notin Link
BY DEF NoLink, Link

USE FetchAssumption, NoLinkIsNone DEF FetchAssumption, D

-----------------------------------------------------------------------------
(* Lemmas about the helpers.                                               *)

LEMMA ResultTypes ==
  /\ NoResult \in Result
  /\ \A r \in Result, e \in {"retry", "other"} :
       /\ [r EXCEPT !.error = e] \in Result
       /\ [r EXCEPT !.error = e, !.done = TRUE] \in Result
  /\ \A r \in Result : [r EXCEPT !.content = "page", !.done = TRUE] \in Result
  /\ [content |-> "blank", error |-> "other", done |-> TRUE] \in Result
BY DEF NoResult, Result

LEMMA SendSteps ==
  ASSUME TypesOK, NEW l \in Link, NEW r \in Result, Send(l, r)
  PROVE  /\ request' \in [Link -> {"none", "sent", "refused", "over"}]
         /\ result' \in [Link -> Result]
         /\ \A k \in Link \ {l} : result'[k] = result[k]
         /\ result'[l] \in Result /\ result'[l].content = r.content
         /\ result'[l] = r \/ result'[l].error = "retry"
<1>1. request' \in [Link -> {"none", "sent", "refused", "over"}]
  BY DEF Send, TypesOK
<1>2. PICK e \in Result :
        /\ result' = [result EXCEPT ![l] = e]
        /\ e = r \/ e = [r EXCEPT !.error = "retry", !.done = TRUE]
  BY ResultTypes DEF Send
<1>3. e.content = r.content /\ (e = r \/ e.error = "retry")
  BY <1>2 DEF Result
<1>. QED  BY <1>1, <1>2, <1>3 DEF TypesOK

LEMMA OneMore ==
  ASSUME NEW U, NEW x, IsFiniteSet(U), x \notin U
  PROVE  Cardinality(U \cup {x}) = Cardinality(U) + 1
BY FS_AddElement

(* A set of at most MaxCached makes room for one element more.             *)
LEMMA RoomForOne ==
  ASSUME NEW C, NEW out, NEW d, IsFiniteSet(C), Cardinality(C) <= MaxCached,
         out \subseteq C \ {d},
         Cardinality(C \ {d}) >= MaxCached => out # {}
  PROVE  Cardinality(((C \ {d}) \ out) \cup {d}) <= MaxCached
<1>. DEFINE S == C \ {d}
            U == S \ out
<1>1. IsFiniteSet(S) /\ IsFiniteSet(U) /\ d \notin U
  BY FS_Subset
<1>2. Cardinality(S) <= MaxCached /\ Cardinality(S) \in Nat
  BY <1>1, FS_Subset, FS_CardinalityType
<1>3. /\ Cardinality(U) <= Cardinality(S) /\ Cardinality(U) \in Nat
      /\ out # {} => Cardinality(U) # Cardinality(S)
  BY <1>1, FS_Subset, FS_CardinalityType
<1>4. Cardinality(U) < MaxCached
  BY <1>2, <1>3
<1>. HIDE DEF U
<1>5. Cardinality(U \cup {d}) = Cardinality(U) + 1
  BY <1>1, OneMore
<1>6. Cardinality(U \cup {d}) <= MaxCached
  BY <1>3, <1>4, <1>5
<1>. QED  BY <1>6 DEF U

(* A cache that only loses links keeps its bound.                          *)
LEMMA CacheShrinks ==
  ASSUME TypesOK, Bound, \A d \in Dest : cache'[d] \in {cache[d], NoLink}
  PROVE  Bound'
<1>. DEFINE S == {d \in Dest : cache[d] # NoLink}
            T == {d \in Dest : cache'[d] # NoLink}
<1>1. IsFiniteSet(S) /\ T \in SUBSET S
  BY FS_Subset
<1>2. Cardinality(T) <= Cardinality(S) /\ Cardinality(T) \in Nat /\ Cardinality(S) \in Nat
  BY <1>1, FS_Subset, FS_CardinalityType
<1>. QED  BY <1>2 DEF Bound

(* Among destinations that are cached there is an oldest one: the sets of  *)
(* what is older are finite, and one of them has no smaller one.           *)
LEMMA OldestExists ==
  ASSUME TypesOK, OrderInv, NEW S \in SUBSET Dest, S # {}
  PROVE  Oldest(S) # {}
<1>. DEFINE T == {before[d] : d \in S}
            R == StrictSubsetOrdering(Dest)
<1>1. T \subseteq FiniteSubsetsOf(Dest) /\ T # {}
  BY FS_Subset DEF TypesOK, FiniteSubsetsOf
<1>2. IsWellFoundedOn(R, FiniteSubsetsOf(Dest))
  BY FS_StrictSubsetOrderingWellFounded
<1>. HIDE DEF T, R
<1>3. PICK B \in T : \A C \in T : ~(<<C, B>> \in R)
  BY <1>1, <1>2, WFMin
<1>4. PICK d \in S : before[d] = B
  BY <1>3 DEF T
<1>5. ASSUME NEW e \in before[d] \cap S PROVE FALSE
  <2>1. before[e] \subseteq before[d] /\ e \in before[d] /\ e \notin before[e]
    BY DEF OrderInv
  <2>2. before[e] \in T /\ before[e] \in SUBSET Dest /\ before[d] \in SUBSET Dest
    BY DEF T, TypesOK
  <2>3. <<before[e], before[d]>> \in R
    BY <2>1, <2>2 DEF R, StrictSubsetOrdering
  <2>. QED  BY <1>3, <1>4, <2>2, <2>3
<1>. QED  BY <1>5 DEF Oldest

-----------------------------------------------------------------------------
(* Reticulum's callbacks.                                                  *)
LEMMA EstablishedKeeps ==
  ASSUME Inv, NEW l \in Link, Established(l)
  PROVE  Inv'
<1>. TypesOK /\ Bound
  BY TypeParts DEF Inv
<1>. result[l] \in Result
  BY DEF TypesOK
<1>0. Send(l, result[l])
  BY DEF Established
<1>1. TypesOK'
  BY <1>0, SendSteps DEF Established, fetchVars, cacheVars, TypesOK
<1>2. NewInv'
  BY DEF Established, Send, Inv, TypesOK, NewInv, fetchVars, cacheVars,
     linkVars
<1>3. LeakInv'
  BY DEF Established, Send, Inv, TypesOK, LeakInv, PointInv, fetchVars,
     cacheVars, linkVars
<1>4. ResultInv'
  <2>1. \A k \in Link : /\ result'[k].content = result[k].content
                        /\ result'[k] = result[k] \/ result'[k].error = "retry"
    BY <1>0, SendSteps
  <2>2. ASSUME NEW k \in Link
        PROVE  /\ Settled(k) => Settled(k)'
               /\ result'[k].content = "blank" => result'[k].error # "none"
               /\ result'[k].done /\ result'[k].error = "none" => result'[k].content = "page"
    BY <2>1 DEF Inv, ResultInv, Settled
  <2>3. \A g \in Fetch : pc[g] \in {"judge", "kept", "torn"} => link[g] \in Link
    BY DEF Inv, PointInv, Using, TypesOK
  <2>. QED
    BY <2>2, <2>3 DEF Established, fetchVars, Inv, TypesOK, ResultInv, Inside
<1>5. Bound' /\ OrderInv' /\ LockInv' /\ OwnInv' /\ PointInv'
  BY DEF Established, fetchVars, cacheVars, linkVars, Inv, Bound, OrderInv,
     Cached, LockInv, Inside, OwnInv, PointInv, Using
<1>. QED  BY <1>1, <1>2, <1>3, <1>4, <1>5, TypeParts DEF Inv

LEMMA ResponseKeeps ==
  ASSUME Inv, NEW l \in Link, Response(l)
  PROVE  Inv'
<1>. TypesOK /\ Bound
  BY TypeParts DEF Inv
<1>. PICK r \in Result :
       /\ result' = [result EXCEPT ![l] = r]
       /\ \/ r = [result[l] EXCEPT !.content = "page", !.done = TRUE]
          \/ r = [content |-> "blank", error |-> "other", done |-> TRUE]
  <2>1. CASE result' = [result EXCEPT ![l].content = "page", ![l].done = TRUE]
    <3>1. result' = [result EXCEPT ![l] = [result[l] EXCEPT !.content = "page", !.done = TRUE]]
      BY <2>1 DEF TypesOK
    <3>. QED  BY <3>1, ResultTypes DEF TypesOK
  <2>. QED  BY <2>1, ResultTypes DEF Response
<1>1. TypesOK'
  BY DEF Response, fetchVars, cacheVars, TypesOK
<1>2. ResultInv'
  BY DEF Response, fetchVars, Inv, TypesOK, Result, ResultInv, Settled, Inside
<1>3. Bound' /\ OrderInv' /\ LockInv' /\ OwnInv' /\ NewInv' /\ PointInv' /\ LeakInv'
  BY DEF Response, fetchVars, cacheVars, linkVars, Inv, Bound, OrderInv,
     Cached, LockInv, Inside, OwnInv, NewInv, PointInv, Using, LeakInv
<1>. QED  BY <1>1, <1>2, <1>3, TypeParts DEF Inv

LEMMA RequestFailedKeeps ==
  ASSUME Inv, NEW l \in Link, RequestFailed(l)
  PROVE  Inv'
<1>. TypesOK /\ Bound
  BY TypeParts DEF Inv
<1>1. TypesOK'
  BY ZenonT(30) DEF RequestFailed, Fail, Inv, TypesOK, Point, Result, NoResult,
     fetchVars, cacheVars, linkVars
<1>2. ResultInv'
  BY DEF RequestFailed, Fail, Inv, TypesOK, Result, ResultInv, Settled,
     Inside, PointInv, OwnInv, LockInv, Using, NoResult, fetchVars,
     cacheVars, linkVars
<1>3. Bound' /\ OrderInv' /\ LockInv' /\ OwnInv' /\ NewInv' /\ PointInv' /\ LeakInv'
  BY DEF RequestFailed, fetchVars, cacheVars, linkVars, Inv, Bound, OrderInv,
     Cached, LockInv, Inside, OwnInv, NewInv, PointInv, Using, LeakInv
<1>. QED  BY <1>1, <1>2, <1>3, TypeParts DEF Inv

LEMMA PeerClosesKeeps ==
  ASSUME Inv, NEW l \in Link, PeerCloses(l)
  PROVE  Inv'
<1>. TypesOK /\ Bound
  BY TypeParts DEF Inv
<1>1. TypesOK'
  BY DEF PeerCloses, TearDown, Closed, Inv, TypesOK, Point, Result,
     fetchVars, cacheVars, linkVars
<1>2. NewInv'
  BY DEF PeerCloses, TearDown, Closed, Inv, TypesOK, NewInv, fetchVars,
     cacheVars, linkVars
<1>3. LeakInv'
  BY DEF PeerCloses, TearDown, Closed, Inv, TypesOK, LeakInv, PointInv,
     fetchVars, cacheVars, linkVars
<1>4. Bound' /\ OrderInv' /\ LockInv' /\ OwnInv' /\ PointInv' /\ ResultInv'
  BY DEF PeerCloses, fetchVars, cacheVars, linkVars, Inv, Bound, OrderInv,
     Cached, LockInv, Inside, OwnInv, PointInv, Using, ResultInv, Settled
<1>. QED  BY <1>1, <1>2, <1>3, <1>4, TypeParts DEF Inv

LEMMA ClosedCallbackKeeps ==
  ASSUME Inv, NEW l \in Link, ClosedCallback(l)
  PROVE  Inv'
<1>. TypesOK /\ Bound
  BY TypeParts DEF Inv
<1>1. TypesOK'
  <2>1. cache' \in [Dest -> Link \cup {NoLink}] /\ before' \in [Dest -> SUBSET Dest]
    BY DEF ClosedCallback, Pop, cacheVars, TypesOK
  <2>2. state' \in [Link -> {"new", "pending", "active", "closing", "reporting", "closed"}]
    BY DEF ClosedCallback, TypesOK
  <2>. QED  BY <2>1, <2>2 DEF ClosedCallback, fetchVars, TypesOK
<1>2. Bound'
  BY CacheShrinks DEF ClosedCallback, Pop, cacheVars
<1>3. OrderInv'
  BY DEF ClosedCallback, Pop, Inv, TypesOK, OrderInv, Cached, PointInv,
     fetchVars, cacheVars, linkVars
<1>4. OwnInv'
  BY DEF ClosedCallback, Pop, Inv, TypesOK, OwnInv, NewInv, LockInv,
     PointInv, fetchVars, cacheVars, linkVars
<1>5. NewInv'
  BY DEF ClosedCallback, Pop, Inv, TypesOK, NewInv, fetchVars, cacheVars,
     linkVars
<1>6. PointInv'
  BY DEF ClosedCallback, Pop, Inv, TypesOK, PointInv, Using, OwnInv, LockInv,
     Inside, fetchVars, cacheVars, linkVars
<1>7. LeakInv'
  BY DEF ClosedCallback, Pop, Inv, TypesOK, LeakInv, PointInv, fetchVars,
     cacheVars, linkVars
<1>8. LockInv' /\ ResultInv'
  BY DEF ClosedCallback, fetchVars, cacheVars, linkVars, Inv, LockInv,
     Inside, ResultInv, Settled
<1>. QED  BY <1>1, <1>2, <1>3, <1>4, <1>5, <1>6, <1>7, <1>8, TypeParts DEF Inv

LEMMA ClosedReportKeeps ==
  ASSUME Inv, NEW l \in Link, ClosedReport(l)
  PROVE  Inv'
<1>. TypesOK /\ Bound
  BY TypeParts DEF Inv
<1>1. TypesOK'
  BY ZenonT(30) DEF ClosedReport, Fail, Inv, TypesOK, Point, Result, NoResult,
     fetchVars, cacheVars, linkVars
<1>2. NewInv'
  BY DEF ClosedReport, Fail, Inv, TypesOK, NewInv, fetchVars, cacheVars,
     linkVars
<1>3. LeakInv'
  BY DEF ClosedReport, Fail, Inv, TypesOK, LeakInv, PointInv, fetchVars,
     cacheVars, linkVars
<1>4. ResultInv'
  BY DEF ClosedReport, Fail, Inv, TypesOK, Result, ResultInv, Settled,
     Inside, PointInv, OwnInv, LockInv, Using, NoResult, fetchVars,
     cacheVars, linkVars
<1>5. Bound' /\ OrderInv' /\ LockInv' /\ OwnInv' /\ PointInv'
  BY DEF ClosedReport, fetchVars, cacheVars, linkVars, Inv, Bound, OrderInv,
     Cached, LockInv, Inside, OwnInv, PointInv, Using
<1>. QED  BY <1>1, <1>2, <1>3, <1>4, <1>5, TypeParts DEF Inv

LEMMA LockDestKeeps ==
  ASSUME Inv, NEW f \in Fetch, LockDest(f)
  PROVE  Inv'
<1>. TypesOK /\ Bound
  BY TypeParts DEF Inv
<1>1. TypesOK'
  BY DEF LockDest, Go, Inside, Inv, TypesOK, Point, Result, fetchVars,
     cacheVars, linkVars
<1>2. LockInv'
  BY DEF LockDest, Go, Inside, Inv, TypesOK, LockInv, fetchVars, cacheVars,
     linkVars
<1>3. PointInv'
  BY DEF LockDest, Go, Inside, Inv, TypesOK, PointInv, Using, OwnInv,
     LockInv, fetchVars, cacheVars, linkVars
<1>4. LeakInv'
  BY DEF LockDest, Go, Inside, Inv, TypesOK, LeakInv, PointInv, fetchVars,
     cacheVars, linkVars
<1>5. ResultInv'
  BY DEF LockDest, Go, Inside, Inv, TypesOK, Result, ResultInv, Settled,
     PointInv, OwnInv, LockInv, Using, Fail, NoResult, fetchVars, cacheVars,
     linkVars
<1>6. Bound' /\ OrderInv' /\ OwnInv' /\ NewInv'
  BY DEF LockDest, fetchVars, cacheVars, linkVars, Inv, Bound, OrderInv,
     Cached, OwnInv, NewInv
<1>. QED  BY <1>1, <1>2, <1>3, <1>4, <1>5, <1>6, TypeParts DEF Inv

LEMMA PathFoundKeeps ==
  ASSUME Inv, NEW f \in Fetch, PathFound(f)
  PROVE  Inv'
<1>. TypesOK /\ Bound
  BY TypeParts DEF Inv
<1>1. TypesOK'
  BY DEF PathFound, Go, Inside, Inv, TypesOK, Point, Result, fetchVars,
     cacheVars, linkVars
<1>2. LockInv'
  BY DEF PathFound, Go, Inside, Inv, TypesOK, LockInv, fetchVars, cacheVars,
     linkVars
<1>3. PointInv'
  BY DEF PathFound, Go, Inside, Inv, TypesOK, PointInv, Using, OwnInv,
     LockInv, fetchVars, cacheVars, linkVars
<1>4. LeakInv'
  BY DEF PathFound, Go, Inside, Inv, TypesOK, LeakInv, PointInv, fetchVars,
     cacheVars, linkVars
<1>5. ResultInv'
  BY DEF PathFound, Go, Inside, Inv, TypesOK, Result, ResultInv, Settled,
     PointInv, OwnInv, LockInv, Using, Fail, NoResult, fetchVars, cacheVars,
     linkVars
<1>6. Bound' /\ OrderInv' /\ OwnInv' /\ NewInv'
  BY DEF PathFound, fetchVars, cacheVars, linkVars, Inv, Bound, OrderInv,
     Cached, OwnInv, NewInv
<1>. QED  BY <1>1, <1>2, <1>3, <1>4, <1>5, <1>6, TypeParts DEF Inv

LEMMA PathTimeoutKeeps ==
  ASSUME Inv, NEW f \in Fetch, PathTimeout(f)
  PROVE  Inv'
<1>. TypesOK /\ Bound
  BY TypeParts DEF Inv
<1>1. TypesOK'
  BY DEF PathTimeout, Leave, Go, Inside, LockInv, Inv, TypesOK, Point,
     Result, fetchVars, cacheVars, linkVars
<1>2. LockInv'
  BY DEF PathTimeout, Leave, Go, Inside, LockInv, Inv, TypesOK, fetchVars,
     cacheVars, linkVars
<1>3. PointInv'
  BY DEF PathTimeout, Leave, Go, Inside, LockInv, Inv, TypesOK, PointInv,
     Using, OwnInv, fetchVars, cacheVars, linkVars
<1>4. LeakInv'
  BY DEF PathTimeout, Leave, Go, Inside, LockInv, Inv, TypesOK, LeakInv,
     PointInv, fetchVars, cacheVars, linkVars
<1>5. ResultInv'
  BY DEF PathTimeout, Leave, Go, Inside, LockInv, Inv, TypesOK, Result,
     ResultInv, Settled, PointInv, OwnInv, Using, Fail, NoResult, fetchVars,
     cacheVars, linkVars
<1>6. Bound' /\ OrderInv' /\ OwnInv' /\ NewInv'
  BY DEF PathTimeout, fetchVars, cacheVars, linkVars, Leave, Inv, Bound,
     OrderInv, Cached, OwnInv, NewInv
<1>. QED  BY <1>1, <1>2, <1>3, <1>4, <1>5, <1>6, TypeParts DEF Inv

LEMMA LookupKeeps ==
  ASSUME Inv, NEW f \in Fetch, Lookup(f)
  PROVE  Inv'
<1>. TypesOK /\ Bound
  BY TypeParts DEF Inv
<1>1. TypesOK'
  BY DEF Lookup, Go, Inside, Inv, TypesOK, Point, Result, fetchVars,
     cacheVars, linkVars
<1>2. LockInv'
  BY DEF Lookup, Go, Inside, Inv, TypesOK, LockInv, fetchVars, cacheVars,
     linkVars
<1>3. OwnInv'
  BY DEF Lookup, Go, Inside, Inv, TypesOK, OwnInv, NewInv, LockInv, PointInv,
     fetchVars, cacheVars, linkVars
<1>4. NewInv'
  BY DEF Lookup, Go, Inside, Inv, TypesOK, NewInv, fetchVars, cacheVars,
     linkVars
<1>5. PointInv'
  BY DEF Lookup, Go, Inside, Inv, TypesOK, PointInv, Using, OwnInv, LockInv,
     fetchVars, cacheVars, linkVars
<1>6. LeakInv'
  <2>1. \A g \in Fetch : g # f => link'[g] = link[g] /\ pc'[g] = pc[g]
    BY DEF Lookup, Go, TypesOK
  <2>2. pc[f] = "lookup"
    BY DEF Lookup
  <2>. QED
    BY <2>1, <2>2 DEF Lookup, cacheVars, linkVars, Inv, LeakInv
<1>7. ResultInv'
  BY DEF Lookup, Go, Inside, Inv, TypesOK, Result, ResultInv, Settled,
     PointInv, OwnInv, LockInv, Using, Fail, NoResult, fetchVars, cacheVars,
     linkVars
<1>8. Bound' /\ OrderInv'
  BY DEF Lookup, fetchVars, cacheVars, linkVars, Inv, Bound, OrderInv, Cached
<1>. QED  BY <1>1, <1>2, <1>3, <1>4, <1>5, <1>6, <1>7, <1>8, TypeParts DEF Inv

LEMMA CheckActiveKeeps ==
  ASSUME Inv, NEW f \in Fetch, CheckActive(f)
  PROVE  Inv'
<1>. TypesOK /\ Bound
  BY TypeParts DEF Inv
<1>1. TypesOK'
  BY DEF CheckActive, Go, Inv, TypesOK, Point, Result, fetchVars, cacheVars,
     linkVars
<1>2. LockInv'
  BY DEF CheckActive, Go, Inv, TypesOK, LockInv, Inside, fetchVars,
     cacheVars, linkVars
<1>3. PointInv'
  BY DEF CheckActive, Go, Inv, TypesOK, PointInv, Using, OwnInv, LockInv,
     Inside, fetchVars, cacheVars, linkVars
<1>4. LeakInv'
  BY DEF CheckActive, Go, Inv, TypesOK, LeakInv, PointInv, fetchVars,
     cacheVars, linkVars
<1>5. ResultInv'
  BY DEF CheckActive, Go, Inv, TypesOK, Result, ResultInv, Settled, Inside,
     PointInv, OwnInv, LockInv, Using, Fail, NoResult, fetchVars, cacheVars,
     linkVars
<1>6. Bound' /\ OrderInv' /\ OwnInv' /\ NewInv'
  BY DEF CheckActive, fetchVars, cacheVars, linkVars, Inv, Bound, OrderInv,
     Cached, OwnInv, NewInv
<1>. QED  BY <1>1, <1>2, <1>3, <1>4, <1>5, <1>6, TypeParts DEF Inv

LEMMA DiscardKeeps ==
  ASSUME Inv, NEW f \in Fetch, Discard(f)
  PROVE  Inv'
<1>. TypesOK /\ Bound
  BY TypeParts DEF Inv
<1>1. TypesOK'
  BY DEF Discard, TearDown, Closed, Pop, Go, Inv, TypesOK, Point, Result,
     fetchVars, cacheVars, linkVars
<1>2. Bound'
  BY CacheShrinks DEF Discard, Pop, cacheVars
<1>3. OrderInv'
  BY DEF Discard, TearDown, Closed, Pop, Go, Inv, TypesOK, OrderInv, Cached,
     PointInv, fetchVars, cacheVars, linkVars
<1>4. LockInv'
  BY DEF Discard, TearDown, Closed, Pop, Go, Inv, TypesOK, LockInv, Inside,
     fetchVars, cacheVars, linkVars
<1>5. OwnInv'
  BY DEF Discard, TearDown, Closed, Pop, Go, Inv, TypesOK, OwnInv, NewInv,
     LockInv, PointInv, fetchVars, cacheVars, linkVars
<1>6. NewInv'
  BY DEF Discard, TearDown, Closed, Pop, Go, Inv, TypesOK, NewInv, fetchVars,
     cacheVars, linkVars
<1>7. PointInv'
  BY DEF Discard, TearDown, Closed, Pop, Go, Inv, TypesOK, PointInv, Using,
     OwnInv, LockInv, Inside, fetchVars, cacheVars, linkVars
<1>8. LeakInv'
  BY DEF Discard, TearDown, Closed, Pop, Go, Inv, TypesOK, LeakInv, PointInv,
     fetchVars, cacheVars, linkVars
<1>9. ResultInv'
  BY DEF Discard, TearDown, Closed, Pop, Go, Inv, TypesOK, Result, ResultInv,
     Settled, Inside, PointInv, OwnInv, LockInv, Using, Fail, NoResult,
     fetchVars, cacheVars, linkVars
<1>. QED  BY <1>1, <1>2, <1>3, <1>4, <1>5, <1>6, <1>7, <1>8, <1>9, TypeParts DEF Inv

LEMMA ReuseKeeps ==
  ASSUME Inv, NEW f \in Fetch, Reuse(f)
  PROVE  Inv'
<1>. TypesOK /\ Bound
  BY TypeParts DEF Inv
<1>. link[f] \in Link
  BY DEF Reuse, Inv, TypesOK, PointInv, Using
<1>0. Send(link[f], NoResult) /\ NoResult \in Result
  BY ResultTypes DEF Reuse
<1>1. TypesOK'
  BY <1>0, SendSteps DEF Reuse, Go, Point, cacheVars, TypesOK
<1>2. LockInv'
  BY DEF Reuse, Send, NoResult, Go, Inv, TypesOK, LockInv, Inside, fetchVars,
     cacheVars, linkVars
<1>3. PointInv'
  BY DEF Reuse, Send, NoResult, Go, Inv, TypesOK, PointInv, Using, OwnInv,
     LockInv, Inside, fetchVars, cacheVars, linkVars
<1>4. LeakInv'
  BY DEF Reuse, Send, NoResult, Go, Inv, TypesOK, LeakInv, PointInv,
     fetchVars, cacheVars, linkVars
<1>5. ResultInv'
  <2>1. \A l \in Link \ {link[f]} : result'[l] = result[l]
    BY <1>0, SendSteps
  <2>2. /\ result'[link[f]].content = "none"
        /\ result'[link[f]].done => result'[link[f]].error # "none"
    <3>1. /\ result'[link[f]].content = NoResult.content
          /\ result'[link[f]] = NoResult \/ result'[link[f]].error = "retry"
      BY <1>0, SendSteps
    <3>. QED  BY <3>1 DEF NoResult
  <2>3. pc[f] = "reuse" /\ pc' = [pc EXCEPT ![f] = "wait"] /\ link' = link /\ final' = final
    BY DEF Reuse, Go
  <2>4. ASSUME NEW g \in Fetch, pc'[g] \in {"judge", "kept", "torn"}
        PROVE  Settled(link[g])'
    <3>1. g # f /\ pc[g] = pc'[g]
      BY <2>3, <2>4 DEF TypesOK
    <3>2. link[g] \in Link /\ link[g] # link[f]
      BY SMTT(30), <2>3, <2>4, <3>1 DEF Inv, TypesOK, PointInv, Using, OwnInv, LockInv, Inside
    <3>. QED  BY <2>1, <2>3, <2>4, <3>1, <3>2 DEF Inv, ResultInv, Settled
  <2>5. ASSUME NEW g \in Fetch, Inside(g)', final'[g] # NoLink
        PROVE  Settled(final[g])'
    <3>1. g # f /\ pc[g] = pc'[g]
      BY <2>3, <2>5 DEF TypesOK, Inv, PointInv
    <3>2. final[g] \in Link /\ final[g] # link[f]
      BY SMTT(30), <2>3, <2>5, <3>1 DEF Inv, TypesOK, OwnInv, LockInv, Inside
    <3>. QED  BY <2>1, <2>3, <2>5, <3>1, <3>2 DEF Inv, ResultInv, Settled, Inside
  <2>. QED
    BY <2>1, <2>2, <2>3, <2>4, <2>5 DEF Inv, ResultInv, Settled
<1>6. Bound' /\ OrderInv' /\ OwnInv' /\ NewInv'
  BY DEF Reuse, fetchVars, cacheVars, linkVars, Inv, Bound, OrderInv, Cached,
     OwnInv, NewInv
<1>. QED  BY <1>1, <1>2, <1>3, <1>4, <1>5, <1>6, TypeParts DEF Inv

LEMMA OpenLinkKeeps ==
  ASSUME Inv, NEW f \in Fetch, OpenLink(f)
  PROVE  Inv'
<1>. TypesOK /\ Bound
  BY TypeParts DEF Inv
<1>1. TypesOK'
  <2>1. attempt[f] \in Nat /\ attempt[f] <= MaxAttempts
    BY DEF OpenLink, Inv, PointInv, TypesOK
  <2>2. attempt' \in [Fetch -> 0..(MaxAttempts + 1)]
    BY <2>1 DEF OpenLink, TypesOK
  <2>. QED  BY <2>2 DEF OpenLink, Go, Point, cacheVars, TypesOK
<1>2. LockInv'
  BY DEF OpenLink, Go, Inv, TypesOK, LockInv, Inside, fetchVars, cacheVars,
     linkVars
<1>3. OwnInv'
  BY DEF OpenLink, Go, Inv, TypesOK, OwnInv, NewInv, LockInv, PointInv,
     fetchVars, cacheVars, linkVars
<1>4. NewInv'
  BY DEF OpenLink, Go, Inv, TypesOK, NewInv, fetchVars, cacheVars, linkVars
<1>5. PointInv'
  <2>1. /\ MaxAttempts \in Nat /\ attempt[f] \in 0..MaxAttempts
        /\ pc[f] = "fresh" /\ attempt[f] = MaxAttempts => final[f] # NoLink
    BY FetchAssumption DEF OpenLink, Inv, PointInv, TypesOK
  <2>2. /\ attempt' = [attempt EXCEPT ![f] = attempt[f] + 1]
        /\ pc' = [pc EXCEPT ![f] = "wait"] /\ pc[f] = "fresh"
        /\ UNCHANGED <<final, victims, cacheVars>>
    BY DEF OpenLink, Go
  <2>3. attempt'[f] = attempt[f] + 1 /\ attempt'[f] > 0
    BY <2>1, <2>2 DEF TypesOK
  <2>4. \E l \in Link : link' = [link EXCEPT ![f] = l]
    BY DEF OpenLink
  <2>5. \A g \in Fetch \ {f} : /\ attempt'[g] = attempt[g] /\ pc'[g] = pc[g]
                              /\ link'[g] = link[g] /\ final'[g] = final[g]
    BY <2>2, <2>4 DEF TypesOK
  <2>6. link'[f] # NoLink
    BY <2>4, FetchAssumption DEF TypesOK, Link, NoLink
  <2>7. pc'[f] = "wait" /\ victims'[f] = {} /\ final'[f] = final[f]
    BY <2>2 DEF TypesOK, Inv, PointInv
  <2>8. attempt'[f] > MaxAttempts => final'[f] # NoLink
    BY <2>1, <2>2, <2>3, <2>7
  <2>9. ASSUME NEW g \in Fetch \ {f} PROVE PointInv!(g)'
    BY <2>2, <2>5, <2>9 DEF Inv, PointInv, Using, cacheVars, D
  <2>. QED  BY <2>3, <2>6, <2>7, <2>8, <2>9 DEF PointInv, Using
<1>6. LeakInv'
  BY DEF OpenLink, Go, Inv, TypesOK, LeakInv, PointInv, fetchVars, cacheVars,
     linkVars
<1>7. ResultInv'
  BY DEF OpenLink, Go, Inv, TypesOK, Result, ResultInv, Settled, Inside,
     PointInv, OwnInv, LockInv, Using, Fail, NoResult, fetchVars, cacheVars,
     linkVars
<1>8. Bound' /\ OrderInv'
  BY DEF OpenLink, fetchVars, cacheVars, linkVars, Inv, Bound, OrderInv,
     Cached
<1>. QED  BY <1>1, <1>2, <1>3, <1>4, <1>5, <1>6, <1>7, <1>8, TypeParts DEF Inv

LEMMA WakeUpKeeps ==
  ASSUME Inv, NEW f \in Fetch, WakeUp(f)
  PROVE  Inv'
<1>. TypesOK /\ Bound
  BY TypeParts DEF Inv
<1>1. TypesOK'
  BY DEF WakeUp, Go, Inv, TypesOK, Point, Result, fetchVars, cacheVars,
     linkVars
<1>2. LockInv'
  BY DEF WakeUp, Go, Inv, TypesOK, LockInv, Inside, fetchVars, cacheVars,
     linkVars
<1>3. PointInv'
  BY DEF WakeUp, Go, Inv, TypesOK, PointInv, Using, OwnInv, LockInv, Inside,
     fetchVars, cacheVars, linkVars
<1>4. LeakInv'
  BY DEF WakeUp, Go, Inv, TypesOK, LeakInv, PointInv, fetchVars, cacheVars,
     linkVars
<1>5. ResultInv'
  BY DEF WakeUp, Go, Inv, TypesOK, Result, ResultInv, Settled, Inside,
     PointInv, OwnInv, LockInv, Using, Fail, NoResult, fetchVars, cacheVars,
     linkVars
<1>6. Bound' /\ OrderInv' /\ OwnInv' /\ NewInv'
  BY DEF WakeUp, fetchVars, cacheVars, linkVars, Inv, Bound, OrderInv,
     Cached, OwnInv, NewInv
<1>. QED  BY <1>1, <1>2, <1>3, <1>4, <1>5, <1>6, TypeParts DEF Inv

LEMMA TimeoutKeeps ==
  ASSUME Inv, NEW f \in Fetch, Timeout(f)
  PROVE  Inv'
<1>. TypesOK /\ Bound
  BY TypeParts DEF Inv
<1>1. TypesOK'
  <2>1. link[f] \in Link
    BY DEF Timeout, Inv, TypesOK, PointInv, Using
  <2>2. PICK e \in {"retry", "other"} : result' = [result EXCEPT ![link[f]].error = e]
    BY DEF Timeout
  <2>3. result' \in [Link -> Result]
    BY <2>1, <2>2, ResultTypes DEF TypesOK
  <2>. QED  BY <2>3 DEF Timeout, Go, Point, cacheVars, TypesOK
<1>2. LockInv'
  BY DEF Timeout, Go, Inv, TypesOK, LockInv, Inside, fetchVars, cacheVars,
     linkVars
<1>3. PointInv'
  BY DEF Timeout, Go, Inv, TypesOK, PointInv, Using, OwnInv, LockInv, Inside,
     fetchVars, cacheVars, linkVars
<1>4. LeakInv'
  BY DEF Timeout, Go, Inv, TypesOK, LeakInv, PointInv, fetchVars, cacheVars,
     linkVars
<1>5. ResultInv'
  BY DEF Timeout, Go, Inv, TypesOK, Result, ResultInv, Settled, Inside,
     PointInv, OwnInv, LockInv, Using, Fail, NoResult, fetchVars, cacheVars,
     linkVars
<1>6. Bound' /\ OrderInv' /\ OwnInv' /\ NewInv'
  BY DEF Timeout, fetchVars, cacheVars, linkVars, Inv, Bound, OrderInv,
     Cached, OwnInv, NewInv
<1>. QED  BY <1>1, <1>2, <1>3, <1>4, <1>5, <1>6, TypeParts DEF Inv

LEMMA JudgeKeeps ==
  ASSUME Inv, NEW f \in Fetch, Judge(f)
  PROVE  Inv'
<1>. TypesOK /\ Bound
  BY TypeParts DEF Inv
<1>1. TypesOK'
  <2>1. state' \in [Link -> {"new", "pending", "active", "closing", "reporting", "closed"}]
    BY DEF Judge, TearDown, Closed, TypesOK
  <2>2. pc' \in [Fetch -> Point] /\ final' \in [Fetch -> Link \cup {NoLink}]
    BY DEF Judge, Go, Point, TypesOK
  <2>. QED  BY <2>1, <2>2 DEF Judge, cacheVars, TypesOK
<1>2. LockInv'
  BY DEF Judge, TearDown, Closed, Go, Inv, TypesOK, LockInv, Inside,
     fetchVars, cacheVars, linkVars
<1>3. OwnInv'
  BY DEF Judge, TearDown, Closed, Go, Inv, TypesOK, OwnInv, NewInv, LockInv,
     PointInv, fetchVars, cacheVars, linkVars
<1>4. NewInv'
  BY DEF Judge, TearDown, Closed, Go, Inv, TypesOK, NewInv, fetchVars,
     cacheVars, linkVars
<1>5. PointInv'
  BY DEF Judge, TearDown, Closed, Go, Inv, TypesOK, PointInv, Using, OwnInv,
     LockInv, Inside, fetchVars, cacheVars, linkVars
<1>6. LeakInv'
  BY DEF Judge, TearDown, Closed, Go, Inv, TypesOK, LeakInv, PointInv,
     fetchVars, cacheVars, linkVars
<1>7. ResultInv'
  BY DEF Judge, TearDown, Closed, Go, Inv, TypesOK, Result, ResultInv,
     Settled, Inside, PointInv, OwnInv, LockInv, Using, Fail, NoResult,
     fetchVars, cacheVars, linkVars
<1>8. Bound' /\ OrderInv'
  BY DEF Judge, fetchVars, cacheVars, linkVars, Inv, Bound, OrderInv, Cached
<1>. QED  BY <1>1, <1>2, <1>3, <1>4, <1>5, <1>6, <1>7, <1>8, TypeParts DEF Inv

LEMMA SuccessKeeps ==
  ASSUME Inv, NEW f \in Fetch, Success(f)
  PROVE  Inv'
<1>. TypesOK /\ Bound
  BY TypeParts DEF Inv
<1>1. TypesOK'
  BY DEF Success, Go, Inv, TypesOK, Point, Result, fetchVars, cacheVars,
     linkVars
<1>2. LockInv'
  BY DEF Success, Go, Inv, TypesOK, LockInv, Inside, fetchVars, cacheVars,
     linkVars
<1>3. OwnInv'
  BY DEF Success, Go, Inv, TypesOK, OwnInv, NewInv, LockInv, PointInv,
     fetchVars, cacheVars, linkVars
<1>4. NewInv'
  BY DEF Success, Go, Inv, TypesOK, NewInv, fetchVars, cacheVars, linkVars
<1>5. PointInv'
  BY DEF Success, Go, Inv, TypesOK, PointInv, Using, OwnInv, LockInv, Inside,
     fetchVars, cacheVars, linkVars
<1>6. LeakInv'
  BY SMTT(30) DEF Success, Go, Inv, TypesOK, LeakInv, PointInv, fetchVars, cacheVars,
     linkVars
<1>7. ResultInv'
  BY DEF Success, Go, Inv, TypesOK, Result, ResultInv, Settled, Inside,
     PointInv, OwnInv, LockInv, Using, Fail, NoResult, fetchVars, cacheVars,
     linkVars
<1>8. Bound' /\ OrderInv'
  BY DEF Success, fetchVars, cacheVars, linkVars, Inv, Bound, OrderInv,
     Cached
<1>. QED  BY <1>1, <1>2, <1>3, <1>4, <1>5, <1>6, <1>7, <1>8, TypeParts DEF Inv

LEMMA RetryKeeps ==
  ASSUME Inv, NEW f \in Fetch, Retry(f)
  PROVE  Inv'
<1>. TypesOK /\ Bound
  BY TypeParts DEF Inv
<1>1. TypesOK'
  BY DEF Retry, Go, Inv, TypesOK, Point, Result, fetchVars, cacheVars,
     linkVars
<1>2. LockInv'
  BY DEF Retry, Go, Inv, TypesOK, LockInv, Inside, fetchVars, cacheVars,
     linkVars
<1>3. OwnInv'
  BY DEF Retry, Go, Inv, TypesOK, OwnInv, NewInv, LockInv, PointInv,
     fetchVars, cacheVars, linkVars
<1>4. NewInv'
  BY DEF Retry, Go, Inv, TypesOK, NewInv, fetchVars, cacheVars, linkVars
<1>5. PointInv'
  BY DEF Retry, Go, Inv, TypesOK, PointInv, Using, OwnInv, LockInv, Inside,
     fetchVars, cacheVars, linkVars
<1>6. LeakInv'
  BY DEF Retry, Go, Inv, TypesOK, LeakInv, PointInv, fetchVars, cacheVars,
     linkVars
<1>7. ResultInv'
  BY DEF Retry, Go, Inv, TypesOK, Result, ResultInv, Settled, Inside,
     PointInv, OwnInv, LockInv, Using, Fail, NoResult, fetchVars, cacheVars,
     linkVars
<1>8. Bound' /\ OrderInv'
  BY DEF Retry, fetchVars, cacheVars, linkVars, Inv, Bound, OrderInv, Cached
<1>. QED  BY <1>1, <1>2, <1>3, <1>4, <1>5, <1>6, <1>7, <1>8, TypeParts DEF Inv

LEMMA SalvageKeeps ==
  ASSUME Inv, NEW f \in Fetch, Salvage(f)
  PROVE  Inv'
<1>. TypesOK /\ Bound
  BY TypeParts DEF Inv
<1>1. TypesOK'
  <2>1. attempt' \in [Fetch -> 0..(MaxAttempts + 1)]
    BY DEF Salvage, TypesOK
  <2>. QED  BY <2>1 DEF Salvage, Go, Point, cacheVars, linkVars, TypesOK
<1>2. LockInv'
  BY DEF Salvage, Go, Inv, TypesOK, LockInv, Inside, fetchVars, cacheVars,
     linkVars
<1>3. PointInv'
  BY DEF Salvage, Go, Inv, TypesOK, PointInv, Using, OwnInv, LockInv, Inside,
     fetchVars, cacheVars, linkVars
<1>4. LeakInv'
  BY DEF Salvage, Go, Inv, TypesOK, LeakInv, PointInv, fetchVars, cacheVars,
     linkVars
<1>5. ResultInv'
  BY DEF Salvage, Go, Inv, TypesOK, Result, ResultInv, Settled, Inside,
     PointInv, OwnInv, LockInv, Using, Fail, NoResult, fetchVars, cacheVars,
     linkVars
<1>6. Bound' /\ OrderInv' /\ OwnInv' /\ NewInv'
  BY DEF Salvage, fetchVars, cacheVars, linkVars, Inv, Bound, OrderInv,
     Cached, OwnInv, NewInv
<1>. QED  BY <1>1, <1>2, <1>3, <1>4, <1>5, <1>6, TypeParts DEF Inv

LEMMA StoreLinkKeeps ==
  ASSUME Inv, NEW f \in Fetch, StoreLink(f)
  PROVE  Inv'
<1>. TypesOK /\ Bound
  BY TypeParts DEF Inv
<1>. DEFINE d == D(f)
            out == Evicted(d)
<1>0. /\ pc[f] = "store" /\ pc' = [pc EXCEPT ![f] = "evict"]
      /\ cache' = [e \in Dest |-> IF e = d THEN link[f]
                                  ELSE IF e \in out THEN NoLink ELSE cache[e]]
      /\ before' = [e \in Dest |-> IF e = d THEN Cached \ (out \cup {d})
                                   ELSE IF e \in out THEN {}
                                   ELSE before[e] \ (out \cup {d})]
      /\ victims' = [victims EXCEPT ![f] =
                        {cache[e] : e \in out \cup {d}} \ {link[f], NoLink}]
      /\ UNCHANGED <<attempt, link, final, lock, linkVars>>
  BY DEF StoreLink, Go
<1>a. d \in Dest /\ out \subseteq Cached \ {d} /\ link[f] \in Link /\ Cached \subseteq Dest
  BY <1>0 DEF Evicted, Oldest, Cached, Inv, PointInv, Using, TypesOK
<1>. HIDE DEF d, out
<1>1. TypesOK'
  BY <1>0, <1>a DEF Point, linkVars, TypesOK
<1>2. Bound'
  <2>1. Cardinality(Cached \ {d}) >= MaxCached => out # {}
    <3>. SUFFICES ASSUME Cardinality(Cached \ {d}) >= MaxCached
                  PROVE  out # {}
      OBVIOUS
    <3>1. Cached \ {d} # {}
      BY FS_EmptySet
    <3>2. out = Oldest(Cached \ {d})
      BY DEF out, Evicted
    <3>. QED  BY <1>a, <3>1, <3>2, OldestExists DEF Inv
  <2>2. IsFiniteSet(Cached) /\ Cardinality(Cached) <= MaxCached
    BY <1>a, FS_Subset DEF Bound, Cached
  <2>3. Cardinality(((Cached \ {d}) \ out) \cup {d}) <= MaxCached
    BY <1>a, <2>1, <2>2, RoomForOne
  <2>4. {e \in Dest : cache'[e] # NoLink} = ((Cached \ {d}) \ out) \cup {d}
    BY <1>0, <1>a DEF Cached
  <2>. QED  BY <2>3, <2>4 DEF Bound
<1>3. OrderInv'
  BY DEF StoreLink, Evicted, Oldest, Go, Cached, Inv, TypesOK, OrderInv,
     PointInv, fetchVars, cacheVars, linkVars
<1>4. LockInv'
  BY DEF StoreLink, Evicted, Oldest, Go, Cached, Inv, TypesOK, LockInv,
     Inside, fetchVars, cacheVars, linkVars
<1>5. OwnInv'
  BY DEF StoreLink, Evicted, Oldest, Go, Cached, Inv, TypesOK, OwnInv,
     NewInv, LockInv, PointInv, fetchVars, cacheVars, linkVars
<1>6. NewInv'
  BY DEF StoreLink, Evicted, Oldest, Go, Cached, Inv, TypesOK, NewInv,
     fetchVars, cacheVars, linkVars
<1>7. PointInv'
  <2>1. ASSUME NEW g \in Fetch, pc'[g] = "check"
        PROVE  cache'[D(g)] \in {link[g], NoLink}
    <3>1. D(g) # d
      BY <1>0, <2>1 DEF d, Inv, LockInv, Inside, TypesOK
    <3>. QED
      BY <1>0, <2>1, <3>1 DEF Inv, PointInv, TypesOK
  <2>. QED
    BY ZenonT(30), <1>0, <2>1 DEF Inv, PointInv, Using, TypesOK
<1>8. LeakInv'
  <2>1. victims[f] = {}
    BY <1>0 DEF Inv, PointInv
  <2>2. ASSUME NEW l \in Link, state[l] \in {"pending", "active"}
        PROVE  \/ \E e \in Dest : cache'[e] = l
               \/ l \in victims'[f]
               \/ \E g \in Fetch \ {f} :
                    \/ l \in victims[g]
                    \/ /\ link[g] = l
                       /\ \/ pc[g] \in {"kept", "store"}
                          \/ pc[g] \in {"wait", "judge"} /\ attempt[g] > 0
    <3>1. CASE l = link[f]
      BY <1>0, <1>a, <3>1
    <3>2. CASE l # link[f] /\ \E e \in Dest : cache[e] = l
      <4>1. PICK e \in Dest : cache[e] = l
        BY <3>2
      <4>2. CASE e \in out \cup {d}
        BY <1>0, <3>2, <4>1, <4>2 DEF TypesOK
      <4>3. CASE e \notin out \cup {d}
        BY <1>0, <4>1, <4>3
      <4>. QED  BY <4>2, <4>3
    <3>. QED
      BY <2>1, <2>2, <3>1, <3>2 DEF Inv, LeakInv
  <2>. QED
    BY <1>0, <2>2 DEF linkVars, LeakInv, TypesOK
<1>9. ResultInv'
  BY DEF StoreLink, Evicted, Oldest, Go, Cached, Inv, TypesOK, Result,
     ResultInv, Settled, Inside, PointInv, OwnInv, LockInv, Using, Fail,
     NoResult, fetchVars, cacheVars, linkVars
<1>. QED  BY <1>1, <1>2, <1>3, <1>4, <1>5, <1>6, <1>7, <1>8, <1>9, TypeParts DEF Inv

LEMMA TearDownVictimsKeeps ==
  ASSUME Inv, NEW f \in Fetch, TearDownVictims(f)
  PROVE  Inv'
<1>. TypesOK /\ Bound
  BY TypeParts DEF Inv
<1>1. TypesOK'
  BY DEF TearDownVictims, TearDown, Closed, Go, Inv, TypesOK, Point, Result,
     fetchVars, cacheVars, linkVars
<1>2. LockInv'
  BY DEF TearDownVictims, TearDown, Closed, Go, Inv, TypesOK, LockInv,
     Inside, fetchVars, cacheVars, linkVars
<1>3. NewInv'
  BY DEF TearDownVictims, TearDown, Closed, Go, Inv, TypesOK, NewInv,
     fetchVars, cacheVars, linkVars
<1>4. PointInv'
  BY DEF TearDownVictims, TearDown, Closed, Go, Inv, TypesOK, PointInv,
     Using, OwnInv, LockInv, Inside, fetchVars, cacheVars, linkVars
<1>5. LeakInv'
  BY DEF TearDownVictims, TearDown, Closed, Go, Inv, TypesOK, LeakInv,
     PointInv, fetchVars, cacheVars, linkVars
<1>6. ResultInv'
  BY DEF TearDownVictims, TearDown, Closed, Go, Inv, TypesOK, Result,
     ResultInv, Settled, Inside, PointInv, OwnInv, LockInv, Using, Fail,
     NoResult, fetchVars, cacheVars, linkVars
<1>7. Bound' /\ OrderInv' /\ OwnInv'
  BY DEF TearDownVictims, fetchVars, cacheVars, linkVars, Inv, Bound,
     OrderInv, Cached, OwnInv
<1>. QED  BY <1>1, <1>2, <1>3, <1>4, <1>5, <1>6, <1>7, TypeParts DEF Inv

LEMMA WatchLinkKeeps ==
  ASSUME Inv, NEW f \in Fetch, WatchLink(f)
  PROVE  Inv'
<1>. TypesOK /\ Bound
  BY TypeParts DEF Inv
<1>1. TypesOK'
  BY DEF WatchLink, Go, Inv, TypesOK, Point, Result, fetchVars, cacheVars,
     linkVars
<1>2. LockInv'
  BY DEF WatchLink, Go, Inv, TypesOK, LockInv, Inside, fetchVars, cacheVars,
     linkVars
<1>3. PointInv'
  BY DEF WatchLink, Go, Inv, TypesOK, PointInv, Using, OwnInv, LockInv,
     Inside, fetchVars, cacheVars, linkVars
<1>4. LeakInv'
  BY DEF WatchLink, Go, Inv, TypesOK, LeakInv, PointInv, fetchVars,
     cacheVars, linkVars
<1>5. ResultInv'
  BY DEF WatchLink, Go, Inv, TypesOK, Result, ResultInv, Settled, Inside,
     PointInv, OwnInv, LockInv, Using, Fail, NoResult, fetchVars, cacheVars,
     linkVars
<1>6. Bound' /\ OrderInv' /\ OwnInv' /\ NewInv'
  BY DEF WatchLink, fetchVars, cacheVars, linkVars, Inv, Bound, OrderInv,
     Cached, OwnInv, NewInv
<1>. QED  BY <1>1, <1>2, <1>3, <1>4, <1>5, <1>6, TypeParts DEF Inv

LEMMA ReturnKeeps ==
  ASSUME Inv, NEW f \in Fetch, Return(f)
  PROVE  Inv'
<1>. TypesOK /\ Bound
  BY TypeParts DEF Inv
<1>1. TypesOK'
  BY DEF Return, Leave, Go, Reply, Inv, TypesOK, Point, Result,
     fetchVars, cacheVars, linkVars
<1>2. LockInv'
  BY DEF Return, Leave, Go, Reply, Inv, TypesOK, LockInv, Inside,
     fetchVars, cacheVars, linkVars
<1>3. PointInv'
  BY DEF Return, Leave, Go, Reply, Inv, TypesOK, PointInv, Using,
     OwnInv, LockInv, Inside, fetchVars, cacheVars, linkVars
<1>4. LeakInv'
  BY DEF Return, Leave, Go, Reply, Inv, TypesOK, LeakInv, PointInv,
     fetchVars, cacheVars, linkVars
<1>5. ResultInv'
  BY DEF Return, Leave, Go, Reply, Inv, TypesOK, Result, ResultInv,
     Settled, Inside, PointInv, OwnInv, LockInv, Using, Fail, NoResult,
     fetchVars, cacheVars, linkVars
<1>6. Bound' /\ OrderInv' /\ OwnInv' /\ NewInv'
  BY DEF Return, fetchVars, cacheVars, linkVars, Leave, Inv, Bound, OrderInv,
     Cached, OwnInv, NewInv
<1>. QED  BY <1>1, <1>2, <1>3, <1>4, <1>5, <1>6, TypeParts DEF Inv

LEMMA HardResetKeeps ==
  ASSUME Inv, NEW f \in Fetch, HardReset(f)
  PROVE  Inv'
<1>. TypesOK /\ Bound
  BY TypeParts DEF Inv
<1>1. TypesOK'
  BY DEF HardReset, Pop, Go, Inv, TypesOK, Point, Result, fetchVars,
     cacheVars, linkVars
<1>2. Bound'
  BY CacheShrinks DEF HardReset, Pop, cacheVars
<1>3. OrderInv'
  BY DEF HardReset, Pop, Go, Inv, TypesOK, OrderInv, Cached, PointInv,
     fetchVars, cacheVars, linkVars
<1>4. LockInv'
  BY DEF HardReset, Pop, Go, Inv, TypesOK, LockInv, Inside, fetchVars,
     cacheVars, linkVars
<1>5. OwnInv'
  BY DEF HardReset, Pop, Go, Inv, TypesOK, OwnInv, NewInv, LockInv, PointInv,
     fetchVars, cacheVars, linkVars
<1>6. NewInv'
  BY DEF HardReset, Pop, Go, Inv, TypesOK, NewInv, fetchVars, cacheVars,
     linkVars
<1>7. PointInv'
  BY DEF HardReset, Pop, Go, Inv, TypesOK, PointInv, Using, OwnInv, LockInv,
     Inside, fetchVars, cacheVars, linkVars
<1>8. LeakInv'
  BY DEF HardReset, Pop, Go, Inv, TypesOK, LeakInv, PointInv, fetchVars,
     cacheVars, linkVars
<1>9. ResultInv'
  BY DEF HardReset, Pop, Go, Inv, TypesOK, Result, ResultInv, Settled,
     Inside, PointInv, OwnInv, LockInv, Using, Fail, NoResult, fetchVars,
     cacheVars, linkVars
<1>. QED  BY <1>1, <1>2, <1>3, <1>4, <1>5, <1>6, <1>7, <1>8, <1>9, TypeParts DEF Inv

-----------------------------------------------------------------------------
(* The theorems.                                                           *)

(* Nothing is cached, locked or opened at first.                           *)
LEMMA InitInv == Init => Inv
<1>. SUFFICES ASSUME Init PROVE Inv
  OBVIOUS
<1>1. TypesOK
  <2>1. NoResult \in Result
    BY ResultTypes
  <2>2. result \in [Link -> Result]
    BY <2>1 DEF Init
  <2>. QED  BY <2>2 DEF Init, TypesOK, Point
<1>2. Bound
  <2>1. {d \in Dest : cache[d] # NoLink} = {}
    BY DEF Init
  <2>. QED  BY <2>1, FS_EmptySet DEF Bound
<1>3. OrderInv /\ LockInv /\ OwnInv /\ NewInv
  BY DEF Init, OrderInv, LockInv, Inside, OwnInv, NewInv
<1>4. PointInv /\ LeakInv /\ ResultInv
  BY DEF Init, PointInv, Using, LeakInv, ResultInv, NoResult
<1>. QED  BY <1>1, <1>2, <1>3, <1>4, TypeParts DEF Inv

(* Every step of a fetch, of a callback or of the keepalive thread keeps   *)
(* the invariant.                                                          *)
LEMMA NextKeepsInv == Inv /\ [Next]_vars => Inv'
<1>. SUFFICES ASSUME Inv, [Next]_vars PROVE Inv'
  OBVIOUS
<1>1. ASSUME NEW f \in Fetch, Step(f) PROVE Inv'
  BY <1>1, LockDestKeeps, PathFoundKeeps, PathTimeoutKeeps, LookupKeeps,
     CheckActiveKeeps, DiscardKeeps, ReuseKeeps, OpenLinkKeeps, WakeUpKeeps,
     TimeoutKeeps, JudgeKeeps, SuccessKeeps, RetryKeeps, SalvageKeeps,
     StoreLinkKeeps, TearDownVictimsKeeps, WatchLinkKeeps, ReturnKeeps,
     HardResetKeeps DEF Step
<1>2. ASSUME NEW l \in Link, Reticulum(l) PROVE Inv'
  BY <1>2, EstablishedKeeps, ResponseKeeps, RequestFailedKeeps,
     PeerClosesKeeps, ClosedCallbackKeeps, ClosedReportKeeps DEF Reticulum
<1>3. CASE UNCHANGED vars
  BY <1>3 DEF vars, fetchVars, cacheVars, linkVars, Inv, TypeOK, OrderInv,
     Cached, LockInv, Inside, OwnInv, NewInv, PointInv, Using, LeakInv,
     ResultInv, Settled
<1>. QED  BY <1>1, <1>2, <1>3 DEF Next

(* fetch_page, the link cache, the callbacks and the keepalive thread keep *)
(* the invariant, with any number of each.                                 *)
THEOREM Invariance == Spec => []Inv
<1>. QED  BY InitInv, NextKeepsInv, PTL DEF Spec

(* The variables keep their types, and the cache never holds more than     *)
(* MaxCached links: a full one always has an oldest entry to push out.     *)
THEOREM TypeCorrect == Spec => []TypeOK
<1>1. Inv => TypeOK
  BY DEF Inv
<1>. QED  BY <1>1, Invariance, PTL

(* Two calls of fetch_page never work on one link: a link serves a single  *)
(* destination, and the lock of the destination admits one of them.        *)
THEOREM OneUser == Spec => []ExclusiveUse
<1>1. Inv => ExclusiveUse
  <2>. SUFFICES ASSUME Inv, NEW f \in Fetch, NEW g \in Fetch,
                       Using(f), Using(g), link[f] = link[g]
                PROVE  f = g
    BY DEF ExclusiveUse
  <2>1. link[f] # NoLink /\ Inside(f) /\ Inside(g)
    BY DEF Inv, PointInv, Using, Inside
  <2>2. D(f) = D(g)
    BY <2>1 DEF Inv, OwnInv
  <2>. QED  BY <2>1, <2>2 DEF Inv, LockInv
<1>. QED  BY <1>1, Invariance, PTL

(* No open link is lost: not by a time-out whose answer comes late, not by *)
(* an eviction for another destination, not by the keepalive's reset.      *)
THEOREM NoLinkLeaked == Spec => []NoLeak
<1>1. Inv => NoLeak
  BY DEF Inv, LeakInv, NoLeak
<1>. QED  BY <1>1, Invariance, PTL

(* A fetch about to return has content or the error that says why not,     *)
(* although callbacks may write to its last result until the very end.     *)
THEOREM AlwaysExplained == Spec => []Explained
<1>1. Inv => Explained
  <2>. SUFFICES ASSUME Inv, NEW f \in Fetch, pc[f] = "record",
                       Reply(f).error = "none"
                PROVE  Reply(f).content = "page"
    BY DEF Explained
  <2>1. final[f] # NoLink
    BY DEF Inv, PointInv
  <2>2. final[f] \in Link /\ Settled(final[f])
    BY <2>1, TypeParts DEF Inv, TypesOK, ResultInv, Inside
  <2>3. Reply(f) = result[final[f]]
    BY <2>1 DEF Reply
  <2>. QED  BY <2>2, <2>3 DEF Inv, ResultInv, Settled
<1>. QED  BY <1>1, Invariance, PTL

=============================================================================
