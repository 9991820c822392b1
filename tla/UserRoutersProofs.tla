-------------------------- MODULE UserRoutersProofs -------------------------
(***************************************************************************)
(* Theorems about UserRouters, for any users, request threads, key pairs   *)
(* on disk at the start and values of the bounds.                          *)
(***************************************************************************)
EXTENDS UserRouters, FiniteSetTheorems, WellFoundedInduction, TLAPS

-----------------------------------------------------------------------------
(* The invariant.                                                          *)

(* TypeOK but for the bounds on rank and told, which RankInv and ToldInv   *)
(* give.                                                                   *)
TypesOK ==
    /\ ids \subseteq Identity /\ keys \subseteq Identity /\ cool \subseteq ids
    /\ rank \in [Identity -> Nat]
    /\ owner \in [Identity -> User \cup {None}]
    /\ created \in [Identity -> 0..2 * MaxIdentity]
    /\ stirred \subseteq Thread
    /\ file \in [ids : SUBSET Identity, cool : SUBSET Identity] \cup {None}
    /\ opened \subseteq Thread /\ mixed \in BOOLEAN /\ ready \in BOOLEAN
    /\ routers \in [User -> Identity \cup {None}]
    /\ unbuilt \subseteq User
    /\ pc \in [Runner -> Step]
    /\ then \in [Runner -> {"lookup", "create", "drop"}]
    /\ user \in [Runner -> User \cup {None}]
    /\ id \in [Runner -> Identity \cup {None}]
    /\ todo \subseteq Identity
    /\ told \in [Identity -> Nat]
    /\ requests \in 0..MaxRequests /\ faults \in 0..MaxFaults

(* An identity that has not been generated is nowhere.                     *)
Generated == {i \in Identity : owner[i] # None}
KnownInv ==
    /\ ids \cup todo \subseteq Generated
    /\ file # None => file.ids \subseteq Generated /\ file.cool \subseteq file.ids
    /\ \A t \in Runner : id[t] # None => id[t] \in Generated
    /\ \A i \in Identity \ Generated : told[i] = 0

(* Where the threads are, for whom and at which identity.                  *)
Place(t) ==
    /\ user[t] = None <=> pc[t] \in {"idle", "start", "list", "next"}
    /\ pc[t] \in {"insert", "delete", "unkey", "stamp", "init", "build"} => id[t] # None
    /\ pc[t] \in {"insert", "delete", "init", "build"} => owner[id[t]] = user[t]
    /\ pc[t] = "unkey" => id[t] \notin ids
WhereInv ==
    /\ ready <=> pc[Deferred] # "start"
    /\ todo # {} => pc[Deferred] \in {"next", "init", "build"}
    /\ pc[Deferred] \in {"start", "list", "next", "init", "build", "idle"}
    /\ \A t \in Thread : pc[t] \notin {"start", "list", "next"}
    /\ \A t \in Runner : Place(t)

(* Until it is entered, a new identity is known to the thread that         *)
(* generated it alone.                                                     *)
NewInv ==
    \A t \in Thread : pc[t] = "insert" =>
      /\ id[t] \notin ids \cup todo /\ told[id[t]] = 0
      /\ \A s \in Runner \ {t} : id[s] # id[t]

(* Ranks order the entries strictly, and grow with each one entered.       *)
Entered == Generated \ {id[t] : t \in {s \in Thread : pc[s] = "insert"}}
RankInv ==
    /\ \A i, j \in ids : rank[i] = rank[j] => i = j
    /\ \A i \in Identity : rank[i] <= MaxIdentity + Cardinality(Entered)

(* An announce let through is of an identity that was cool, or one of the  *)
(* threads that were between check and stamp when it became so.            *)
Stamping(i) == {t \in Thread : pc[t] = "stamp" /\ id[t] = i}
ToldInv ==
    /\ \A i \in ids \ cool : told[i] = 0
    /\ \A i \in Identity :
         /\ told[i] + Cardinality(Stamping(i)) <= requests
         /\ told[i] + Cardinality(Stamping(i)) <= Cardinality(Thread)

(* A thread that will look for the router of its user, or is building it.  *)
Helps(t, u) == user[t] = u /\ (pc[t] = "init" => id[t] \in ids \cap keys)

(* Whoever has no router has someone on the way to building it.            *)
Reached(u) ==
    \/ routers[u] # None \/ u \in unbuilt
    \/ pc[Deferred] \in {"start", "list"}
    \/ \E t \in Runner : Helps(t, u)
    \/ \E i \in todo \cap ids \cap keys : owner[i] = u
ReachInv == \A u \in User : GetForUser(u) \in keys => Reached(u)

Inv ==
    /\ TypesOK /\ KnownInv /\ WhereInv /\ NewInv /\ RankInv /\ ToldInv
    /\ ReachInv

-----------------------------------------------------------------------------
(* Sets of identities and of ranks.                                        *)

LEMMA NoneIsNothing == None \notin Identity /\ None \notin User
BY RoutersAssumption DEF RoutersAssumption, Identity

LEMMA IdentitySets ==
  ASSUME NEW S \in SUBSET Identity
  PROVE  IsFiniteSet(S) /\ Cardinality(S) \in 0..MaxIdentity
<1>1. IsFiniteSet(Identity) /\ Cardinality(Identity) = MaxIdentity
  BY RoutersAssumption, FS_Interval DEF RoutersAssumption, Identity
<1>2. IsFiniteSet(S) /\ Cardinality(S) <= MaxIdentity
  BY <1>1, FS_Subset
<1>3. Cardinality(S) \in Nat
  BY <1>2, FS_CardinalityType
<1>. QED  BY <1>2, <1>3, RoutersAssumption DEF RoutersAssumption

LEMMA ThreadSets ==
  ASSUME NEW S \in SUBSET Thread
  PROVE  /\ IsFiniteSet(S) /\ Cardinality(S) \in Nat /\ Cardinality(Thread) \in Nat
         /\ Cardinality(S) <= Cardinality(Thread)
BY RoutersAssumption, FS_Subset, FS_CardinalityType DEF RoutersAssumption

LEMMA SetHasMin ==
  ASSUME NEW R \in SUBSET Nat, R # {}
  PROVE  \E x \in R : \A y \in R : x <= y
<1>1. PICK x \in R : \A y \in R : ~(<<y, x>> \in OpToRel(<, Nat))
  BY WFMin, NatLessThanWellFounded
<1>2. \A y \in R : ~(y < x)
  BY <1>1 DEF OpToRel
<1>. QED  BY <1>2

LEMMA LeastRank ==
  ASSUME NEW S \in SUBSET Identity, S # {}, NEW r \in [Identity -> Nat]
  PROVE  \E i \in S : \A j \in S : r[i] <= r[j]
<1>1. {r[i] : i \in S} \in SUBSET Nat /\ {r[i] : i \in S} # {}
  OBVIOUS
<1>2. PICK x \in {r[i] : i \in S} : \A y \in {r[i] : i \in S} : x <= y
  BY <1>1, SetHasMin
<1>. QED  BY <1>2

(* The first entry of a user, and that there is but one such.              *)
LEMMA FirstEntry ==
  ASSUME NEW S \in SUBSET Identity, S # {}, NEW r \in [Identity -> Nat]
  PROVE  LET f == CHOOSE i \in S : \A j \in S : r[i] <= r[j]
         IN  /\ f \in S /\ \A j \in S : r[f] <= r[j]
             /\ \A i \in S : /\ \A j, k \in S : r[j] = r[k] => j = k
                             /\ \A j \in S : r[i] <= r[j]
                             => i = f
<1>. DEFINE f == CHOOSE i \in S : \A j \in S : r[i] <= r[j]
<1>1. f \in S /\ \A j \in S : r[f] <= r[j]
  BY LeastRank
<1>2. ASSUME NEW i \in S, \A j, k \in S : r[j] = r[k] => j = k,
             \A j \in S : r[i] <= r[j]
      PROVE  i = f
  <2>1. r[i] <= r[f] /\ r[f] <= r[i] /\ r[i] \in Nat /\ r[f] \in Nat
    BY <1>1, <1>2
  <2>2. r[i] = r[f]
    BY <2>1
  <2>. QED  BY <1>1, <1>2, <2>2
<1>. QED  BY <1>1, <1>2

LEMMA LastRankIsLast ==
  ASSUME TypesOK, RankInv
  PROVE  /\ LastRank \in Nat /\ \A i \in ids : rank[i] <= LastRank
         /\ LastRank <= MaxIdentity + Cardinality(Entered)
<1>. /\ MaxIdentity \in Nat /\ Cardinality(Entered) \in Nat
     /\ rank \in [Identity -> Nat] /\ ids \subseteq Identity
  <2>1. Entered \in SUBSET Identity
    BY DEF Entered, Generated
  <2>. QED  BY <2>1, IdentitySets, RoutersAssumption DEF RoutersAssumption, TypesOK
<1>1. CASE ids = {}
  BY <1>1 DEF LastRank
<1>2. CASE ids # {}
  <2>. DEFINE K == MaxIdentity + Cardinality(Entered)
              above == [i \in Identity |-> IF rank[i] <= K THEN K - rank[i] ELSE 0]
  <2>1. K \in Nat /\ \A i \in Identity : rank[i] <= K
    BY DEF RankInv
  <2>. HIDE DEF K
  <2>2. above \in [Identity -> Nat]
    BY <2>1
  <2>3. PICK i \in ids : \A j \in ids : above[i] <= above[j]
    BY <1>2, <2>2, LeastRank
  <2>4. ASSUME NEW j \in ids PROVE rank[j] <= rank[i]
    <3>1. above[i] = K - rank[i] /\ above[j] = K - rank[j]
      BY <2>1
    <3>2. K - rank[i] <= K - rank[j] /\ rank[i] \in Nat /\ rank[j] \in Nat
      BY <2>3, <3>1
    <3>. QED  BY <2>1, <3>2
  <2>5. LastRank \in {rank[j] : j \in ids} /\ \A j \in ids : rank[j] <= LastRank
    BY <1>2, <2>4 DEF LastRank
  <2>. QED  BY <2>1, <2>5 DEF K
<1>. QED  BY <1>1, <1>2

(* What get_for_user returns.                                              *)
LEMMA GetType ==
  ASSUME TypesOK, NEW u \in User
  PROVE  /\ GetForUser(u) \in Own(u) \cup {None}
         /\ GetForUser(u) = None <=> Own(u) = {}
         /\ \A i \in Own(u) : rank[GetForUser(u)] <= rank[i]
<1>1. Own(u) \in SUBSET Identity /\ rank \in [Identity -> Nat]
  BY DEF Own, TypesOK
<1>2. CASE Own(u) # {}
  BY <1>1, <1>2, FirstEntry, NoneIsNothing DEF GetForUser, First
<1>. QED  BY <1>2 DEF GetForUser

LEMMA GetIsLeast ==
  ASSUME TypesOK, RankInv, NEW u \in User, NEW i \in Own(u),
         \A j \in Own(u) : rank[i] <= rank[j]
  PROVE  GetForUser(u) = i
<1>1. Own(u) \in SUBSET Identity /\ rank \in [Identity -> Nat] /\ Own(u) \subseteq ids
  BY DEF Own, TypesOK
<1>2. \A j, k \in Own(u) : rank[j] = rank[k] => j = k
  BY <1>1 DEF RankInv
<1>. QED  BY <1>1, <1>2, FirstEntry DEF GetForUser, First

LEMMA GetIsLeastThen ==
  ASSUME TypesOK', RankInv', NEW u \in User, NEW i \in Own(u)',
         \A j \in Own(u)' : rank'[i] <= rank'[j]
  PROVE  GetForUser(u)' = i
<1>1. Own(u)' \in SUBSET Identity /\ rank' \in [Identity -> Nat] /\ Own(u)' \subseteq ids'
  BY DEF Own, TypesOK
<1>2. \A j, k \in Own(u)' : rank'[j] = rank'[k] => j = k
  BY <1>1 DEF RankInv
<1>. QED  BY <1>1, <1>2, FirstEntry DEF GetForUser, First

-----------------------------------------------------------------------------
(* Types.                                                                  *)

LEMMA RunnerThreads == Thread \subseteq Runner /\ Deferred \in Runner
BY DEF Runner

(* What an error that ends a request, or delivery, leaves behind.          *)
Raises(t) ==
    \/ t \in Thread /\ (WriteFails(t) \/ FileRaises(t) \/ SearchRaises(t))
    \/ InitRaises(t)
Aborted(t) ==
    /\ UNCHANGED <<data, ready, routers, told, requests>>
    /\ pc[t] \in {"write", "create", "unkey", "open", "scan", "lookup", "init"}
    /\ t = Deferred => pc[t] = "init"
    /\ pc' = [pc EXCEPT ![t] = "idle"] /\ then' = [then EXCEPT ![t] = "lookup"]
    /\ user' = [user EXCEPT ![t] = None] /\ id' = [id EXCEPT ![t] = None]
    /\ file' \in {file, None}
    /\ todo' \subseteq todo /\ IF t = Deferred THEN todo' = {} ELSE todo' = todo
    /\ unbuilt' = unbuilt \cup {user[t]} \cup {owner[i] : i \in todo \ todo'}

LEMMA AbortStep ==
  ASSUME WhereInv, NEW t \in Runner, Raises(t)
  PROVE  Aborted(t)
<1>1. CASE t \in Thread /\ (WriteFails(t) \/ FileRaises(t) \/ SearchRaises(t))
  <2>1. t # Deferred
    BY <1>1, RoutersAssumption DEF RoutersAssumption
  <2>2. CASE WriteFails(t)
    BY <2>1, <2>2 DEF WriteFails, Abort, Go, ForUser, At, Then, Aborted, store
  <2>3. CASE FileRaises(t)
    BY <2>1, <2>3 DEF FileRaises, Abort, Go, ForUser, At, Then, Aborted, store, disk
  <2>4. CASE SearchRaises(t)
    BY <2>1, <2>4 DEF SearchRaises, Abort, Go, ForUser, At, Then, Aborted, disk
  <2>. QED  BY <1>1, <2>2, <2>3, <2>4
<1>2. CASE InitRaises(t)
  BY <1>2 DEF InitRaises, Abort, Go, ForUser, At, Then, Aborted, store, disk
<1>. QED  BY <1>1, <1>2 DEF Raises

LEMMA InitTypes ==
  ASSUME Init
  PROVE  TypesOK
<1>1. Stored \subseteq Identity /\ Identity \subseteq Nat /\ MaxIdentity \in Nat
  BY RoutersAssumption DEF RoutersAssumption, Identity
<1>2. \A i \in Identity : i \in 0..2 * MaxIdentity
  BY <1>1 DEF Identity
<1>3. ids \subseteq Identity
  BY <1>1 DEF Init
<1>4. rank \in [Identity -> 0..2 * MaxIdentity]
  <2>1. 0 \in 0..2 * MaxIdentity
    BY <1>1
  <2>. QED  BY <1>2, <2>1 DEF Init
<1>5. rank \in [Identity -> Nat]
  BY <1>1, <1>4
<1>6. /\ mixed \in BOOLEAN /\ ready \in BOOLEAN
      /\ pc \in [Runner -> Step]
      /\ then \in [Runner -> {"lookup", "create", "drop"}]
  BY DEF Init, Step
<1>7. file \in [ids : SUBSET Identity, cool : SUBSET Identity] \cup {None}
  BY <1>3 DEF Init
<1>8. /\ requests \in 0..MaxRequests /\ faults \in 0..MaxFaults
      /\ told \in [Identity -> Nat]
  BY RoutersAssumption DEF RoutersAssumption, Init
<1>. QED  BY <1>3, <1>4, <1>5, <1>6, <1>7, <1>8 DEF Init, TypesOK

LEMMA RequestTypes ==
  ASSUME TypesOK, NEW t \in Thread, NEW p \in Step, NEW u \in User \cup {None},
         NEW i \in Identity \cup {None}, Request(t, p, u, i)
  PROVE  TypesOK'
<1>1. requests' \in 0..MaxRequests
  BY RoutersAssumption DEF RoutersAssumption, TypesOK, Request
<1>2. /\ pc' \in [Runner -> Step] /\ user' \in [Runner -> User \cup {None}]
      /\ id' \in [Runner -> Identity \cup {None}]
  BY RunnerThreads DEF TypesOK, Request, Go, ForUser, At
<1>. QED  BY <1>1, <1>2 DEF TypesOK, Request, store, data, disk

LEMMA WriteTypes ==
  ASSUME TypesOK, NEW t \in Thread, Write(t)
  PROVE  TypesOK'
<1>1. [ids |-> ids, cool |-> cool] \in [ids : SUBSET Identity, cool : SUBSET Identity]
  BY DEF TypesOK
<1>2. /\ mixed' \in BOOLEAN /\ opened' \subseteq Thread
      /\ file' \in [ids : SUBSET Identity, cool : SUBSET Identity] \cup {None}
  BY <1>1 DEF TypesOK, Write
<1>3. then[t] \in Step /\ then[t] \in {"lookup", "create", "drop"}
  BY RunnerThreads DEF TypesOK, Step
<1>4. pc' \in [Runner -> Step] /\ then' \in [Runner -> {"lookup", "create", "drop"}]
  BY <1>3 DEF TypesOK, Write, Go, Then
<1>. QED  BY <1>2, <1>4 DEF TypesOK, Write, store, data, counts

LEMMA CreateTypes ==
  ASSUME TypesOK, WhereInv, NEW t \in Thread, Create(t)
  PROVE  TypesOK'
<1>1. PICK i \in Identity :
        /\ owner' = [owner EXCEPT ![i] = user[t]]
        /\ created' = [created EXCEPT ![i] =
                         MaxIdentity + Cardinality({j \in Identity : owner[j] # None})]
        /\ keys' \in {keys, keys \cup {i}} /\ At(t, i)
  BY DEF Create, Fault
<1>2. MaxIdentity + Cardinality({j \in Identity : owner[j] # None}) \in 0..2 * MaxIdentity
  <2>1. Cardinality({j \in Identity : owner[j] # None}) \in 0..MaxIdentity
    BY IdentitySets
  <2>. QED  BY <2>1, RoutersAssumption DEF RoutersAssumption
<1>3. created' \in [Identity -> 0..2 * MaxIdentity]
  BY <1>1, <1>2 DEF TypesOK
<1>4. /\ owner' \in [Identity -> User \cup {None}] /\ keys' \subseteq Identity
      /\ id' \in [Runner -> Identity \cup {None}]
      /\ pc' \in [Runner -> Step]
  BY <1>1, RunnerThreads DEF TypesOK, Create, At, Go, Step
<1>5. faults' \in 0..MaxFaults
  BY RoutersAssumption DEF RoutersAssumption, Create, Fault, TypesOK
<1>. QED  BY <1>3, <1>4, <1>5 DEF TypesOK, Create, disk

LEMMA InsertTypes ==
  ASSUME TypesOK, RankInv, WhereInv, NEW t \in Thread, Insert(t)
  PROVE  TypesOK'
<1>1. id[t] \in Identity
  BY RunnerThreads DEF TypesOK, WhereInv, Place, Insert
<1>2. rank' \in [Identity -> Nat]
  <2>1. LastRank + 1 \in Nat /\ rank' = [rank EXCEPT ![id[t]] = LastRank + 1]
    BY LastRankIsLast DEF Insert
  <2>. QED  BY <2>1 DEF TypesOK
<1>3. ids' \subseteq Identity /\ pc' \in [Runner -> Step]
  BY <1>1 DEF TypesOK, Insert, Go, Step
<1>. QED  BY <1>2, <1>3, RunnerThreads DEF TypesOK, Insert, Stir, disk, counts

LEMMA RestartTypes ==
  ASSUME TypesOK, KnownInv, Restart
  PROVE  TypesOK'
<1>1. PICK f \in Loaded : /\ ids' = f.ids /\ cool' = f.cool /\ file' = f
                          /\ told' = [i \in Identity |-> IF i \in f.cool THEN told[i] ELSE 0]
  BY DEF Restart
<1>2. /\ f \in [ids : SUBSET Identity, cool : SUBSET Identity] \cup {None}
      /\ f.ids \subseteq Identity /\ f.cool \subseteq f.ids
  BY DEF Loaded, TypesOK, KnownInv
<1>3. rank' \in [Identity -> Nat]
  BY DEF Restart, Identity
<1>4. told' \in [Identity -> Nat]
  BY <1>1 DEF TypesOK
<1>5. faults' \in 0..MaxFaults
  BY RoutersAssumption DEF RoutersAssumption, TypesOK, Restart, Fault
<1>6. pc' \in [Runner -> Step] /\ then' \in [Runner -> {"lookup", "create", "drop"}]
  BY DEF Restart, Step
<1>7. mixed' \in BOOLEAN /\ ready' \in BOOLEAN
  BY DEF Restart
<1>. QED  BY <1>1, <1>2, <1>3, <1>4, <1>5, <1>6, <1>7 DEF TypesOK, Restart

LEMMA AbortTypes ==
  ASSUME TypesOK, KnownInv, WhereInv, NEW t \in Runner, Raises(t)
  PROVE  TypesOK'
<1>1. Aborted(t)
  BY AbortStep
<1>2. user[t] \in User /\ \A i \in todo : owner[i] \in User
  BY <1>1 DEF Aborted, TypesOK, WhereInv, Place, KnownInv, Generated
<1>3. /\ stirred' \subseteq Thread /\ opened' \subseteq Thread /\ mixed' \in BOOLEAN
      /\ faults' \in 0..MaxFaults
  <2>1. Fault
    BY DEF Raises, WriteFails, FileRaises, SearchRaises, InitRaises, Abort
  <2>2. faults' \in 0..MaxFaults
    BY <2>1, RoutersAssumption DEF RoutersAssumption, Fault, TypesOK
  <2>3. stirred' \in {stirred, stirred \ {t}}
    BY DEF Raises, WriteFails, FileRaises, SearchRaises, InitRaises, Settled, store
  <2>4. opened' \in {opened, opened \ {t}} /\ mixed' \in BOOLEAN
    BY DEF Raises, WriteFails, FileRaises, SearchRaises, InitRaises, disk, TypesOK
  <2>. QED  BY <2>2, <2>3, <2>4 DEF TypesOK
<1>4. /\ pc' \in [Runner -> Step] /\ then' \in [Runner -> {"lookup", "create", "drop"}]
      /\ user' \in [Runner -> User \cup {None}] /\ id' \in [Runner -> Identity \cup {None}]
  BY <1>1 DEF Aborted, TypesOK, Step
<1>5. unbuilt' \subseteq User /\ todo' \subseteq Identity
  BY <1>1, <1>2 DEF Aborted, TypesOK
<1>. QED  BY <1>1, <1>3, <1>4, <1>5 DEF Aborted, TypesOK, data

LEMMA ServeTypes ==
  ASSUME TypesOK, KnownInv, WhereInv, RankInv, NEW t \in Thread, Serve(t)
  PROVE  TypesOK'
<1>1. {"scan", "lookup", "delete", "stamp"} \subseteq Step /\ Identity \subseteq Nat
  BY DEF Step, Identity
<1>2. ASSUME NEW u \in User, Ensure(t, u) \/ Use(t, u)
      PROVE  TypesOK'
  BY <1>1, <1>2, RequestTypes DEF Ensure, Use
<1>3. ASSUME NEW i \in Identity, Reset(t, i)
      PROVE  TypesOK'
  <2>1. owner[i] \in User \cup {None}
    BY DEF TypesOK
  <2>. QED  BY <1>1, <1>3, <2>1, RequestTypes DEF Reset
<1>4. ASSUME NEW i \in Identity, NEW u \in User, Announce(t, u, i)
      PROVE  TypesOK'
  BY <1>1, <1>4, RequestTypes DEF Announce
<1>5. CASE Scan(t)
  BY <1>5 DEF TypesOK, Scan, Settled, Go, Step, data, disk, counts
<1>6. CASE Open(t)
  <2>1. mixed' \in BOOLEAN
    BY <1>6 DEF Open
  <2>. QED  BY <1>6, <2>1 DEF TypesOK, Open, Go, Step, store, data, counts
<1>7. CASE Delete(t)
  <2>1. pc' \in [Runner -> Step] /\ then' \in [Runner -> {"lookup", "create", "drop"}]
    BY <1>7 DEF TypesOK, Delete, Go, Then, Step
  <2>. QED  BY <1>7, <2>1, RunnerThreads DEF TypesOK, Delete, Stir, disk, counts
<1>8. CASE RemoveKey(t)
  BY <1>8 DEF TypesOK, RemoveKey, Go, Then, Step, disk, counts
<1>9. CASE Drop(t)
  BY <1>9 DEF TypesOK, Drop, Go, Then, At, Step, store, data, disk, counts
<1>10. CASE Stamp(t)
  <2>1. told' \in [Identity -> Nat]
    <3>1. id[t] \in Identity
      BY <1>10, RunnerThreads DEF TypesOK, WhereInv, Place, Stamp
    <3>2. told' = [told EXCEPT ![id[t]] = told[id[t]] + 1] /\ told[id[t]] + 1 \in Nat
      BY <1>10, <3>1 DEF TypesOK, Stamp
    <3>. QED  BY <3>2 DEF TypesOK
  <2>. QED  BY <1>10, <2>1 DEF TypesOK, Stamp, Go, Step, disk, counts
<1>. QED
  BY <1>2, <1>3, <1>4, <1>5, <1>6, <1>7, <1>8, <1>9, <1>10, WriteTypes, CreateTypes,
     InsertTypes, AbortTypes, RunnerThreads DEF Serve, Raises

LEMMA FinishTypes ==
  ASSUME TypesOK, NEW t \in Runner, Finish(t)
  PROVE  /\ pc' \in [Runner -> Step] /\ then' \in [Runner -> {"lookup", "create", "drop"}]
         /\ user' \in [Runner -> User \cup {None}]
         /\ id' \in [Runner -> Identity \cup {None}]
BY DEF TypesOK, Finish, Go, ForUser, At, Then, Step

LEMMA RouterTypes ==
  ASSUME TypesOK, WhereInv, NEW t \in Runner,
         Lookup(t) \/ InitRouter(t) \/ BuildFails(t) \/ Put(t)
  PROVE  TypesOK'
<1>1. CASE Lookup(t)
  <2>1. user[t] \in User
    BY <1>1 DEF TypesOK, WhereInv, Place, Lookup
  <2>2. GetForUser(user[t]) \in Identity \cup {None}
    BY <2>1, GetType DEF Own, TypesOK
  <2>3. CASE Finish(t)
    BY <1>1, <2>3, FinishTypes DEF TypesOK, Lookup, Settled, data, disk, counts
  <2>4. CASE At(t, GetForUser(user[t])) /\ Go(t, "init") /\ UNCHANGED <<then, user>>
    BY <1>1, <2>2, <2>4 DEF TypesOK, Lookup, Settled, data, disk, counts, At, Go, Step
  <2>. QED  BY <1>1, <2>3, <2>4 DEF Lookup
<1>2. CASE InitRouter(t)
  <2>1. CASE Finish(t)
    BY <1>2, <2>1, FinishTypes DEF TypesOK, InitRouter, store, data, disk, counts
  <2>2. CASE Go(t, "build") /\ UNCHANGED <<then, user, id>>
    BY <1>2, <2>2 DEF TypesOK, InitRouter, store, data, disk, counts, Go, Step
  <2>. QED  BY <1>2, <2>1, <2>2 DEF InitRouter
<1>3. CASE BuildFails(t)
  <2>1. user[t] \in User
    BY <1>3 DEF TypesOK, WhereInv, Place, BuildFails
  <2>2. faults' \in 0..MaxFaults
    BY <1>3, RoutersAssumption DEF RoutersAssumption, BuildFails, Fault, TypesOK
  <2>. QED  BY <1>3, <2>1, <2>2, FinishTypes DEF TypesOK, BuildFails, store, data, disk
<1>4. CASE Put(t)
  <2>1. id[t] \in Identity
    BY <1>4 DEF TypesOK, WhereInv, Place, Put
  <2>. QED  BY <1>4, <2>1, FinishTypes DEF TypesOK, Put, store, data, disk, counts
<1>. QED  BY <1>1, <1>2, <1>3, <1>4

(* The identity that delivery takes up next.                               *)
LEMMA EldestChosen ==
  ASSUME TypesOK, todo # {}
  PROVE  Eldest(todo) \in todo
<1>1. created \in [Identity -> Nat] /\ todo \in SUBSET Identity
  BY DEF TypesOK
<1>. QED  BY <1>1, LeastRank DEF Eldest

LEMMA SetUpTypes ==
  ASSUME TypesOK, SetUp(Deferred)
  PROVE  TypesOK'
<1>1. CASE SetReady(Deferred)
  BY <1>1 DEF TypesOK, SetReady, Go, Step, store, data, disk, counts
<1>2. CASE List(Deferred)
  BY <1>2 DEF TypesOK, List, Go, Step, store, data, disk, counts
<1>3. CASE NextIdentity(Deferred)
  <2>1. Eldest(todo) \in Identity
    BY <1>3, EldestChosen DEF NextIdentity, TypesOK
  <2>. QED
    BY <1>3, <2>1 DEF TypesOK, NextIdentity, Go, At, ForUser, Step, store, data, disk, counts
<1>4. CASE Delivering(Deferred)
  BY <1>4 DEF TypesOK, Delivering, Go, Step, store, data, disk, counts
<1>. QED  BY <1>1, <1>2, <1>3, <1>4 DEF SetUp

LEMMA CoolsDownTypes ==
  ASSUME TypesOK, NEW i \in Identity, CoolsDown(i)
  PROVE  TypesOK'
<1>1. told' \in [Identity -> Nat]
  BY DEF TypesOK, CoolsDown
<1>. QED  BY <1>1 DEF TypesOK, CoolsDown, disk, thread, counts

LEMMA NextTypes ==
  ASSUME TypesOK, KnownInv, WhereInv, RankInv, Next
  PROVE  TypesOK'
BY ServeTypes, RouterTypes, SetUpTypes, CoolsDownTypes, RestartTypes, AbortTypes
   DEF Next, Raises

-----------------------------------------------------------------------------
(* Generated identities, and where the threads are.                        *)

LEMMA InitKnown ==
  ASSUME Init
  PROVE  KnownInv
BY InitTypes DEF Init, TypesOK, KnownInv, Generated

LEMMA KnownOf ==
  ASSUME TypesOK, KnownInv
  PROVE  /\ ids \subseteq Generated /\ todo \subseteq Generated
         /\ \A i \in Generated : i \in Identity /\ owner[i] \in User
         /\ \A u \in User : GetForUser(u) \in Generated \cup {None}
BY GetType DEF KnownInv, Own, Generated, TypesOK

(* A step that generates nothing.                                          *)
LEMMA KnownStep ==
  ASSUME TypesOK, KnownInv, UNCHANGED owner,
         ids' \cup todo' \subseteq Generated,
         file' # None => file'.ids \subseteq Generated /\ file'.cool \subseteq file'.ids,
         \A t \in Runner : id'[t] \in Generated \cup {None, id[t]},
         \A i \in Identity \ Generated : told'[i] \in {told[i], 0}
  PROVE  KnownInv'
<1>1. Generated' = Generated
  BY DEF Generated
<1>2. \A t \in Runner : id'[t] # None => id'[t] \in Generated
  BY DEF KnownInv
<1>3. \A i \in Identity \ Generated : told'[i] = 0
  BY DEF KnownInv
<1>. QED  BY <1>1, <1>2, <1>3 DEF KnownInv

LEMMA CreateKnown ==
  ASSUME TypesOK, KnownInv, WhereInv, NEW t \in Thread, Create(t)
  PROVE  KnownInv'
<1>1. PICK i \in Identity : /\ owner[i] = None /\ owner' = [owner EXCEPT ![i] = user[t]]
                            /\ id' = [id EXCEPT ![t] = i]
  BY DEF Create, At
<1>2. user[t] # None
  BY RunnerThreads DEF Create, WhereInv, Place
<1>3. Generated' = Generated \cup {i}
  BY <1>1, <1>2 DEF Generated, TypesOK
<1>4. \A s \in Runner : id'[s] # None => id'[s] \in Generated'
  BY <1>1, <1>3, RunnerThreads DEF KnownInv, TypesOK
<1>5. /\ ids' \cup todo' = ids \cup todo /\ file' = file
      /\ told' = told
  BY DEF Create, disk
<1>. QED  BY <1>3, <1>4, <1>5 DEF KnownInv

LEMMA AbortKnown ==
  ASSUME TypesOK, KnownInv, WhereInv, NEW t \in Runner, Raises(t)
  PROVE  KnownInv'
<1>1. Aborted(t)
  BY AbortStep
<1>2. \A s \in Runner : id'[s] \in {None, id[s]}
  BY <1>1 DEF Aborted, TypesOK
<1>. QED  BY <1>1, <1>2, KnownStep DEF Aborted, data, KnownInv

LEMMA ServeKnown ==
  ASSUME TypesOK, KnownInv, WhereInv, NEW t \in Thread, Serve(t)
  PROVE  KnownInv'
<1>1. ASSUME NEW p, NEW u, NEW i \in Generated \cup {None}, Request(t, p, u, i)
      PROVE  KnownInv'
  <2>1. \A s \in Runner : id'[s] \in {i, id[s]}
    BY <1>1, RunnerThreads DEF Request, At, TypesOK
  <2>. QED  BY <1>1, <2>1, KnownStep DEF Request, store, data, disk, KnownInv
<1>2. CASE \E u \in User : Ensure(t, u) \/ Use(t, u)
  BY <1>1, <1>2 DEF Ensure, Use
<1>3. CASE \E i \in Identity : Reset(t, i) \/ \E u \in User : Announce(t, u, i)
  BY <1>1, <1>3, KnownOf DEF Reset, Announce
<1>4. CASE Scan(t) \/ Open(t)
  BY <1>4, KnownStep DEF Scan, Open, store, data, disk, KnownInv
<1>5. CASE Write(t)
  <2>1. file' # None => file'.ids \subseteq Generated /\ file'.cool \subseteq file'.ids
    BY <1>5 DEF Write, KnownInv, TypesOK
  <2>. QED  BY <1>5, <2>1, KnownStep DEF Write, store, data, KnownInv
<1>6. CASE Insert(t)
  <2>1. id[t] \in Generated
    BY <1>6, RunnerThreads DEF Insert, WhereInv, Place, KnownInv
  <2>. QED  BY <1>6, <2>1, KnownStep DEF Insert, disk, KnownInv
<1>7. CASE Delete(t) \/ RemoveKey(t)
  BY <1>7, KnownStep DEF Delete, RemoveKey, disk, KnownInv
<1>8. CASE Drop(t)
  <2>1. \A s \in Runner : id'[s] \in {None, id[s]}
    BY <1>8, RunnerThreads DEF Drop, At, TypesOK
  <2>. QED  BY <1>8, <2>1, KnownStep DEF Drop, store, data, disk, KnownInv
<1>9. CASE Stamp(t)
  <2>1. id[t] \in Generated
    BY <1>9, RunnerThreads DEF Stamp, WhereInv, Place, KnownInv
  <2>2. \A i \in Identity \ Generated : told'[i] = told[i]
    BY <1>9, <2>1 DEF Stamp, TypesOK
  <2>. QED  BY <1>9, <2>2, KnownStep DEF Stamp, disk, KnownInv
<1>. QED
  BY <1>2, <1>3, <1>4, <1>5, <1>6, <1>7, <1>8, <1>9, CreateKnown, AbortKnown, RunnerThreads
     DEF Serve, Raises

LEMMA RestartKnown ==
  ASSUME TypesOK, KnownInv, Restart
  PROVE  KnownInv'
<1>1. PICK f \in Loaded : /\ ids' = f.ids /\ file' = f /\ todo' = {}
                          /\ told' = [i \in Identity |-> IF i \in f.cool THEN told[i] ELSE 0]
  BY DEF Restart
<1>2. f.ids \subseteq Generated /\ f.cool \subseteq f.ids
  BY DEF Loaded, TypesOK, KnownInv
<1>3. \A t \in Runner : id'[t] = None
  BY DEF Restart
<1>4. owner' = owner
  BY DEF Restart
<1>. QED  BY <1>1, <1>2, <1>3, <1>4, KnownStep

LEMMA NextKnown ==
  ASSUME TypesOK, KnownInv, WhereInv, Next
  PROVE  KnownInv'
<1>1. ASSUME NEW t \in Runner, Lookup(t) \/ InitRouter(t) \/ BuildFails(t) \/ Put(t)
      PROVE  KnownInv'
  <2>1. ASSUME Lookup(t) PROVE GetForUser(user[t]) \in Generated \cup {None}
    <3>1. user[t] \in User
      BY <2>1 DEF TypesOK, WhereInv, Place, Lookup
    <3>. QED  BY <3>1, KnownOf
  <2>2. \A s \in Runner : id'[s] \in Generated \cup {None, id[s]}
    BY <1>1, <2>1 DEF Lookup, InitRouter, BuildFails, Put, Finish, At, TypesOK
  <2>3. UNCHANGED <<ids, todo, file, told, owner>>
    BY <1>1 DEF Lookup, InitRouter, BuildFails, Put, store, data, disk
  <2>. QED  BY <2>2, <2>3, KnownStep DEF KnownInv
<1>2. CASE SetUp(Deferred)
  <2>1. CASE NextIdentity(Deferred)
    <3>1. Eldest(todo) \in Generated
      BY <2>1, EldestChosen, KnownOf DEF NextIdentity
    <3>2. \A s \in Runner : id'[s] \in {Eldest(todo), id[s]}
      BY <2>1 DEF NextIdentity, At, TypesOK
    <3>. QED  BY <2>1, <3>1, <3>2, KnownStep DEF NextIdentity, store, data, disk, KnownInv
  <2>. QED
    BY <1>2, <2>1, KnownStep DEF SetUp, SetReady, List, Delivering, store, data, disk, KnownInv
<1>3. ASSUME NEW i \in Identity, CoolsDown(i)
      PROVE  KnownInv'
  <2>1. \A j \in Identity : told'[j] \in {told[j], 0}
    BY <1>3 DEF CoolsDown, TypesOK
  <2>. QED  BY <1>3, <2>1, KnownStep DEF CoolsDown, disk, thread, KnownInv
<1>. QED  BY <1>1, <1>2, <1>3, ServeKnown, RestartKnown, AbortKnown DEF Next, Raises

LEMMA InitWhere ==
  ASSUME Init
  PROVE  WhereInv
BY NoneIsNothing, RoutersAssumption DEF RoutersAssumption, Init, WhereInv, Place, Runner

(* The other threads, and a thread that goes on without entering any of    *)
(* the points Place says more about.                                       *)
LEMMA StillPlaced ==
  ASSUME TypesOK, WhereInv, NEW t \in Runner,
         pc'[t] = pc[t], user'[t] = user[t], id'[t] = id[t],
         id[t] # None => owner'[id[t]] = owner[id[t]],
         pc[t] = "unkey" => id[t] \notin ids' \ ids
  PROVE  Place(t)'
BY DEF WhereInv, Place

LEMMA FinishPlace ==
  ASSUME TypesOK, NEW t \in Runner, Finish(t)
  PROVE  /\ Place(t)' /\ pc'[t] = IF t = Deferred THEN "next" ELSE "idle"
         /\ user'[t] = None
         /\ \A s \in Runner \ {t} : pc'[s] = pc[s] /\ user'[s] = user[s] /\ id'[s] = id[s]
BY DEF TypesOK, Finish, Go, ForUser, At, Then, Place

(* A request thread goes on.                                               *)
LEMMA ThreadPlaced ==
  ASSUME TypesOK, KnownInv, WhereInv, NEW t \in Thread,
         \A s \in Runner \ {t} : pc'[s] = pc[s] /\ user'[s] = user[s] /\ id'[s] = id[s],
         \A i \in Generated : owner'[i] = owner[i],
         \A s \in Runner \ {t} : pc[s] = "unkey" => id[s] \notin ids' \ ids,
         UNCHANGED <<ready, todo>>,
         pc'[t] \notin {"start", "list", "next"}, Place(t)'
  PROVE  WhereInv'
<1>1. t \in Runner /\ Deferred \in Runner \ {t}
  BY RunnerThreads, RoutersAssumption DEF RoutersAssumption
<1>2. \A s \in Runner \ {t} : Place(s)'
  BY StillPlaced DEF KnownInv
<1>. QED  BY <1>1, <1>2, RunnerThreads DEF WhereInv

LEMMA AbortWhere ==
  ASSUME TypesOK, KnownInv, WhereInv, NEW t \in Runner, Raises(t)
  PROVE  WhereInv'
<1>1. Aborted(t)
  BY AbortStep
<1>2. /\ pc'[t] = "idle" /\ user'[t] = None /\ UNCHANGED <<owner, ids, ready>>
      /\ \A s \in Runner \ {t} : pc'[s] = pc[s] /\ user'[s] = user[s] /\ id'[s] = id[s]
  BY <1>1 DEF Aborted, data, TypesOK
<1>3. \A s \in Runner : Place(s)'
  BY <1>2, StillPlaced DEF Place
<1>4. CASE t = Deferred
  BY <1>1, <1>2, <1>3, <1>4, RunnerThreads, RoutersAssumption
     DEF RoutersAssumption, Aborted, WhereInv
<1>5. CASE t # Deferred
  BY <1>1, <1>2, <1>3, <1>5, RunnerThreads DEF Aborted, WhereInv
<1>. QED  BY <1>4, <1>5

LEMMA ServeWhere ==
  ASSUME TypesOK, KnownInv, WhereInv, NewInv, NEW t \in Thread, Serve(t)
  PROVE  WhereInv'
<1>. t \in Runner
  BY RunnerThreads
<1>1. ASSUME NEW p \in {"scan", "lookup", "delete", "stamp"}, NEW u \in User,
             NEW i \in Generated \cup {None}, Request(t, p, u, i),
             p \in {"delete", "stamp"} => i # None, p = "delete" => owner[i] = u
      PROVE  WhereInv'
  <2>1. /\ pc' = [pc EXCEPT ![t] = p] /\ user' = [user EXCEPT ![t] = u]
        /\ id' = [id EXCEPT ![t] = i] /\ UNCHANGED <<owner, ids, ready, todo>>
    BY <1>1 DEF Request, Go, ForUser, At, store, data
  <2>2. Place(t)'
    BY <1>1, <2>1, NoneIsNothing DEF Place, TypesOK
  <2>. QED  BY <2>1, <2>2, ThreadPlaced DEF TypesOK
<1>2. CASE \E u \in User : Ensure(t, u) \/ Use(t, u)
  BY <1>1, <1>2 DEF Ensure, Use
<1>3. CASE \E i \in Identity : Reset(t, i) \/ \E u \in User : Announce(t, u, i)
  BY <1>1, <1>3, KnownOf, NoneIsNothing DEF Reset, Announce
<1>4. CASE Scan(t) \/ Open(t) \/ Drop(t) \/ Stamp(t)
  <2>1. /\ \A s \in Runner \ {t} : pc'[s] = pc[s] /\ user'[s] = user[s] /\ id'[s] = id[s]
        /\ UNCHANGED <<owner, ids, ready, todo>>
        /\ pc'[t] \in {"create", "lookup", "write", "open"} /\ user'[t] = user[t]
    BY <1>4 DEF Scan, Open, Drop, Stamp, Go, At, Then, store, data, TypesOK
  <2>2. Place(t)'
    BY <1>4, <2>1 DEF Place, WhereInv, Scan, Open, Drop, Stamp
  <2>. QED  BY <2>1, <2>2, ThreadPlaced
<1>5. CASE Write(t)
  <2>1. /\ \A s \in Runner \ {t} : pc'[s] = pc[s] /\ user'[s] = user[s] /\ id'[s] = id[s]
        /\ UNCHANGED <<owner, ids, ready, todo>>
        /\ pc'[t] \in {"create", "lookup", "drop"} /\ user'[t] = user[t]
    BY <1>5 DEF Write, Go, Then, store, data, TypesOK
  <2>2. Place(t)'
    BY <1>5, <2>1 DEF Place, WhereInv, Write
  <2>. QED  BY <2>1, <2>2, ThreadPlaced
<1>6. CASE Create(t)
  <2>1. PICK i \in Identity : /\ owner[i] = None /\ owner' = [owner EXCEPT ![i] = user[t]]
                              /\ id' = [id EXCEPT ![t] = i]
    BY <1>6 DEF Create, At
  <2>2. /\ pc' = [pc EXCEPT ![t] = "insert"] /\ pc[t] = "create"
        /\ UNCHANGED <<user, ids, ready, todo>>
    BY <1>6 DEF Create, Go
  <2>3. \A j \in Generated : owner'[j] = owner[j]
    BY <2>1 DEF Generated, TypesOK
  <2>4. Place(t)'
    BY <2>1, <2>2, NoneIsNothing DEF Place, WhereInv, TypesOK
  <2>. QED  BY <2>1, <2>2, <2>3, <2>4, ThreadPlaced DEF TypesOK
<1>7. CASE Insert(t)
  <2>1. /\ pc' = [pc EXCEPT ![t] = "open"] /\ pc[t] = "insert"
        /\ UNCHANGED <<owner, user, id, ready, todo>> /\ ids' = ids \cup {id[t]}
    BY <1>7 DEF Insert, Go
  <2>2. \A s \in Runner \ {t} : id[s] \notin ids' \ ids
    BY <2>1 DEF NewInv
  <2>3. Place(t)'
    BY <2>1 DEF Place, WhereInv, TypesOK
  <2>. QED  BY <2>1, <2>2, <2>3, ThreadPlaced DEF TypesOK
<1>8. CASE Delete(t)
  <2>1. /\ UNCHANGED <<owner, user, id, ready, todo>> /\ ids' = ids \ {id[t]}
        /\ pc[t] = "delete"
        /\ pc' = [pc EXCEPT ![t] = "unkey"] \/ pc' = [pc EXCEPT ![t] = "create"]
    BY <1>8 DEF Delete, Go
  <2>2. \A s \in Runner \ {t} : pc'[s] = pc[s]
    BY <2>1 DEF TypesOK
  <2>3. pc'[t] \in {"unkey", "create"}
    BY <2>1 DEF TypesOK
  <2>4. Place(t)'
    BY <2>1, <2>3 DEF Place, WhereInv
  <2>. QED  BY <2>1, <2>2, <2>3, <2>4, ThreadPlaced
<1>9. CASE RemoveKey(t)
  <2>1. /\ UNCHANGED <<owner, user, id, ready, todo, ids>> /\ pc[t] = "unkey"
        /\ pc' = [pc EXCEPT ![t] = "open"]
    BY <1>9 DEF RemoveKey, Go
  <2>2. Place(t)'
    BY <2>1 DEF Place, WhereInv, TypesOK
  <2>. QED  BY <2>1, <2>2, ThreadPlaced DEF TypesOK
<1>. QED
  BY <1>2, <1>3, <1>4, <1>5, <1>6, <1>7, <1>8, <1>9, AbortWhere DEF Serve, Raises

(* A thread, delivery's among them, comes to the end of its request.       *)
LEMMA FinishWhere ==
  ASSUME TypesOK, KnownInv, WhereInv, NEW t \in Runner, Finish(t),
         pc[t] \in {"lookup", "init", "build"}, UNCHANGED <<owner, ids, ready, todo>>
  PROVE  WhereInv'
<1>1. \A s \in Runner : Place(s)'
  BY FinishPlace, StillPlaced
<1>2. CASE t = Deferred
  BY <1>1, <1>2, FinishPlace, RunnerThreads, RoutersAssumption
     DEF RoutersAssumption, WhereInv
<1>3. CASE t # Deferred
  BY <1>1, <1>3, FinishPlace, RunnerThreads DEF WhereInv
<1>. QED  BY <1>2, <1>3

LEMMA RouterWhere ==
  ASSUME TypesOK, KnownInv, WhereInv, NEW t \in Runner,
         Lookup(t) \/ InitRouter(t) \/ BuildFails(t) \/ Put(t)
  PROVE  WhereInv'
<1>0. UNCHANGED <<owner, ids, ready, todo>> /\ pc[t] \in {"lookup", "init", "build"}
  BY DEF Lookup, InitRouter, BuildFails, Put, store, data
<1>1. CASE Finish(t)
  BY <1>0, <1>1, FinishWhere
<1>2. CASE /\ pc[t] = "lookup" /\ At(t, GetForUser(user[t])) /\ Go(t, "init")
           /\ GetForUser(user[t]) # None /\ UNCHANGED user
  <2>1. user[t] \in User /\ t \in Thread
    BY <1>2, RunnerThreads DEF WhereInv, Place, TypesOK, Runner
  <2>2. GetForUser(user[t]) \in Own(user[t])
    BY <1>2, <2>1, GetType
  <2>3. owner[GetForUser(user[t])] = user[t]
    BY <2>2 DEF Own
  <2>4. /\ pc'[t] = "init" /\ id'[t] = GetForUser(user[t]) /\ user'[t] = user[t]
        /\ \A s \in Runner \ {t} : pc'[s] = pc[s] /\ user'[s] = user[s] /\ id'[s] = id[s]
    BY <1>2 DEF At, Go, TypesOK
  <2>5. Place(t)'
    BY <1>0, <1>2, <2>1, <2>3, <2>4, NoneIsNothing DEF Place
  <2>. QED  BY <1>0, <2>1, <2>4, <2>5, ThreadPlaced
<1>3. CASE pc[t] = "init" /\ Go(t, "build") /\ UNCHANGED <<user, id>>
  <2>1. pc'[t] = "build" /\ \A s \in Runner \ {t} : pc'[s] = pc[s]
    BY <1>3 DEF Go, TypesOK
  <2>2. \A s \in Runner : Place(s)'
    BY <1>0, <1>3, <2>1 DEF Place, WhereInv
  <2>3. CASE t \in Thread
    BY <1>0, <1>3, <2>1, <2>2, <2>3, ThreadPlaced
  <2>4. CASE t = Deferred
    BY <1>0, <2>1, <2>2, <2>4, RunnerThreads, RoutersAssumption
       DEF RoutersAssumption, WhereInv
  <2>. QED  BY <2>3, <2>4 DEF Runner
<1>. QED
  BY <1>1, <1>2, <1>3 DEF Lookup, InitRouter, BuildFails, Put

LEMMA SetUpWhere ==
  ASSUME TypesOK, KnownInv, WhereInv, SetUp(Deferred)
  PROVE  WhereInv'
<1>0. /\ UNCHANGED <<owner, ids>> /\ Deferred \in Runner
      /\ \A s \in Runner \ {Deferred} : pc'[s] = pc[s] /\ user'[s] = user[s] /\ id'[s] = id[s]
  BY RunnerThreads
     DEF SetUp, SetReady, List, NextIdentity, Delivering, Go, ForUser, At, store, data, TypesOK
<1>1. \A s \in Runner \ {Deferred} : Place(s)'
  BY <1>0, StillPlaced
<1>2. \A s \in Thread : s # Deferred
  BY RoutersAssumption DEF RoutersAssumption
<1>3. CASE SetReady(Deferred)
  <2>1. pc'[Deferred] = "list" /\ ready' = TRUE /\ UNCHANGED <<user, todo>>
    BY <1>0, <1>3 DEF SetReady, Go, TypesOK
  <2>. QED  BY <1>0, <1>1, <1>2, <1>3, <2>1, RunnerThreads DEF SetReady, WhereInv, Place
<1>4. CASE List(Deferred)
  <2>1. pc'[Deferred] = "next" /\ UNCHANGED <<user, ready>>
    BY <1>0, <1>4 DEF List, Go, TypesOK
  <2>. QED  BY <1>0, <1>1, <1>2, <1>4, <2>1, RunnerThreads DEF List, WhereInv, Place
<1>5. CASE NextIdentity(Deferred)
  <2>1. Eldest(todo) \in Identity /\ owner[Eldest(todo)] \in User
    BY <1>5, EldestChosen, KnownOf DEF NextIdentity
  <2>2. /\ pc'[Deferred] = "init" /\ user'[Deferred] = owner[Eldest(todo)]
        /\ id'[Deferred] = Eldest(todo) /\ UNCHANGED ready
    BY <1>0, <1>5 DEF NextIdentity, Go, ForUser, At, TypesOK
  <2>. QED
    BY <1>0, <1>1, <1>2, <1>5, <2>1, <2>2, RunnerThreads, NoneIsNothing
       DEF NextIdentity, WhereInv, Place
<1>6. CASE Delivering(Deferred)
  <2>1. pc'[Deferred] = "idle" /\ UNCHANGED <<user, ready, todo>> /\ todo = {}
    BY <1>0, <1>6 DEF Delivering, Go, TypesOK
  <2>. QED  BY <1>0, <1>1, <1>2, <1>6, <2>1, RunnerThreads DEF Delivering, WhereInv, Place
<1>. QED  BY <1>3, <1>4, <1>5, <1>6 DEF SetUp

LEMMA NextWhere ==
  ASSUME TypesOK, KnownInv, WhereInv, NewInv, Next
  PROVE  WhereInv'
<1>1. ASSUME NEW i \in Identity, CoolsDown(i)
      PROVE  WhereInv'
  BY <1>1 DEF CoolsDown, thread, WhereInv, Place
<1>2. CASE Restart
  BY <1>2, RunnerThreads, RoutersAssumption DEF RoutersAssumption, Restart, WhereInv, Place
<1>. QED  BY <1>1, <1>2, ServeWhere, RouterWhere, SetUpWhere, AbortWhere DEF Next, Raises

-----------------------------------------------------------------------------
(* New identities.                                                         *)

(* A thread s may do with its own identity what it likes: it is not one    *)
(* that another is about to enter.                                         *)
LEMMA NewStep ==
  ASSUME TypesOK, KnownInv, WhereInv, NewInv, NEW s \in Runner,
         \A t \in Runner \ {s} : pc'[t] = pc[t] /\ id'[t] = id[t],
         pc'[s] # "insert",
         ids' \subseteq ids \cup {id[s]}, todo' \subseteq ids \cup todo,
         \A i \in Identity \ {id[s]} : told'[i] \in {told[i], 0},
         id'[s] \in ids \cup todo \cup {None, id[s]}
  PROVE  NewInv'
<1>1. SUFFICES ASSUME NEW t \in Thread, pc'[t] = "insert"
               PROVE  /\ id'[t] \notin ids' \cup todo' /\ told'[id'[t]] = 0
                      /\ \A r \in Runner \ {t} : id'[r] # id'[t]
  BY DEF NewInv
<1>2. /\ t # s /\ t \in Runner /\ pc[t] = "insert" /\ id'[t] = id[t]
      /\ id[t] \in Identity
  BY <1>1, RunnerThreads DEF WhereInv, Place, TypesOK
<1>3. /\ id[t] \notin ids \cup todo /\ told[id[t]] = 0
      /\ \A r \in Runner \ {t} : id[r] # id[t]
  BY <1>2 DEF NewInv
<1>4. id[s] # id[t] /\ id'[s] # id[t]
  BY <1>2, <1>3, NoneIsNothing
<1>. QED  BY <1>2, <1>3, <1>4

LEMMA CreateNew ==
  ASSUME TypesOK, KnownInv, WhereInv, NewInv, NEW s \in Thread, Create(s)
  PROVE  NewInv'
<1>1. PICK i \in Identity : owner[i] = None /\ At(s, i)
  BY DEF Create
<1>2. i \notin Generated
  BY <1>1 DEF Generated
<1>3. /\ UNCHANGED <<ids, todo, told>> /\ s \in Runner
      /\ id'[s] = i /\ \A t \in Runner \ {s} : pc'[t] = pc[t] /\ id'[t] = id[t]
  BY <1>1, RunnerThreads DEF Create, Go, At, TypesOK
<1>4. SUFFICES ASSUME NEW t \in Thread, pc'[t] = "insert"
               PROVE  /\ id'[t] \notin ids' \cup todo' /\ told'[id'[t]] = 0
                      /\ \A r \in Runner \ {t} : id'[r] # id'[t]
  BY DEF NewInv
<1>5. CASE t = s
  <2>1. i \notin ids' \cup todo' /\ told'[i] = 0
    BY <1>1, <1>2, <1>3 DEF KnownInv
  <2>2. \A r \in Runner \ {s} : id'[r] # i
    BY <1>2, <1>3, NoneIsNothing DEF KnownInv
  <2>. QED  BY <1>3, <1>5, <2>1, <2>2
<1>6. CASE t # s
  <2>1. /\ t \in Runner /\ pc[t] = "insert" /\ id'[t] = id[t]
        /\ id[t] \in Generated
    BY <1>3, <1>4, <1>6, RunnerThreads DEF WhereInv, Place, KnownInv
  <2>2. /\ id[t] \notin ids \cup todo /\ told[id[t]] = 0
        /\ \A r \in Runner \ {t} : id[r] # id[t]
    BY <2>1 DEF NewInv
  <2>. QED  BY <1>1, <1>2, <1>3, <2>1, <2>2
<1>. QED  BY <1>5, <1>6

LEMMA AbortNew ==
  ASSUME TypesOK, KnownInv, WhereInv, NewInv, NEW s \in Runner, Raises(s)
  PROVE  NewInv'
<1>1. Aborted(s)
  BY AbortStep
<1>2. /\ \A t \in Runner \ {s} : pc'[t] = pc[t] /\ id'[t] = id[t]
      /\ pc'[s] # "insert" /\ id'[s] = None
  BY <1>1 DEF Aborted, TypesOK
<1>. QED  BY <1>1, <1>2, NewStep DEF Aborted, data

LEMMA ServeNew ==
  ASSUME TypesOK, KnownInv, WhereInv, NewInv, NEW s \in Thread, Serve(s)
  PROVE  NewInv'
<1>. s \in Runner
  BY RunnerThreads
<1>1. ASSUME NEW p \in {"scan", "lookup", "delete", "stamp"}, NEW u,
             NEW i \in ids \cup {None}, Request(s, p, u, i)
      PROVE  NewInv'
  <2>1. /\ pc' = [pc EXCEPT ![s] = p] /\ id' = [id EXCEPT ![s] = i]
        /\ UNCHANGED <<ids, keys, todo, told>>
    BY <1>1 DEF Request, Go, At, store, data
  <2>2. /\ \A t \in Runner \ {s} : pc'[t] = pc[t] /\ id'[t] = id[t]
        /\ pc'[s] # "insert" /\ id'[s] = i
    BY <2>1 DEF TypesOK
  <2>. QED  BY <2>1, <2>2, NewStep
<1>2. CASE \E u \in User : Ensure(s, u) \/ Use(s, u)
  BY <1>1, <1>2 DEF Ensure, Use
<1>3. CASE \E i \in Identity : Reset(s, i) \/ \E u \in User : Announce(s, u, i)
  BY <1>1, <1>3 DEF Reset, Announce
<1>4. CASE Scan(s) \/ Open(s) \/ Write(s) \/ Insert(s) \/ Delete(s) \/ RemoveKey(s)
           \/ Drop(s) \/ Stamp(s)
  <2>1. \A t \in Runner \ {s} : pc'[t] = pc[t] /\ id'[t] = id[t]
    BY <1>4 DEF Scan, Open, Write, Insert, Delete, RemoveKey, Drop, Stamp, Go, At, TypesOK
  <2>2. pc'[s] # "insert"
    BY <1>4 DEF Scan, Open, Write, Insert, Delete, RemoveKey, Drop, Stamp, Go, TypesOK
  <2>3. ids' \subseteq ids \cup {id[s]} /\ todo' = todo
    BY <1>4 DEF Scan, Open, Write, Insert, Delete, RemoveKey, Drop, Stamp, store, data
  <2>4. \A i \in Identity \ {id[s]} : told'[i] = told[i]
    BY <1>4 DEF Scan, Open, Write, Insert, Delete, RemoveKey, Drop, Stamp, TypesOK
  <2>5. id'[s] \in {None, id[s]}
    BY <1>4 DEF Scan, Open, Write, Insert, Delete, RemoveKey, Drop, Stamp, At, TypesOK
  <2>. QED  BY <2>1, <2>2, <2>3, <2>4, <2>5, NewStep
<1>. QED  BY <1>2, <1>3, <1>4, CreateNew, AbortNew DEF Serve, Raises

LEMMA NextNew ==
  ASSUME TypesOK, KnownInv, WhereInv, NewInv, Next
  PROVE  NewInv'
<1>1. ASSUME NEW s \in Runner, Lookup(s) \/ InitRouter(s) \/ BuildFails(s) \/ Put(s)
      PROVE  NewInv'
  <2>1. UNCHANGED <<ids, keys, todo, told>>
    BY <1>1 DEF Lookup, InitRouter, BuildFails, Put, store, data
  <2>2. /\ \A t \in Runner \ {s} : pc'[t] = pc[t] /\ id'[t] = id[t]
        /\ pc'[s] # "insert"
    BY <1>1 DEF Lookup, InitRouter, BuildFails, Put, Finish, Go, At, TypesOK
  <2>3. id'[s] \in ids \cup {None, id[s]}
    <3>1. CASE Lookup(s)
      <4>1. user[s] \in User
        BY <3>1 DEF TypesOK, WhereInv, Place, Lookup
      <4>2. GetForUser(user[s]) \in ids \cup {None}
        BY <4>1, GetType DEF Own
      <4>. QED  BY <3>1, <4>2 DEF Lookup, Finish, At, TypesOK
    <3>2. CASE InitRouter(s) \/ BuildFails(s) \/ Put(s)
      BY <3>2 DEF InitRouter, BuildFails, Put, Finish, At, TypesOK
    <3>. QED  BY <1>1, <3>1, <3>2
  <2>. QED  BY <2>1, <2>2, <2>3, NewStep
<1>2. CASE SetUp(Deferred)
  <2>1. UNCHANGED <<ids, keys, told>> /\ Deferred \in Runner /\ todo' \subseteq ids \cup todo
    BY <1>2, RunnerThreads DEF SetUp, SetReady, List, NextIdentity, Delivering, store, data
  <2>2. /\ \A t \in Runner \ {Deferred} : pc'[t] = pc[t] /\ id'[t] = id[t]
        /\ pc'[Deferred] # "insert"
    BY <1>2, <2>1 DEF SetUp, SetReady, List, NextIdentity, Delivering, Go, At, TypesOK
  <2>3. id'[Deferred] \in todo \cup {id[Deferred]}
    <3>1. CASE NextIdentity(Deferred)
      BY <2>1, <3>1, EldestChosen DEF NextIdentity, At, TypesOK
    <3>. QED  BY <1>2, <3>1 DEF SetUp, SetReady, List, Delivering
  <2>. QED  BY <2>1, <2>2, <2>3, NewStep
<1>3. ASSUME NEW i \in Identity, CoolsDown(i)
      PROVE  NewInv'
  <2>1. UNCHANGED <<ids, keys, todo, pc, id>> /\ \A j \in Identity : told'[j] \in {told[j], 0}
    BY <1>3 DEF CoolsDown, thread, TypesOK
  <2>2. pc[Deferred] # "insert" /\ Deferred \in Runner
    BY RunnerThreads DEF WhereInv
  <2>. QED  BY <2>1, <2>2, NewStep
<1>4. CASE Restart
  BY <1>4, RunnerThreads DEF Restart, NewInv
<1>. QED  BY <1>1, <1>2, <1>3, <1>4, ServeNew, AbortNew DEF Next, Raises

-----------------------------------------------------------------------------
(* Ranks.                                                                  *)

LEMMA InitRank ==
  ASSUME Init
  PROVE  RankInv
<1>1. \A i \in Identity : rank[i] = IF i \in ids THEN i ELSE 0
  BY DEF Init
<1>2. ids \subseteq Identity /\ Entered \in SUBSET Identity
  BY InitTypes DEF TypesOK, Entered, Generated
<1>3. Cardinality(Entered) \in Nat /\ MaxIdentity \in Nat
  BY <1>2, IdentitySets, RoutersAssumption DEF RoutersAssumption
<1>. QED  BY <1>1, <1>2, <1>3 DEF RankInv, Identity

(* Only Create begins an insert, and of an identity that is new.           *)
LEMMA InsertsOfNew ==
  ASSUME TypesOK, KnownInv, WhereInv, Next, NEW t \in Thread, pc'[t] = "insert"
  PROVE  (pc[t] = "insert" /\ id'[t] = id[t]) \/ id'[t] \notin Generated
<1>. t \in Runner
  BY RunnerThreads
<1>0. ASSUME NEW s \in Runner, Raises(s)
      PROVE  pc[t] = "insert" /\ id'[t] = id[t]
  BY <1>0, AbortStep DEF Aborted, TypesOK
<1>1. ASSUME NEW s \in Thread, Serve(s), ~Create(s)
      PROVE  pc[t] = "insert" /\ id'[t] = id[t]
  BY <1>0, <1>1, RunnerThreads DEF Raises, Serve, Ensure, Use, Reset, Announce, Request, Scan, Open, Write, Insert,
              Delete, RemoveKey, Drop, Stamp, Go, At, TypesOK
<1>2. ASSUME NEW s \in Thread, Create(s)
      PROVE  (pc[t] = "insert" /\ id'[t] = id[t]) \/ id'[t] \notin Generated
  BY <1>2 DEF Create, Go, At, TypesOK, Generated
<1>3. ASSUME NEW s \in Runner, Lookup(s) \/ InitRouter(s) \/ BuildFails(s) \/ Put(s)
      PROVE  pc[t] = "insert" /\ id'[t] = id[t]
  BY <1>3 DEF Lookup, InitRouter, BuildFails, Put, Finish, Go, At, TypesOK
<1>4. CASE SetUp(Deferred)
  BY <1>4 DEF SetUp, SetReady, List, NextIdentity, Delivering, Go, At, TypesOK
<1>5. ASSUME NEW i \in Identity, CoolsDown(i)
      PROVE  pc[t] = "insert" /\ id'[t] = id[t]
  BY <1>5 DEF CoolsDown, thread
<1>6. ~Restart
  BY RoutersAssumption DEF RoutersAssumption, Restart
<1>. QED  BY <1>0, <1>1, <1>2, <1>3, <1>4, <1>5, <1>6 DEF Next, Raises

LEMMA GeneratedGrows ==
  ASSUME TypesOK, KnownInv, WhereInv, Next
  PROVE  Generated \subseteq Generated' /\ Entered \subseteq Entered'
<1>0. ASSUME NEW t \in Runner, Raises(t)
      PROVE  UNCHANGED owner
  BY <1>0, AbortStep DEF Aborted, data
<1>1. \A i \in Generated : owner'[i] = owner[i]
  BY ZenonT(40), <1>0, RunnerThreads DEF Raises, Next, Serve, Ensure, Use, Reset, Announce, Request, Scan, Create, Open, Write,
         Insert, Delete, RemoveKey, Drop, Stamp, Lookup, InitRouter, BuildFails, Put,
         SetUp, SetReady, List, NextIdentity, Delivering, CoolsDown, Restart, store, data,
         Generated, TypesOK
<1>2. Generated \subseteq Generated'
  BY <1>1 DEF Generated
<1>. QED  BY <1>2, InsertsOfNew DEF Entered

LEMMA InsertRank ==
  ASSUME TypesOK, KnownInv, WhereInv, NewInv, RankInv, NEW t \in Thread, Insert(t)
  PROVE  RankInv'
<1>1. /\ ids' = ids \cup {id[t]} /\ rank' = [rank EXCEPT ![id[t]] = LastRank + 1]
      /\ pc[t] = "insert" /\ pc' = [pc EXCEPT ![t] = "open"] /\ UNCHANGED <<owner, id>>
  BY DEF Insert, Go
<1>2. id[t] \in Generated /\ id[t] \in Identity /\ id[t] \notin ids
  BY <1>1, RunnerThreads DEF WhereInv, Place, KnownInv, NewInv, Generated
<1>3. id[t] \notin Entered
  BY <1>1 DEF Entered
<1>4. Entered' = Entered \cup {id[t]}
  <2>1. Generated' = Generated
    BY <1>1 DEF Generated
  <2>2. \A s \in Thread \ {t} : id[s] # id[t]
    BY <1>1, RunnerThreads DEF NewInv
  <2>3. \A s \in Thread : pc'[s] = "insert" <=> pc[s] = "insert" /\ s # t
    BY <1>1, RunnerThreads DEF TypesOK
  <2>4. \A i : i \in Entered' <=>
                 /\ i \in Generated
                 /\ \A s \in Thread : pc[s] = "insert" /\ s # t => id[s] # i
    BY <1>1, <2>1, <2>3 DEF Entered
  <2>5. \A i : i \in Entered <=>
                 i \in Generated /\ \A s \in Thread : pc[s] = "insert" => id[s] # i
    BY DEF Entered
  <2>. QED  BY <1>1, <1>2, <2>2, <2>4, <2>5
<1>5. /\ IsFiniteSet(Entered) /\ Cardinality(Entered) \in Nat /\ MaxIdentity \in Nat
      /\ Cardinality(Entered') = Cardinality(Entered) + 1
  <2>1. Entered \in SUBSET Identity
    BY DEF Entered, Generated
  <2>2. IsFiniteSet(Entered)
    BY <2>1, IdentitySets
  <2>. QED
    BY <1>3, <1>4, <2>1, <2>2, IdentitySets, FS_AddElement, FS_CardinalityType,
       RoutersAssumption DEF RoutersAssumption
<1>6. /\ LastRank \in Nat /\ LastRank <= MaxIdentity + Cardinality(Entered)
      /\ \A i \in ids : rank[i] <= LastRank
  BY LastRankIsLast
<1>7. \A i \in Identity : rank'[i] = IF i = id[t] THEN LastRank + 1 ELSE rank[i]
  BY <1>1 DEF TypesOK
<1>8. \A i \in Identity : rank'[i] <= MaxIdentity + Cardinality(Entered')
  BY <1>5, <1>6, <1>7 DEF RankInv, TypesOK
<1>9. ASSUME NEW i \in ids', NEW j \in ids', rank'[i] = rank'[j]
      PROVE  i = j
  <2>1. \A k \in ids : k \in Identity /\ rank[k] \in Nat /\ rank[k] < LastRank + 1
    BY <1>6 DEF TypesOK
  <2>. QED  BY <1>1, <1>2, <1>7, <1>9, <2>1 DEF RankInv
<1>. QED  BY <1>8, <1>9 DEF RankInv

LEMMA RestartRank ==
  ASSUME TypesOK, KnownInv, Restart
  PROVE  RankInv'
<1>1. rank' = [i \in Identity |-> IF i \in ids' THEN i ELSE 0]
  BY DEF Restart
<1>2. ids' \subseteq Identity
  BY RestartTypes DEF TypesOK
<1>3. Entered' \in SUBSET Identity
  BY DEF Entered, Generated
<1>4. Cardinality(Entered') \in Nat /\ MaxIdentity \in Nat
  BY <1>3, IdentitySets, RoutersAssumption DEF RoutersAssumption
<1>. QED  BY <1>1, <1>2, <1>4 DEF RankInv, Identity

LEMMA NextRank ==
  ASSUME TypesOK, KnownInv, WhereInv, NewInv, RankInv, Next
  PROVE  RankInv'
<1>1. CASE rank' = rank /\ ids' \subseteq ids
  <2>1. Entered' \in SUBSET Identity /\ Entered \in SUBSET Entered'
    BY GeneratedGrows DEF Entered, Generated
  <2>2. /\ Cardinality(Entered) <= Cardinality(Entered')
        /\ Cardinality(Entered) \in Nat /\ Cardinality(Entered') \in Nat
    BY <2>1, IdentitySets, FS_Subset
  <2>. QED
    BY <1>1, <2>2, RoutersAssumption DEF RoutersAssumption, RankInv, TypesOK
<1>0. ASSUME NEW t \in Runner, Raises(t)
      PROVE  UNCHANGED <<rank, ids>>
  BY <1>0, AbortStep DEF Aborted, data
<1>2. \/ rank' = rank /\ ids' \subseteq ids
      \/ \E t \in Thread : Insert(t)
      \/ Restart
  BY <1>0, RunnerThreads DEF Raises, Next, Serve, Ensure, Use, Reset, Announce, Request, Scan, Create, Open, Write,
         Delete, RemoveKey, Drop, Stamp, Lookup, InitRouter, BuildFails, Put, SetUp,
         SetReady, List, NextIdentity, Delivering, CoolsDown, store, data
<1>. QED  BY <1>1, <1>2, InsertRank, RestartRank

-----------------------------------------------------------------------------
(* Announces.                                                              *)

LEMMA StampingType ==
  ASSUME NEW i \in Identity
  PROVE  /\ Stamping(i) \in SUBSET Thread /\ IsFiniteSet(Stamping(i))
         /\ Cardinality(Stamping(i)) \in Nat /\ Cardinality(Thread) \in Nat
         /\ Cardinality(Stamping(i)) <= Cardinality(Thread)
<1>1. Stamping(i) \in SUBSET Thread
  BY DEF Stamping
<1>. QED  BY <1>1, ThreadSets

LEMMA StampingTypeThen ==
  ASSUME NEW i \in Identity
  PROVE  /\ Stamping(i)' \in SUBSET Thread /\ IsFiniteSet(Stamping(i)')
         /\ Cardinality(Stamping(i)') \in Nat
         /\ Cardinality(Stamping(i)') <= Cardinality(Thread)
<1>1. Stamping(i)' \in SUBSET Thread
  BY DEF Stamping
<1>. QED  BY <1>1, ThreadSets

LEMMA InitTold ==
  ASSUME Init
  PROVE  ToldInv
<1>1. ASSUME NEW i \in Identity
      PROVE  /\ told[i] + Cardinality(Stamping(i)) <= requests
             /\ told[i] + Cardinality(Stamping(i)) <= Cardinality(Thread)
  <2>1. told[i] = 0 /\ requests = 0 /\ Stamping(i) = {}
    BY <1>1, RunnerThreads DEF Init, Stamping
  <2>2. Cardinality(Stamping(i)) = 0
    BY <2>1, FS_EmptySet
  <2>. QED  BY <2>1, <2>2, ThreadSets
<1>2. \A i \in ids \ cool : told[i] = 0
  BY InitTypes DEF Init, TypesOK
<1>. QED  BY <1>1, <1>2 DEF ToldInv

(* No step lets more announces through, or thinks of doing so.             *)
Bounded(i) ==
    /\ told[i] + Cardinality(Stamping(i)) <= requests
    /\ told[i] + Cardinality(Stamping(i)) <= Cardinality(Thread)

LEMMA BoundedStep ==
  ASSUME TypesOK, TypesOK', ToldInv, NEW i \in Identity,
         told'[i] <= told[i], Stamping(i)' \subseteq Stamping(i), requests <= requests'
  PROVE  Bounded(i)'
<1>1. Cardinality(Stamping(i)') <= Cardinality(Stamping(i))
  BY StampingType, FS_Subset
<1>2. Bounded(i)
  BY DEF ToldInv, Bounded
<1>3. requests \in Nat /\ requests' \in Nat /\ told[i] \in Nat /\ told'[i] \in Nat
  BY DEF TypesOK
<1>. QED  BY <1>1, <1>2, <1>3, StampingType, StampingTypeThen DEF Bounded

LEMMA AnnounceTold ==
  ASSUME TypesOK, TypesOK', WhereInv, ToldInv, NEW t \in Thread, NEW u \in User,
         NEW j \in Identity, Announce(t, u, j)
  PROVE  ToldInv'
<1>1. /\ pc[t] = "idle" /\ pc' = [pc EXCEPT ![t] = "stamp"]
      /\ id' = [id EXCEPT ![t] = j] /\ requests' = requests + 1
      /\ UNCHANGED <<ids, cool, told>> /\ j \in ids \ cool
  BY DEF Announce, Request, Go, At, store, data
<1>2. /\ pc'[t] = "stamp" /\ id'[t] = j
      /\ \A s \in Thread \ {t} : pc'[s] = pc[s] /\ id'[s] = id[s]
  BY <1>1, RunnerThreads DEF TypesOK
<1>3. requests \in Nat
  BY DEF TypesOK
<1>4. ASSUME NEW i \in Identity PROVE Bounded(i)'
  <2>1. CASE i # j
    <3>1. Stamping(i)' \subseteq Stamping(i)
      BY <1>2, <2>1 DEF Stamping
    <3>. QED  BY <1>1, <1>3, <3>1, BoundedStep DEF TypesOK
  <2>2. CASE i = j
    <3>1. Stamping(i)' = Stamping(i) \cup {t} /\ t \notin Stamping(i)
      BY <1>1, <1>2, <2>2 DEF Stamping
    <3>2. Cardinality(Stamping(i)') = Cardinality(Stamping(i)) + 1
      BY <3>1, StampingType, FS_AddElement
    <3>3. told[i] = 0 /\ told'[i] = 0
      BY <1>1, <2>2 DEF ToldInv
    <3>4. told[i] + Cardinality(Stamping(i)) <= requests
      BY DEF ToldInv
    <3>. QED
      BY <1>1, <1>3, <3>2, <3>3, <3>4, StampingType, StampingTypeThen DEF Bounded
  <2>. QED  BY <2>1, <2>2
<1>5. \A i \in ids' \ cool' : told'[i] = 0
  BY <1>1 DEF ToldInv
<1>. QED  BY <1>4, <1>5 DEF ToldInv, Bounded

LEMMA StampTold ==
  ASSUME TypesOK, TypesOK', WhereInv, ToldInv, NEW t \in Thread, Stamp(t)
  PROVE  ToldInv'
<1>1. /\ pc[t] = "stamp" /\ pc' = [pc EXCEPT ![t] = "open"]
      /\ UNCHANGED <<id, ids, requests>> /\ cool' = cool \cup ({id[t]} \cap ids)
      /\ id[t] \in Identity
  BY RunnerThreads DEF Stamp, Go, counts, WhereInv, Place, TypesOK
<1>2. \A i \in Identity : told'[i] = IF i = id[t] THEN told[i] + 1 ELSE told[i]
  BY DEF Stamp, TypesOK
<1>3. pc'[t] = "open" /\ \A s \in Thread \ {t} : pc'[s] = pc[s]
  BY <1>1, RunnerThreads DEF TypesOK
<1>4. requests \in Nat
  BY DEF TypesOK
<1>5. ASSUME NEW i \in Identity PROVE Bounded(i)'
  <2>1. CASE i # id[t]
    <3>1. Stamping(i)' \subseteq Stamping(i)
      BY <1>1, <1>3 DEF Stamping
    <3>. QED  BY <1>1, <1>2, <1>4, <2>1, <3>1, BoundedStep DEF TypesOK
  <2>2. CASE i = id[t]
    <3>1. Stamping(i)' = Stamping(i) \ {t} /\ t \in Stamping(i)
      BY <1>1, <1>3, <2>2 DEF Stamping
    <3>2. Cardinality(Stamping(i)') = Cardinality(Stamping(i)) - 1
      BY <3>1, StampingType, FS_RemoveElement
    <3>3. told'[i] = told[i] + 1 /\ told[i] \in Nat
      BY <1>2, <2>2 DEF TypesOK
    <3>4. Bounded(i)
      BY DEF ToldInv, Bounded
    <3>. QED
      BY <1>1, <1>4, <3>2, <3>3, <3>4, StampingType, StampingTypeThen DEF Bounded
  <2>. QED  BY <2>1, <2>2
<1>6. \A i \in ids' \ cool' : told'[i] = 0
  BY <1>1, <1>2 DEF ToldInv, TypesOK
<1>. QED  BY <1>5, <1>6 DEF ToldInv, Bounded

(* Every other step.                                                       *)
LEMMA StampsKept ==
  ASSUME TypesOK, WhereInv, Next, ~(\E t \in Thread : Stamp(t)),
         ~(\E t \in Thread, u \in User, i \in Identity : Announce(t, u, i)),
         NEW t \in Thread, pc'[t] = "stamp"
  PROVE  pc[t] = "stamp" /\ id'[t] = id[t]
<1>. t \in Runner
  BY RunnerThreads
<1>0. ASSUME NEW s \in Runner, Raises(s)
      PROVE  pc[t] = "stamp" /\ id'[t] = id[t]
  BY <1>0, AbortStep DEF Aborted, TypesOK
<1>1. ASSUME NEW s \in Thread, Serve(s)
      PROVE  pc[t] = "stamp" /\ id'[t] = id[t]
  <2>1. then[s] # "stamp"
    BY RunnerThreads DEF TypesOK
  <2>. QED
    BY <1>0, <1>1, <2>1, RunnerThreads DEF Raises, Serve, Ensure, Use, Reset, Request, Scan, Create, Open, Write,
              Insert, Delete, RemoveKey, Drop, Go, At, TypesOK
<1>2. ASSUME NEW s \in Runner, Lookup(s) \/ InitRouter(s) \/ BuildFails(s) \/ Put(s)
      PROVE  pc[t] = "stamp" /\ id'[t] = id[t]
  BY <1>2 DEF Lookup, InitRouter, BuildFails, Put, Finish, Go, At, TypesOK
<1>3. CASE SetUp(Deferred)
  BY <1>3 DEF SetUp, SetReady, List, NextIdentity, Delivering, Go, At, TypesOK
<1>4. ASSUME NEW i \in Identity, CoolsDown(i)
      PROVE  pc[t] = "stamp" /\ id'[t] = id[t]
  BY <1>4 DEF CoolsDown, thread
<1>5. ~Restart
  BY RoutersAssumption DEF RoutersAssumption, Restart
<1>. QED  BY <1>0, <1>1, <1>2, <1>3, <1>4, <1>5 DEF Next, Raises

LEMMA ToldKept ==
  ASSUME TypesOK, TypesOK', WhereInv, NewInv, ToldInv, Next, ~(\E t \in Thread : Stamp(t)),
         ~(\E t \in Thread, u \in User, i \in Identity : Announce(t, u, i))
  PROVE  /\ \A i \in Identity : told'[i] \in {told[i], 0}
         /\ \A i \in ids' \ cool' : told'[i] = 0
         /\ requests' \in {requests, requests + 1}
<1>0. ASSUME NEW t \in Runner, Raises(t)
      PROVE  UNCHANGED <<told, ids, cool, requests>>
  BY <1>0, AbortStep DEF Aborted, data
<1>1. ASSUME NEW t \in Thread, Insert(t)
      PROVE  /\ UNCHANGED <<told, requests>>
             /\ \A i \in ids' \ cool' : told'[i] = 0
  BY <1>1 DEF Insert, counts, NewInv, ToldInv
<1>2. ASSUME UNCHANGED told, ids' \ cool' \subseteq ids \ cool
      PROVE  \A i \in ids' \ cool' : told'[i] = 0
  BY <1>2 DEF ToldInv
<1>3. ASSUME NEW t \in Thread, Serve(t), ~Insert(t)
      PROVE  /\ UNCHANGED told /\ ids' \ cool' \subseteq ids \ cool
             /\ requests' \in {requests, requests + 1}
  BY <1>0, <1>3, RunnerThreads
     DEF Raises, Serve, Ensure, Use, Reset, Request, Scan, Create, Open, Write, Delete,
              RemoveKey, Drop, store, data, counts
<1>4. ASSUME \/ \E s \in Runner : \/ Lookup(s) \/ InitRouter(s) \/ BuildFails(s) \/ Put(s)
                               \/ Raises(s)
             \/ SetUp(Deferred)
      PROVE  UNCHANGED <<told, ids, cool, requests>>
  BY <1>0, <1>4 DEF Lookup, InitRouter, BuildFails, Put, SetUp, SetReady, List, NextIdentity,
              Delivering, store, data, counts
<1>5. ASSUME NEW j \in Identity, CoolsDown(j)
      PROVE  /\ \A i \in Identity : told'[i] \in {told[i], 0}
             /\ \A i \in ids' \ cool' : told'[i] = 0
             /\ UNCHANGED requests
  BY <1>5 DEF CoolsDown, counts, TypesOK, ToldInv
<1>6. ASSUME Restart
      PROVE  /\ \A i \in Identity : told'[i] \in {told[i], 0}
             /\ \A i \in ids' \ cool' : told'[i] = 0
             /\ UNCHANGED requests
  <2>1. ids' \subseteq Identity
    BY DEF TypesOK
  <2>. QED  BY <1>6, <2>1 DEF Restart
<1>7. ASSUME NEW t \in Thread, Serve(t)
      PROVE  /\ UNCHANGED told /\ requests' \in {requests, requests + 1}
             /\ \A i \in ids' \ cool' : told'[i] = 0
  BY <1>1, <1>2, <1>3, <1>7
<1>8. CASE \/ \E s \in Runner : \/ Lookup(s) \/ InitRouter(s) \/ BuildFails(s) \/ Put(s)
                             \/ Raises(s)
           \/ SetUp(Deferred)
  BY <1>2, <1>4, <1>8
<1>. QED  BY <1>5, <1>6, <1>7, <1>8 DEF Next, Raises

LEMMA NextTold ==
  ASSUME TypesOK, TypesOK', WhereInv, NewInv, ToldInv, Next
  PROVE  ToldInv'
<1>1. CASE /\ ~(\E t \in Thread : Stamp(t))
           /\ ~(\E t \in Thread, u \in User, i \in Identity : Announce(t, u, i))
  <2>1. ASSUME NEW i \in Identity PROVE Bounded(i)'
    <3>1. Stamping(i)' \subseteq Stamping(i)
      BY <1>1, StampsKept DEF Stamping
    <3>2. told'[i] <= told[i] /\ requests <= requests'
      BY <1>1, ToldKept DEF TypesOK
    <3>. QED  BY <3>1, <3>2, BoundedStep
  <2>2. \A i \in ids' \ cool' : told'[i] = 0
    BY <1>1, ToldKept
  <2>. QED  BY <2>1, <2>2 DEF ToldInv, Bounded
<1>. QED  BY <1>1, StampTold, AnnounceTold

-----------------------------------------------------------------------------
(* Routers.                                                                *)

(* The identity a user goes by, of whose identities none has changed.      *)
LEMMA SameIdentity ==
  ASSUME TypesOK, TypesOK', RankInv', NEW u \in User,
         Own(u)' = Own(u), \A i \in Own(u) : rank'[i] = rank[i]
  PROVE  GetForUser(u)' = GetForUser(u)
<1>1. CASE Own(u) = {}
  BY <1>1 DEF GetForUser
<1>2. CASE Own(u) # {}
  <2>1. GetForUser(u) \in Own(u) /\ \A i \in Own(u) : rank[GetForUser(u)] <= rank[i]
    BY <1>2, GetType
  <2>. DEFINE g == GetForUser(u)
  <2>2. g \in Own(u)' /\ \A i \in Own(u)' : rank'[g] <= rank'[i]
    BY <2>1
  <2>. HIDE DEF g
  <2>3. GetForUser(u)' = g
    BY <2>2, GetIsLeastThen
  <2>. QED  BY <2>3 DEF g
<1>. QED  BY <1>1, <1>2

(* What thread s does, for its own user, leaves the others as they were.   *)
LEMMA OthersReached ==
  ASSUME TypesOK, TypesOK', KnownInv, WhereInv, RankInv', ReachInv,
         NEW s \in Runner, NEW u \in User, u # user[s], GetForUser(u)' \in keys',
         Own(u)' = Own(u), \A i \in Own(u) : rank'[i] = rank[i],
         keys' \cap Generated \subseteq keys,
         \A i \in ids \cap keys : owner[i] = u => i \in ids' \cap keys',
         \A i \in Generated : owner'[i] = owner[i],
         \A t \in Runner \ {s} : pc'[t] = pc[t] /\ user'[t] = user[t] /\ id'[t] = id[t],
         pc[Deferred] \in {"start", "list"} => pc'[Deferred] \in {"start", "list"},
         \A i \in todo : owner[i] = u => i \in todo' \/ u \in unbuilt',
         routers'[u] = routers[u], u \in unbuilt => u \in unbuilt'
  PROVE  Reached(u)'
<1>1. GetForUser(u)' = GetForUser(u)
  BY SameIdentity
<1>2. GetForUser(u) \in Generated
  BY <1>1, KnownOf, NoneIsNothing DEF TypesOK
<1>3. Reached(u)
  BY <1>1, <1>2 DEF ReachInv
<1>4. ASSUME NEW t \in Runner, Helps(t, u)
      PROVE  Helps(t, u)'
  <2>1. t # s /\ user[t] = u
    BY <1>4 DEF Helps
  <2>2. pc[t] = "init" => id[t] \in ids' \cap keys'
    BY <1>4, <2>1 DEF Helps, WhereInv, Place
  <2>. QED  BY <2>1, <2>2 DEF Helps
<1>5. ASSUME NEW i \in todo \cap ids \cap keys, owner[i] = u
      PROVE  (i \in todo' \cap ids' \cap keys' /\ owner'[i] = u) \/ u \in unbuilt'
  BY <1>5 DEF KnownInv
<1>. QED  BY <1>3, <1>4, <1>5 DEF Reached

(* A thread that is not at "init" afterwards helps its user.               *)
LEMMA OwnReached ==
  ASSUME NEW s \in Runner, NEW u, user'[s] = u, pc'[s] # "init"
  PROVE  Reached(u)'
BY DEF Reached, Helps

LEMMA RequestReach ==
  ASSUME TypesOK, TypesOK', KnownInv, WhereInv, RankInv', ReachInv, NEW s \in Thread,
         NEW p, NEW v, NEW i, p # "init", Request(s, p, v, i)
  PROVE  ReachInv'
<1>1. /\ pc[s] = "idle" /\ pc' = [pc EXCEPT ![s] = p] /\ user' = [user EXCEPT ![s] = v]
      /\ id' = [id EXCEPT ![s] = i]
      /\ UNCHANGED <<ids, keys, rank, owner, todo, routers, unbuilt>>
  BY DEF Request, Go, ForUser, At, store, data
<1>2. /\ s \in Runner /\ user[s] = None /\ pc'[s] = p /\ user'[s] = v
      /\ \A t \in Runner \ {s} : pc'[t] = pc[t] /\ user'[t] = user[t] /\ id'[t] = id[t]
      /\ pc'[Deferred] = pc[Deferred]
  BY <1>1, RunnerThreads, RoutersAssumption
     DEF RoutersAssumption, TypesOK, WhereInv, Place
<1>3. ASSUME NEW u \in User, GetForUser(u)' \in keys'
      PROVE  Reached(u)'
  <2>1. CASE u = v
    BY <1>2, <2>1, OwnReached
  <2>2. Own(u)' = Own(u) /\ u # user[s]
    BY <1>1, <1>2, NoneIsNothing DEF Own
  <2>. QED  BY <1>1, <1>2, <1>3, <2>2, OthersReached
<1>. QED  BY <1>3 DEF ReachInv

(* An error leaves its user, and those delivery still had to set up, among *)
(* those whose router has to be looked for again.                          *)
LEMMA AbortReach ==
  ASSUME TypesOK, TypesOK', KnownInv, WhereInv, RankInv', ReachInv, NEW s \in Runner,
         Raises(s)
  PROVE  ReachInv'
<1>1. Aborted(s)
  BY AbortStep
<1>2. /\ UNCHANGED <<ids, keys, rank, owner, routers>> /\ Deferred \in Runner
      /\ \A t \in Runner \ {s} : pc'[t] = pc[t] /\ user'[t] = user[t] /\ id'[t] = id[t]
  BY <1>1, RunnerThreads DEF Aborted, data, TypesOK
<1>3. pc[Deferred] \in {"start", "list"} => pc'[Deferred] = pc[Deferred]
  BY <1>1, <1>2 DEF Aborted
<1>4. \A i \in todo : i \in todo' \/ owner[i] \in unbuilt'
  BY <1>1 DEF Aborted
<1>5. ASSUME NEW u \in User, GetForUser(u)' \in keys'
      PROVE  Reached(u)'
  <2>1. CASE u = user[s]
    BY <1>1, <2>1 DEF Aborted, Reached
  <2>2. CASE u # user[s]
    <3>1. Own(u)' = Own(u) /\ (u \in unbuilt => u \in unbuilt')
      BY <1>1, <1>2 DEF Aborted, Own
    <3>. QED  BY <1>2, <1>3, <1>4, <1>5, <2>2, <3>1, OthersReached
  <2>. QED  BY <2>1, <2>2
<1>. QED  BY <1>5 DEF ReachInv

(* The steps of a request thread before it looks for the router.           *)
LEMMA ServeReach ==
  ASSUME TypesOK, TypesOK', KnownInv, WhereInv, NewInv, RankInv', ReachInv,
         NEW s \in Thread, Serve(s)
  PROVE  ReachInv'
<1>. s \in Runner /\ s # Deferred /\ Deferred \in Runner
  BY RunnerThreads, RoutersAssumption DEF RoutersAssumption
<1>1. CASE \E u \in User : Ensure(s, u) \/ Use(s, u)
  BY <1>1, RequestReach DEF Ensure, Use
<1>2. CASE \E i \in Identity : Reset(s, i) \/ \E u \in User : Announce(s, u, i)
  BY <1>2, RequestReach DEF Reset, Announce
<1>3. CASE Scan(s) \/ Create(s) \/ Insert(s) \/ Open(s) \/ Write(s) \/ Delete(s)
           \/ RemoveKey(s) \/ Drop(s) \/ Stamp(s)
  <2>1. /\ \A t \in Runner \ {s} : pc'[t] = pc[t] /\ id'[t] = id[t]
        /\ UNCHANGED <<user, todo, unbuilt>>
    BY ZenonT(40), <1>3 DEF Scan, Create, Insert, Open, Write, Delete, RemoveKey, Drop, Stamp, Go, At,
                TypesOK
  <2>2. pc'[s] # "init"
    BY <1>3 DEF Scan, Create, Insert, Open, Write, Delete, RemoveKey, Drop, Stamp, Go,
                TypesOK
  <2>3. ASSUME NEW u \in User, u # user[s]
        PROVE  /\ Own(u)' = Own(u) /\ \A i \in Own(u) : rank'[i] = rank[i]
               /\ keys' \cap Generated \subseteq keys
               /\ \A i \in ids \cap keys : owner[i] = u => i \in ids' \cap keys'
               /\ \A i \in Generated : owner'[i] = owner[i]
               /\ routers'[u] = routers[u]
    <3>1. CASE Scan(s) \/ Open(s) \/ Write(s) \/ Drop(s) \/ Stamp(s)
      BY <2>3, <3>1 DEF Scan, Open, Write, Drop, Stamp, store, data, Own, TypesOK
    <3>2. CASE Create(s)
      <4>1. PICK i \in Identity : /\ owner[i] = None /\ keys' \in {keys, keys \cup {i}}
                                  /\ owner' = [owner EXCEPT ![i] = user[s]]
        BY <3>2 DEF Create
      <4>2. UNCHANGED <<ids, rank, routers>>
        BY <3>2 DEF Create
      <4>3. i \notin Generated /\ i \notin ids
        BY <4>1 DEF Generated, KnownInv
      <4>4. \A j \in Identity \ {i} : owner'[j] = owner[j]
        BY <4>1 DEF TypesOK
      <4>. QED  BY <4>1, <4>2, <4>3, <4>4 DEF Own, Generated, TypesOK
    <3>3. CASE Insert(s)
      <4>1. /\ ids' = ids \cup {id[s]} /\ UNCHANGED <<owner, keys, routers>>
            /\ owner[id[s]] = user[s] /\ rank' = [rank EXCEPT ![id[s]] = LastRank + 1]
        BY <3>3 DEF Insert, WhereInv, Place
      <4>. QED  BY <2>3, <4>1 DEF Own, TypesOK
    <3>4. CASE Delete(s)
      <4>1. /\ ids' = ids \ {id[s]} /\ UNCHANGED <<owner, keys, routers, rank>>
            /\ owner[id[s]] = user[s]
        BY <3>4 DEF Delete, WhereInv, Place
      <4>. QED  BY <2>3, <4>1 DEF Own
    <3>5. CASE RemoveKey(s)
      <4>1. /\ keys' = keys \ {id[s]} /\ UNCHANGED <<owner, ids, routers, rank>>
            /\ id[s] \notin ids
        BY <3>5 DEF RemoveKey, WhereInv, Place
      <4>. QED  BY <4>1 DEF Own
    <3>. QED  BY <1>3, <3>1, <3>2, <3>3, <3>4, <3>5
  <2>4. ASSUME NEW u \in User, GetForUser(u)' \in keys'
        PROVE  Reached(u)'
    <3>1. CASE u = user[s]
      BY <2>1, <2>2, <3>1, OwnReached
    <3>2. CASE u # user[s]
      BY <2>1, <2>3, <2>4, <3>2, OthersReached
    <3>. QED  BY <3>1, <3>2
  <2>. QED  BY <2>4 DEF ReachInv
<1>. QED  BY <1>1, <1>2, <1>3, AbortReach DEF Serve, Raises

(* A thread looks for the router of its user, and builds it.               *)
LEMMA RouterReach ==
  ASSUME TypesOK, TypesOK', KnownInv, WhereInv, RankInv', ReachInv, NEW s \in Runner,
         Lookup(s) \/ InitRouter(s) \/ BuildFails(s) \/ Put(s)
  PROVE  ReachInv'
<1>1. /\ UNCHANGED <<ids, keys, rank, owner, todo>> /\ pc[s] \in {"lookup", "init", "build"}
      /\ \A t \in Runner \ {s} : pc'[t] = pc[t] /\ user'[t] = user[t] /\ id'[t] = id[t]
  BY DEF Lookup, InitRouter, BuildFails, Put, Finish, Go, ForUser, At, store, data, TypesOK
<1>2. user[s] \in User /\ Deferred \in Runner
  BY <1>1, RunnerThreads DEF WhereInv, Place, TypesOK
<1>3. pc[Deferred] \in {"start", "list"} => pc'[Deferred] = pc[Deferred]
  BY <1>1, <1>2
<1>4. \A u \in User : Own(u)' = Own(u)
  BY <1>1 DEF Own
<1>5. ASSUME NEW u \in User, GetForUser(u)' \in keys', u # user[s]
      PROVE  Reached(u)'
  <2>1. routers'[u] = routers[u] /\ (u \in unbuilt => u \in unbuilt')
    BY <1>5 DEF Lookup, InitRouter, BuildFails, Put, TypesOK
  <2>. QED  BY <1>1, <1>3, <1>4, <1>5, <2>1, OthersReached
<1>6. ASSUME NEW u \in User, GetForUser(u)' \in keys', u = user[s]
      PROVE  Reached(u)'
  <2>1. /\ GetForUser(u) \in keys /\ GetForUser(u) \in ids /\ GetForUser(u) # None
        /\ Reached(u)
    <3>1. GetForUser(u)' = GetForUser(u)
      BY <1>1, <1>4, SameIdentity
    <3>. QED  BY <1>1, <1>6, <3>1, GetType, NoneIsNothing DEF ReachInv, Own, TypesOK
  <2>2. CASE routers[u] # None /\ (Lookup(s) \/ InitRouter(s))
    BY <2>2 DEF Lookup, InitRouter, Reached
  <2>3. CASE Lookup(s) /\ routers[u] = None
    <3>1. s # Deferred /\ pc[s] = "lookup"
      BY <2>3 DEF Lookup, WhereInv
    <3>2. CASE ~ready
      BY <1>1, <1>3, <3>2 DEF WhereInv, Reached
    <3>3. CASE ready
      <4>1. pc'[s] = "init" /\ id'[s] = GetForUser(u) /\ user'[s] = u
        BY <1>6, <2>1, <2>3, <3>3 DEF Lookup, At, Go, TypesOK
      <4>2. Helps(s, u)'
        BY <1>1, <2>1, <4>1 DEF Helps
      <4>. QED  BY <4>2 DEF Reached
    <3>. QED  BY <3>2, <3>3
  <2>4. CASE InitRouter(s) /\ routers[u] = None
    <3>1. CASE id[s] \in ids \cap keys
      <4>1. pc'[s] = "build" /\ user'[s] = u
        BY <1>6, <2>4, <3>1 DEF InitRouter, Go, TypesOK
      <4>. QED  BY <4>1, OwnReached
    <3>2. CASE id[s] \notin ids \cap keys
      <4>1. UNCHANGED <<routers, unbuilt>> /\ pc[s] = "init"
        BY <2>4 DEF InitRouter
      <4>2. \A t \in Runner : Helps(t, u) => Helps(t, u)'
        BY <1>1, <3>2, <4>1 DEF Helps
      <4>. QED  BY <1>1, <1>3, <2>1, <4>1, <4>2 DEF Reached
    <3>. QED  BY <3>1, <3>2
  <2>5. CASE BuildFails(s)
    BY <1>6, <2>5 DEF BuildFails, Reached
  <2>6. CASE Put(s)
    <3>1. id[s] # None
      BY <2>6 DEF Put, WhereInv, Place
    <3>2. routers'[u] # None
      BY <1>6, <2>6, <3>1 DEF Put, TypesOK
    <3>. QED  BY <3>2 DEF Reached
  <2>. QED  BY <2>2, <2>3, <2>4, <2>5, <2>6
<1>. QED  BY <1>5, <1>6 DEF ReachInv

(* Delivery lists the identities, which include the one each user goes by, *)
(* and takes them up one by one.                                           *)
LEMMA SetUpReach ==
  ASSUME TypesOK, TypesOK', KnownInv, WhereInv, RankInv', ReachInv, SetUp(Deferred)
  PROVE  ReachInv'
<1>. Deferred \in Runner
  BY RunnerThreads
<1>0. /\ UNCHANGED <<ids, keys, rank, owner, routers, unbuilt>>
      /\ \A t \in Runner \ {Deferred} : pc'[t] = pc[t] /\ user'[t] = user[t] /\ id'[t] = id[t]
      /\ pc[Deferred] \in {"start", "list", "next"}
  BY DEF SetUp, SetReady, List, NextIdentity, Delivering, Go, ForUser, At, store, data, TypesOK
<1>1. user[Deferred] = None
  BY <1>0 DEF WhereInv, Place
<1>2. \A t \in Runner, u \in User : Helps(t, u) => t # Deferred /\ Helps(t, u)'
  BY <1>0, <1>1, NoneIsNothing DEF Helps
<1>3. ASSUME NEW u \in User, GetForUser(u)' \in keys'
      PROVE  /\ GetForUser(u) \in ids \cap keys /\ owner[GetForUser(u)] = u
             /\ Reached(u)
  <2>1. Own(u)' = Own(u)
    BY <1>0 DEF Own
  <2>2. GetForUser(u)' = GetForUser(u)
    BY <1>0, <2>1, SameIdentity
  <2>. QED  BY <1>0, <1>3, <2>2, GetType, NoneIsNothing DEF ReachInv, Own, TypesOK
<1>4. CASE SetReady(Deferred)
  <2>1. pc'[Deferred] = "list"
    BY <1>4 DEF SetReady, Go, TypesOK
  <2>. QED  BY <2>1 DEF ReachInv, Reached
<1>5. CASE List(Deferred)
  <2>1. todo' = ids
    BY <1>5 DEF List
  <2>. QED  BY <1>0, <1>3, <2>1 DEF ReachInv, Reached
<1>6. CASE NextIdentity(Deferred)
  <2>. DEFINE e == Eldest(todo)
  <2>1. /\ pc[Deferred] = "next" /\ pc'[Deferred] = "init" /\ todo' = todo \ {e}
        /\ user'[Deferred] = owner[e] /\ id'[Deferred] = e
    BY <1>6 DEF NextIdentity, Go, ForUser, At, TypesOK
  <2>. HIDE DEF e
  <2>2. ASSUME NEW i \in todo \cap ids \cap keys
        PROVE  i \in todo' \/ Helps(Deferred, owner[i])'
    BY <1>0, <2>1 DEF Helps
  <2>. QED  BY <1>0, <1>2, <1>3, <2>1, <2>2 DEF ReachInv, Reached
<1>7. CASE Delivering(Deferred)
  <2>1. pc[Deferred] = "next" /\ todo = {}
    BY <1>7 DEF Delivering
  <2>. QED  BY <1>0, <1>2, <1>3, <2>1 DEF ReachInv, Reached
<1>. QED  BY <1>4, <1>5, <1>6, <1>7 DEF SetUp

LEMMA NextReach ==
  ASSUME TypesOK, TypesOK', KnownInv, WhereInv, NewInv, RankInv', ReachInv, Next
  PROVE  ReachInv'
<1>1. ASSUME NEW i \in Identity, CoolsDown(i)
      PROVE  ReachInv'
  BY <1>1 DEF CoolsDown, thread, ReachInv, Reached, Helps, GetForUser, Own, First
<1>2. CASE Restart
  BY <1>2, RunnerThreads DEF Restart, ReachInv, Reached
<1>. QED  BY <1>1, <1>2, ServeReach, RouterReach, SetUpReach, AbortReach DEF Next, Raises

-----------------------------------------------------------------------------
(* The theorems.                                                           *)

LEMMA InitInv == Init => Inv
<1>. SUFFICES ASSUME Init PROVE Inv
  OBVIOUS
<1>1. NewInv
  BY RunnerThreads DEF Init, NewInv
<1>2. ReachInv
  BY RunnerThreads DEF Init, ReachInv, Reached
<1>. QED  BY <1>1, <1>2, InitTypes, InitKnown, InitWhere, InitRank, InitTold DEF Inv

LEMMA NextInv == Inv /\ [Next]_vars => Inv'
<1>1. ASSUME Inv, Next PROVE Inv'
  BY <1>1, NextTypes, NextKnown, NextWhere, NextNew, NextRank, NextTold, NextReach DEF Inv
<1>2. ASSUME Inv, UNCHANGED vars PROVE Inv'
  <2>. USE <1>2 DEF vars, store, data, disk, thread, counts
  <2>1. TypesOK' /\ WhereInv' /\ NewInv'
    BY DEF Inv, TypesOK, WhereInv, Place, NewInv
  <2>2. KnownInv' /\ RankInv'
    BY DEF Inv, KnownInv, RankInv, Entered, Generated
  <2>3. ToldInv'
    BY DEF Inv, ToldInv, Stamping
  <2>4. ReachInv'
    BY DEF Inv, ReachInv, Reached, Helps, GetForUser, Own, First
  <2>. QED  BY <2>1, <2>2, <2>3, <2>4 DEF Inv
<1>. QED  BY <1>1, <1>2

(* Requests, resets, the start of delivery and restarts, in any order and  *)
(* of any number, keep what connects identities, keys, threads and         *)
(* routers.                                                                *)
THEOREM Invariance == Spec => []Inv
BY InitInv, NextInv, PTL DEF Spec

(* The variables keep their types; the order of the identities never runs  *)
(* ahead of how many were generated.                                       *)
THEOREM TypeCorrect == Spec => []TypeOK
<1>1. ASSUME Inv PROVE TypeOK
  <2>1. Entered \in SUBSET Identity
    BY DEF Entered, Generated
  <2>2. Cardinality(Entered) \in 0..MaxIdentity /\ MaxIdentity \in Nat
    BY <2>1, IdentitySets, RoutersAssumption DEF RoutersAssumption
  <2>3. \A i \in Identity : rank[i] \in 0..2 * MaxIdentity
    BY <1>1, <2>2 DEF Inv, TypesOK, RankInv
  <2>4. ASSUME NEW i \in Identity PROVE told[i] \in 0..MaxRequests
    <3>1. /\ told[i] \in Nat /\ requests \in 0..MaxRequests
          /\ told[i] + Cardinality(Stamping(i)) <= requests
      BY <1>1 DEF Inv, TypesOK, ToldInv
    <3>. QED  BY <3>1, StampingType, RoutersAssumption DEF RoutersAssumption
  <2>5. /\ rank \in [Identity -> 0..2 * MaxIdentity]
        /\ told \in [Identity -> 0..MaxRequests]
    BY <1>1, <2>3, <2>4 DEF Inv, TypesOK
  <2>. QED  BY <1>1, <2>5 DEF Inv, TypesOK, TypeOK
<1>. QED  BY <1>1, Invariance, PTL

(* Once delivery is set up, a user whose requests are over and whose key   *)
(* is there has a router, unless since the last look for it one could not  *)
(* be built or an error ended a request of the user or the start of        *)
(* delivery: nobody falls between setup_delivery, setup_user and           *)
(* reset_user_router.                                                      *)
THEOREM AllReachable == Spec => []EveryUserReachable
<1>1. ASSUME Inv PROVE EveryUserReachable
  <2>1. pc[Deferred] = "idle" => todo = {}
    BY <1>1 DEF Inv, WhereInv
  <2>. QED  BY <1>1, <2>1 DEF Inv, ReachInv, Reached, Helps, EveryUserReachable, Busy
<1>. QED  BY <1>1, Invariance, PTL

(* check_cooldown reads and sets in two steps and has no lock, yet it lets *)
(* at most one announce through for each request thread before it cools.   *)
THEOREM FewAnnounces == Spec => []AnnouncesSpaced
<1>1. ASSUME Inv PROVE AnnouncesSpaced
  <2>1. SUFFICES ASSUME NEW i \in Identity PROVE told[i] <= Cardinality(Thread)
    BY DEF AnnouncesSpaced
  <2>2. told[i] \in Nat /\ told[i] + Cardinality(Stamping(i)) <= Cardinality(Thread)
    BY <1>1 DEF Inv, TypesOK, ToldInv
  <2>. QED  BY <2>2, StampingType
<1>. QED  BY <1>1, Invariance, PTL

(* An identity is not in the store before its key is on disk, nor after    *)
(* it was deleted, but when the key could not be written at all, and for   *)
(* what a restart reads (create, delete).                                  *)
THEOREM KeysFirst == Spec => KeyBeforeEntry
<1>1. ASSUME Inv, Next, ~Restart, NEW i \in ids' \ keys'
      PROVE  i \in ids \ keys \/ \E t \in Thread : pc[t] = "insert" /\ id[t] = i
  <2>0. ASSUME NEW t \in Runner, Raises(t)
        PROVE  UNCHANGED <<ids, keys>>
    BY <1>1, <2>0, AbortStep DEF Aborted, data, Inv
  <2>1. ASSUME NEW t \in Thread, Insert(t)
        PROVE  i \in ids \ keys \/ (pc[t] = "insert" /\ id[t] = i)
    BY <1>1, <2>1 DEF Insert
  <2>2. ASSUME NEW t \in Thread, RemoveKey(t)
        PROVE  i \in ids \ keys
    BY <1>1, <2>2, RunnerThreads DEF Inv, WhereInv, Place, RemoveKey
  <2>3. CASE ids' \subseteq ids /\ keys \subseteq keys'
    BY <1>1, <2>3
  <2>4. \/ ids' \subseteq ids /\ keys \subseteq keys'
        \/ \E t \in Thread : Insert(t) \/ RemoveKey(t)
    BY ZenonT(40), <1>1, <2>0, RunnerThreads DEF Raises, Next, Serve, Ensure, Use, Reset, Announce, Request, Scan, Create, Open,
           Write, Delete, Drop, Stamp, Lookup, InitRouter, BuildFails, Put, SetUp,
           SetReady, List, NextIdentity, Delivering, CoolsDown, store, data
  <2>. QED  BY <2>1, <2>2, <2>3, <2>4
<1>2. Inv /\ [Next]_vars =>
        [\A i \in ids' \ keys' :
           \/ i \in ids \ keys \/ Restart
           \/ \E t \in Thread : pc[t] = "insert" /\ id[t] = i]_vars
  BY <1>1
<1>. QED  BY <1>2, Invariance, PTL DEF Spec, KeyBeforeEntry

(* Whatever other identities requests create for a user at the same time,  *)
(* the one get_for_user returns stays the same until it is deleted, or a   *)
(* restart finds several.                                                  *)
THEOREM IdentityStays == Spec => IdentityKept
<1>1. ASSUME Inv, Inv', Next, NEW u \in User, GetForUser(u) # None, GetForUser(u) \in ids',
             GetForUser(u)' # GetForUser(u)
      PROVE  Restart /\ Cardinality(Own(u)') > 1
  <2>. DEFINE g == GetForUser(u)
  <2>1. /\ g \in Own(u) /\ g \in Generated /\ g \in Identity
        /\ \A i \in Own(u) : rank[g] <= rank[i]
    BY <1>1, GetType, KnownOf DEF Inv
  <2>2. TypesOK /\ TypesOK' /\ RankInv'
    BY <1>1 DEF Inv
  <2>. HIDE DEF g
  <2>3. ~ (g \in Own(u)' /\ \A i \in Own(u)' : rank'[g] <= rank'[i])
    <3>1. ASSUME g \in Own(u)', \A i \in Own(u)' : rank'[g] <= rank'[i]
          PROVE  GetForUser(u)' = g
      BY <2>2, <3>1, GetIsLeastThen
    <3>. QED  BY <1>1, <3>1 DEF g
  <2>4. g \in ids' /\ g \in ids /\ owner[g] = u
    BY <1>1, <2>1 DEF Own, g
  <2>5. ASSUME Own(u)' \subseteq Own(u), rank' = rank, owner'[g] = owner[g]
        PROVE  FALSE
    BY <2>1, <2>3, <2>4, <2>5 DEF Own
  <2>6. ASSUME NEW t \in Thread, Create(t)
        PROVE  FALSE
    <3>1. PICK i \in Identity : owner[i] = None /\ owner' = [owner EXCEPT ![i] = user[t]]
      BY <2>6 DEF Create
    <3>2. i \notin ids /\ UNCHANGED <<ids, rank>>
      BY <1>1, <2>6, <3>1 DEF Create, Inv, KnownInv, Generated
    <3>3. Own(u)' = Own(u) /\ owner'[g] = owner[g]
      BY <2>2, <2>4, <3>1, <3>2 DEF Own, TypesOK
    <3>. QED  BY <2>5, <3>2, <3>3
  <2>7. ASSUME NEW t \in Thread, Insert(t)
        PROVE  FALSE
    <3>1. /\ ids' = ids \cup {id[t]} /\ owner' = owner
          /\ rank' = [rank EXCEPT ![id[t]] = LastRank + 1] /\ id[t] \notin ids
      BY <1>1, <2>7 DEF Insert, Inv, NewInv
    <3>2. LastRank \in Nat /\ \A i \in ids : rank[i] <= LastRank
      BY <1>1, LastRankIsLast DEF Inv
    <3>3. /\ \A i \in ids : rank'[i] = rank[i]
          /\ id[t] \in Identity => rank'[id[t]] = LastRank + 1
      BY <2>2, <3>1 DEF TypesOK
    <3>4. ASSUME NEW i \in Own(u)' PROVE rank'[g] <= rank'[i]
      <4>1. CASE i \in ids
        BY <2>1, <2>4, <3>1, <3>3, <4>1 DEF Own
      <4>2. CASE i = id[t]
        <5>1. i \in Identity /\ rank[g] \in Nat
          BY <2>1, <2>2 DEF Own, TypesOK
        <5>. QED  BY <2>4, <3>2, <3>3, <4>2, <5>1
      <4>. QED  BY <3>1, <4>1, <4>2 DEF Own
    <3>. QED  BY <2>3, <2>4, <3>1, <3>4 DEF Own
  <2>8. CASE Restart
    <3>1. g \in Own(u)' /\ owner' = owner
      BY <2>4, <2>8 DEF Restart, Own
    <3>2. PICK i \in Own(u)' : ~(rank'[g] <= rank'[i])
      BY <2>3, <3>1
    <3>3. i # g
      BY <2>1, <2>2, <3>2 DEF TypesOK
    <3>4. Own(u)' \in SUBSET Identity
      BY <2>2 DEF Own, TypesOK
    <3>5. Cardinality(Own(u)') \in Nat /\ IsFiniteSet(Own(u)')
      BY <3>4, IdentitySets
    <3>6. Cardinality({g, i}) <= Cardinality(Own(u)')
      BY <3>1, <3>5, FS_Subset
    <3>7. Cardinality({g, i}) = 2
      <4>1. IsFiniteSet({g}) /\ Cardinality({g}) = 1
        BY FS_Singleton
      <4>2. {g, i} = {g} \cup {i} /\ i \notin {g}
        BY <3>3
      <4>3. Cardinality({g} \cup {i}) = Cardinality({g}) + 1
        BY <4>1, <4>2, FS_AddElement
      <4>. QED  BY <4>1, <4>2, <4>3
    <3>. QED  BY <2>8, <3>5, <3>6, <3>7
  <2>0. ASSUME NEW t \in Runner, Raises(t)
        PROVE  UNCHANGED <<ids, rank, owner>>
    BY <1>1, <2>0, AbortStep DEF Aborted, data, Inv
  <2>9. \/ /\ ids' \subseteq ids /\ rank' = rank /\ owner' = owner
        \/ \E t \in Thread : Create(t) \/ Insert(t)
        \/ Restart
    BY <1>1, <2>0, RunnerThreads DEF Raises, Next, Serve, Ensure, Use, Reset, Announce, Request, Scan, Open, Write,
           Delete, RemoveKey, Drop, Stamp, Lookup, InitRouter, BuildFails, Put, SetUp,
           SetReady, List, NextIdentity, Delivering, CoolsDown, store, data
  <2>10. CASE ids' \subseteq ids /\ rank' = rank /\ owner' = owner
    <3>1. Own(u)' \subseteq Own(u)
      BY <2>10 DEF Own
    <3>. QED  BY <2>5, <2>10, <3>1
  <2>. QED  BY <2>6, <2>7, <2>8, <2>9, <2>10
<1>2. Inv /\ Inv' /\ [Next]_vars =>
        [\A u \in User :
           GetForUser(u) # None /\ GetForUser(u)' # GetForUser(u)
             => \/ GetForUser(u) \notin ids'
                \/ Restart /\ (Cardinality(Own(u)) > 1)']_vars
  BY <1>1
<1>. QED  BY <1>2, Invariance, PTL DEF Spec, IdentityKept
=============================================================================
