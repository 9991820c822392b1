---------------------------- MODULE UserRouters -----------------------------
(***************************************************************************)
(* The LXMF identities of the users (identity_store.py) and the router     *)
(* that messaging.py keeps for each: created at the first request, rebuilt *)
(* at a reset, all set up once Reticulum is ready.                         *)
(*                                                                         *)
(* The identity store has no lock: its requests read, change and save one  *)
(* dict in steps of their own.  Messaging has a lock for the table of      *)
(* routers, but builds a router outside it.  store.yml is rewritten in     *)
(* place by whoever changed something.  Files may fail at any time; the    *)
(* error is not caught and ends the request.  The thread Deferred is the   *)
(* start of delivery, which waits for Reticulum while requests come in.    *)
(*                                                                         *)
(* An identity is a number, the order of its hash, by which yaml.dump      *)
(* sorts them.                                                             *)
(***************************************************************************)
EXTENDS Naturals, FiniteSets

CONSTANTS User, Thread,
          Deferred,     \* the thread that sets delivery up after start
          None,         \* no user, no identity, no router, no content
          MaxIdentity,  \* bound: the key pairs generated
          Stored,       \* those that store.yml may hold at the start
          MaxRequests,  \* bound: requests
          MaxFaults     \* bound: crashes and operations that fail

ASSUME RoutersAssumption ==
    /\ IsFiniteSet(User) /\ IsFiniteSet(Thread)
    /\ Deferred \notin Thread
    /\ None \notin User \cup Nat
    /\ Stored \subseteq 1..MaxIdentity
    /\ MaxIdentity \in Nat /\ MaxRequests \in Nat /\ MaxFaults \in Nat

Identity == 1..MaxIdentity
Runner == Thread \cup {Deferred}

VARIABLES
    ids,      \* the identities in _data
    rank,     \* their order in that dict
    owner,    \* user_sub of each identity; None before it is generated
    created,  \* the order in which they were generated
    keys,     \* the identities with a key file
    cool,     \* those whose announce cooldown is active
    stirred,  \* the threads at a search of _data that has changed its size
    file,     \* store.yml; None if cut short or garbled
    opened,   \* the threads with store.yml open for writing
    mixed,    \* more than one has had it open at the same time
    ready,    \* messaging knows the identity store
    routers,  \* _user_routers: the identity of each user's router
    unbuilt,  \* history: users for whom, since their router was last looked
              \* for, one could not be built or an error ended a request
    pc,       \* what each thread is at
    then,     \* what it goes on with after it has saved
    user, id, \* the user and the identity it is at it for
    todo,     \* the identities delivery has yet to set up
    told,     \* history: announces let through since it last cooled down
    requests, faults     \* counted for the bounds

data == <<ids, rank, owner, created, keys, cool>>
store == <<data, stirred>>
disk == <<file, opened, mixed>>
thread == <<pc, then, user, id, todo>>
counts == <<requests, faults>>
vars == <<store, disk, ready, routers, unbuilt, thread, told, counts>>

Step == {"idle", "scan", "create", "insert", "open", "write", "lookup", "init",
         "build", "put", "delete", "unkey", "drop", "stamp", "start", "list", "next"}

TypeOK ==
    /\ ids \subseteq Identity /\ keys \subseteq Identity /\ cool \subseteq ids
    /\ rank \in [Identity -> 0..2 * MaxIdentity]
    /\ owner \in [Identity -> User \cup {None}]
    /\ created \in [Identity -> 0..2 * MaxIdentity]
    /\ stirred \subseteq Thread
    /\ file \in [ids : SUBSET Identity, cool : SUBSET Identity] \cup {None}
    /\ opened \subseteq Thread /\ mixed \in BOOLEAN /\ ready \in BOOLEAN
    /\ routers \in [User -> Identity \cup {None}]
    /\ unbuilt \subseteq User
    /\ pc \in [Runner -> Step]
    /\ then \in [Runner -> {"lookup", "create", "drop"}]
    /\ user \in [Runner -> User \cup {None}]
    /\ id \in [Runner -> Identity \cup {None}]
    /\ todo \subseteq Identity
    /\ told \in [Identity -> 0..MaxRequests]
    /\ requests \in 0..MaxRequests /\ faults \in 0..MaxFaults

Own(u) == {i \in ids : owner[i] = u}
First(S) == CHOOSE i \in S : \A j \in S : rank[i] <= rank[j]
Eldest(S) == CHOOSE i \in S : \A j \in S : created[i] <= created[j]

(* get_for_user: the first in the order of the dict. *)
NewestForUser(u) ==
    IF Own(u) = {} THEN None ELSE CHOOSE i \in Own(u) : \A j \in Own(u) : rank[j] <= rank[i]
GetForUser(u) == IF Own(u) = {} THEN None ELSE First(Own(u))

Init ==
    /\ ids \in SUBSET Stored /\ keys = ids /\ cool = {} /\ stirred = {}
    /\ rank = [i \in Identity |-> IF i \in ids THEN i ELSE 0]
    /\ created = rank
    /\ owner \in {o \in [Identity -> User \cup {None}] :
                   \A i \in Identity : o[i] # None <=> i \in ids}
    /\ file = [ids |-> ids, cool |-> {}] /\ opened = {} /\ mixed = FALSE
    /\ ready = FALSE
    /\ routers = [u \in User |-> None] /\ unbuilt = {}
    /\ pc = [t \in Runner |-> IF t = Deferred THEN "start" ELSE "idle"]
    /\ then = [t \in Runner |-> "lookup"]
    /\ user = [t \in Runner |-> None]
    /\ id = [t \in Runner |-> None]
    /\ todo = {}
    /\ told = [i \in Identity |-> 0]
    /\ requests = 0 /\ faults = 0

Go(t, p) == pc' = [pc EXCEPT ![t] = p]
ForUser(t, u) == user' = [user EXCEPT ![t] = u]
At(t, i) == id' = [id EXCEPT ![t] = i]
Then(t, p) == then' = [then EXCEPT ![t] = p]

(* The end of a request, or of delivery's work on one identity. *)
Finish(t) ==
    /\ Go(t, IF t = Deferred THEN "next" ELSE "idle")
    /\ ForUser(t, None) /\ At(t, None) /\ Then(t, "lookup")

Fault == faults < MaxFaults /\ faults' = faults + 1

(* An exception that nothing catches ends the request, or delivery.        *)
Abort(t) ==
    /\ Fault
    /\ unbuilt' = unbuilt \cup {user[t]}
                    \cup (IF t = Deferred THEN {owner[i] : i \in todo} ELSE {})
    /\ todo' = IF t = Deferred THEN {} ELSE todo
    /\ Go(t, "idle") /\ ForUser(t, None) /\ At(t, None) /\ Then(t, "lookup")

Request(t, p, u, i) ==
    /\ pc[t] = "idle" /\ requests < MaxRequests
    /\ requests' = requests + 1
    /\ Go(t, p) /\ ForUser(t, u) /\ At(t, i)
    /\ UNCHANGED <<store, disk, ready, routers, unbuilt, then, todo, told, faults>>

-----------------------------------------------------------------------------
(* _save: store.yml is truncated, then written with what the dict holds by *)
(* then.  Threads that have it open together may write over each other.    *)

Open(t) ==
    /\ pc[t] = "open"
    /\ file' = None
    /\ opened' = opened \cup {t}
    /\ mixed' = (opened # {})
    /\ Go(t, "write")
    /\ UNCHANGED <<store, ready, routers, unbuilt, then, user, id, todo, told, counts>>

Write(t) ==
    /\ pc[t] = "write"
    /\ \E content \in {[ids |-> ids, cool |-> cool]} \cup (IF mixed THEN {None} ELSE {}) :
         file' = content
    /\ opened' = opened \ {t}
    /\ mixed' = (mixed /\ opened' # {})
    /\ Go(t, then[t])
    /\ Then(t, IF then[t] = "create" THEN "drop" ELSE then[t])
    /\ UNCHANGED <<store, ready, routers, unbuilt, user, id, todo, told, counts>>

(* What yaml.dump had written by then stays in the file.                   *)
WriteFails(t) ==
    /\ pc[t] = "write"
    /\ file' = None
    /\ opened' = opened \ {t}
    /\ mixed' = (mixed /\ opened' # {})
    /\ Abort(t)
    /\ UNCHANGED <<store, ready, routers, told, requests>>

(* A key or store.yml cannot be opened, or a key not be removed.           *)
FileRaises(t) ==
    /\ pc[t] \in {"create", "unkey", "open"}
    /\ Abort(t)
    /\ UNCHANGED <<store, disk, ready, routers, told, requests>>

-----------------------------------------------------------------------------
(* Identities.                                                             *)

(* Logins and /api/my-identity call ensure_for_user, then look for the     *)
(* router; sending a message and lxmf_address only look for the router.    *)
Ensure(t, u) == Request(t, "scan", u, None)
Use(t, u) == Request(t, "lookup", u, None)

(* Iterating a dict whose size another thread changes meanwhile raises.    *)
Stir == stirred' = stirred \cup {x \in Thread : pc[x] \in {"scan", "lookup"}}
Settled(t) == stirred' = stirred \ {t}

Scan(t) ==
    /\ pc[t] = "scan"
    /\ Go(t, IF GetForUser(user[t]) = None THEN "create" ELSE "lookup")
    /\ Settled(t)
    /\ UNCHANGED <<data, disk, ready, routers, unbuilt, then, user, id, todo,
                   told, counts>>

SearchRaises(t) ==
    /\ t \in stirred
    /\ \/ pc[t] = "scan"
       \/ pc[t] = "lookup" /\ routers[user[t]] = None /\ ready
    /\ Abort(t) /\ Settled(t)
    /\ UNCHANGED <<data, disk, ready, routers, told, requests>>

(* A new key pair goes to its file, then into the dict, then into          *)
(* store.yml; create does not look whether to_file wrote it.               *)
Create(t) ==
    /\ pc[t] = "create"
    /\ \E i \in Identity :
         /\ owner[i] = None
         /\ owner' = [owner EXCEPT ![i] = user[t]]
         /\ created' = [created EXCEPT ![i] =
                          MaxIdentity + Cardinality({j \in Identity : owner[j] # None})]
         /\ \/ keys' = keys \cup {i} /\ UNCHANGED faults
            \/ keys' = keys /\ Fault
         /\ At(t, i)
    /\ Go(t, "insert")
    /\ UNCHANGED <<ids, rank, cool, stirred, disk, ready, routers, unbuilt, then, user,
                   todo, told, requests>>

LastRank == IF ids = {} THEN 0 ELSE CHOOSE r \in {rank[i] : i \in ids} :
                                      \A i \in ids : rank[i] <= r

Insert(t) ==
    /\ pc[t] = "insert"
    /\ ids' = ids \cup {id[t]}
    /\ rank' = [rank EXCEPT ![id[t]] = LastRank + 1]
    /\ Stir
    /\ Go(t, "open")
    /\ UNCHANGED <<owner, created, keys, cool, disk, ready, routers, unbuilt, then,
                   user, id,
                   todo, told, counts>>

(* identity_reset: delete the identity, create another for its user, drop  *)
(* the router, set the user up again.                                      *)
Reset(t, i) == i \in ids /\ Request(t, "delete", owner[i], i)

(* The other may have been deleted by another reset; create follows anyway. *)
DeleteKeyFirst(t) ==
    /\ pc[t] = "delete"
    /\ keys' = keys \ {id[t]}
    /\ IF id[t] \in keys
         THEN UNCHANGED <<ids, cool, stirred, pc, then>>
         ELSE /\ ids' = ids \ {id[t]} /\ cool' = cool \ {id[t]} /\ Stir
              /\ Go(t, "open") /\ Then(t, "create")
    /\ UNCHANGED <<rank, owner, created, disk, ready, routers, unbuilt, user, id,
                   todo, told, counts>>
Delete(t) ==
    /\ pc[t] = "delete"
    /\ ids' = ids \ {id[t]} /\ cool' = cool \ {id[t]}
    /\ IF id[t] \in ids THEN Stir /\ Go(t, "unkey") /\ UNCHANGED then
       ELSE Go(t, "create") /\ Then(t, "drop") /\ UNCHANGED stirred
    /\ UNCHANGED <<rank, owner, created, keys, disk, ready, routers, unbuilt, user,
                   id, todo, told, counts>>

RemoveKey(t) ==
    /\ pc[t] = "unkey"
    /\ keys' = keys \ {id[t]}
    /\ Go(t, "open") /\ Then(t, "create")
    /\ UNCHANGED <<ids, rank, owner, created, cool, stirred, disk, ready, routers, unbuilt,
                   user, id, todo, told, counts>>

(* check_cooldown reads the time of the last announce and sets it in a     *)
(* step of its own; the announce goes out by the router of the user who    *)
(* asks, whosever identity it is.                                          *)
Announce(t, u, i) == i \in ids \ cool /\ Request(t, "stamp", u, i)

StampDeleted(t) ==
    /\ pc[t] = "stamp"
    /\ cool' = cool \cup {id[t]}
    /\ told' = [told EXCEPT ![id[t]] = @ + 1]
    /\ Go(t, "open")
    /\ UNCHANGED <<ids, rank, owner, created, keys, stirred, disk, ready, routers, unbuilt, then,
                   user, id, todo, counts>>
StampLater(t) ==
    /\ pc[t] = "stamp"
    /\ told' = [told EXCEPT ![id[t]] = @ + 1]
    /\ Go(t, "open")
    /\ UNCHANGED <<store, disk, ready, routers, unbuilt, then, user, id, todo, counts>>
Stamp(t) ==
    /\ pc[t] = "stamp"
    /\ cool' = cool \cup ({id[t]} \cap ids)
    /\ told' = [told EXCEPT ![id[t]] = @ + 1]
    /\ Go(t, "open")
    /\ UNCHANGED <<ids, rank, owner, created, keys, stirred, disk, ready, routers, unbuilt,
                   then, user, id, todo, counts>>

CoolsDown(i) ==
    /\ i \in cool
    /\ cool' = cool \ {i}
    /\ told' = [told EXCEPT ![i] = 0]
    /\ UNCHANGED <<ids, rank, owner, created, keys, stirred, disk, ready, routers, unbuilt,
                   thread, counts>>

-----------------------------------------------------------------------------
(* Routers.                                                                *)

(* _get_user_router. *)
Lookup(t) ==
    /\ pc[t] = "lookup"
    /\ IF routers[user[t]] # None \/ ~ready \/ GetForUser(user[t]) = None
         THEN Finish(t)
         ELSE At(t, GetForUser(user[t])) /\ Go(t, "init") /\ UNCHANGED <<then, user>>
    /\ unbuilt' = unbuilt \ {user[t]}
    /\ Settled(t)
    /\ UNCHANGED <<data, disk, ready, routers, todo, told, counts>>

(* _init_user_router: the check under the lock, and the key file. *)
InitRouter(t) ==
    /\ pc[t] = "init"
    /\ IF routers[user[t]] # None \/ id[t] \notin ids \cap keys
         THEN Finish(t)
         ELSE Go(t, "build") /\ UNCHANGED <<then, user, id>>
    /\ UNCHANGED <<store, disk, ready, routers, unbuilt, todo, told, counts>>

(* The directory of the router cannot be made: outside the try.            *)
InitRaises(t) ==
    /\ pc[t] = "init" /\ routers[user[t]] = None /\ id[t] \in ids \cap keys
    /\ Abort(t)
    /\ UNCHANGED <<store, disk, ready, routers, told, requests>>

BuildFails(t) ==
    /\ pc[t] = "build"
    /\ Fault
    /\ unbuilt' = unbuilt \cup {user[t]}
    /\ Finish(t)
    /\ UNCHANGED <<store, disk, ready, routers, todo, told, requests>>

(* The router is built outside the lock and inserted under it, whatever    *)
(* the table has by then.                                                  *)
Put(t) ==
    /\ pc[t] = "build"
    /\ routers' = [routers EXCEPT ![user[t]] = id[t]]
    /\ unbuilt' = unbuilt \ {user[t]}
    /\ Finish(t)
    /\ UNCHANGED <<store, disk, ready, todo, told, counts>>

(* reset_user_router, then setup_user. *)
Drop(t) ==
    /\ pc[t] = "drop"
    /\ routers' = [routers EXCEPT ![user[t]] = None]
    /\ Go(t, "lookup") /\ Then(t, "lookup") /\ At(t, None)
    /\ UNCHANGED <<store, disk, ready, unbuilt, user, todo, told, counts>>

(* setup_delivery: from here on messaging knows the store; then every      *)
(* identity listed at that moment gets its router.                         *)
SetReady(t) ==
    /\ pc[t] = "start"
    /\ ready' = TRUE
    /\ Go(t, "list")
    /\ UNCHANGED <<store, disk, routers, unbuilt, then, user, id, todo, told, counts>>

List(t) ==
    /\ pc[t] = "list"
    /\ todo' = ids
    /\ Go(t, "next")
    /\ UNCHANGED <<store, disk, ready, routers, unbuilt, then, user, id, told, counts>>

NextIdentity(t) ==
    /\ pc[t] = "next" /\ todo # {}
    /\ todo' = todo \ {Eldest(todo)}
    /\ ForUser(t, owner[Eldest(todo)]) /\ At(t, Eldest(todo))
    /\ Go(t, "init")
    /\ UNCHANGED <<store, disk, ready, routers, unbuilt, then, told, counts>>

Delivering(t) ==
    /\ pc[t] = "next" /\ todo = {}
    /\ Go(t, "idle")
    /\ UNCHANGED <<store, disk, ready, routers, unbuilt, then, user, id, todo,
                   told, counts>>

(* _load.  What a file cut short or garbled holds is some of the identities. *)
Loaded ==
    IF file # None THEN {file} ELSE {[ids |-> S, cool |-> cool \cap S] : S \in SUBSET ids}

Restart ==
    /\ Fault
    /\ \E f \in Loaded :
         /\ ids' = f.ids /\ cool' = f.cool /\ file' = f
         /\ told' = [i \in Identity |-> IF i \in f.cool THEN told[i] ELSE 0]
    /\ rank' = [i \in Identity |-> IF i \in ids' THEN i ELSE 0]
    /\ stirred' = {} /\ opened' = {} /\ mixed' = FALSE
    /\ ready' = FALSE
    /\ routers' = [u \in User |-> None] /\ unbuilt' = {}
    /\ pc' = [t \in Runner |-> IF t = Deferred THEN "start" ELSE "idle"]
    /\ then' = [t \in Runner |-> "lookup"]
    /\ user' = [t \in Runner |-> None]
    /\ id' = [t \in Runner |-> None]
    /\ todo' = {}
    /\ UNCHANGED <<owner, created, keys, requests>>

Serve(t) ==
    \/ \E u \in User : Ensure(t, u) \/ Use(t, u)
    \/ \E i \in Identity : Reset(t, i) \/ (\E u \in User : Announce(t, u, i))
    \/ Scan(t) \/ Create(t) \/ Insert(t) \/ Open(t) \/ Write(t)
    \/ Delete(t) \/ RemoveKey(t) \/ Drop(t) \/ Stamp(t)
    \/ WriteFails(t) \/ FileRaises(t) \/ SearchRaises(t)

SetUpListFirst(t) ==
    \/ /\ pc[t] = "start"
       /\ todo' = ids
       /\ Go(t, "list")
       /\ UNCHANGED <<store, disk, ready, routers, unbuilt, then, user, id, told,
                      counts>>
    \/ /\ pc[t] = "list"
       /\ ready' = TRUE
       /\ Go(t, "next")
       /\ UNCHANGED <<store, disk, routers, unbuilt, then, user, id, todo, told,
                      counts>>
    \/ NextIdentity(t) \/ Delivering(t)
SetUp(t) == SetReady(t) \/ List(t) \/ NextIdentity(t) \/ Delivering(t)

Next ==
    \/ \E t \in Thread : Serve(t)
    \/ SetUp(Deferred)
    \/ \E t \in Runner : Lookup(t) \/ InitRouter(t) \/ InitRaises(t) \/ BuildFails(t) \/ Put(t)
    \/ \E i \in Identity : CoolsDown(i)
    \/ Restart

Spec == Init /\ [][Next]_vars

-----------------------------------------------------------------------------
(* Properties.                                                             *)

Busy(u) == \E t \in Runner : user[t] = u

(* Once delivery is set up and no request of a user is under way, a user   *)
(* with an identity and its key has a router, unless since the last look   *)
(* for it one could not be built or an error ended a request of the user   *)
(* or the start of delivery: nobody falls between the start of delivery    *)
(* and a login, and a reset does not leave its user without one            *)
(* (setup_delivery, setup_user, __init__.py:96).                           *)
EveryUserReachable ==
    \A u \in User :
        pc[Deferred] = "idle" /\ ~Busy(u) /\ GetForUser(u) \in keys
          => routers[u] # None \/ u \in unbuilt

(* Although two requests may create two identities for one user, the one   *)
(* the user goes by stays the same until it is reset, and otherwise only a *)
(* restart, which sorts them anew, can change it: get_for_user.            *)
IdentityKept ==
    [][\A u \in User :
         GetForUser(u) # None /\ GetForUser(u)' # GetForUser(u)
           => \/ GetForUser(u) \notin ids'
              \/ Restart /\ (Cardinality(Own(u)) > 1)']_vars

(* An identity in the store has its key file, whatever requests and resets *)
(* overlap and fail, except when the key could not be written before it    *)
(* was inserted, or a restart read it from a file that a reset had not     *)
(* rewritten yet: create, delete.                                          *)
KeyBeforeEntry ==
    [][\A i \in ids' \ keys' :
         \/ i \in ids \ keys \/ Restart
         \/ \E t \in Thread : pc[t] = "insert" /\ id[t] = i]_vars

(* The cooldown, though checked and set in two steps, lets at most one     *)
(* announce through for each request thread: check_cooldown.               *)
AnnouncesSpaced == \A i \in Identity : told[i] <= Cardinality(Thread)

(* reset_user_router's docstring: the router is rebuilt so that the new    *)
(* key pair takes effect immediately.                                      *)
ResetTakesEffect ==
    \A u \in User : ~Busy(u) /\ routers[u] # None => routers[u] \in ids
=============================================================================
