-------------------------- MODULE PropagationSync ---------------------------
(***************************************************************************)
(* The propagation sync of lxmf_sync.py: a thread that at every tick picks *)
(* a propagation node, if it has to, and has each user's router sync with  *)
(* it, so that the portal stays reachable.  Announces of propagation nodes *)
(* come in, and routers come and go (UserRouters), while it ticks.         *)
(*                                                                         *)
(* What is known of a node is its hops and how long ago it announced, in   *)
(* units of which it stays fresh for FreshFor.  A count of failures stops  *)
(* at RepickAfter, beyond which the code makes no difference.              *)
(***************************************************************************)
EXTENDS Naturals

CONSTANTS Node, User, Hops,
          RepickAfter,  \* CONSECUTIVE_FAILURES_BEFORE_REPICK
          FreshFor,     \* NODE_FRESHNESS_S
          None          \* no announce heard, nothing picked

ASSUME PropagationAssumption ==
    /\ Hops \subseteq Nat
    /\ RepickAfter \in Nat \ {0} /\ FreshFor \in Nat
    /\ None \notin Node \cup Nat

VARIABLES
    age,       \* time since the last announce of each node
    hops,      \* its hops when it announced
    picked,    \* _picked
    failures,  \* consecutive_failures of each user
    routers,   \* the users with a router
    pc,        \* what the thread is at
    todo,      \* routers still to sync in this tick
    against,   \* history: consecutive failures against the present pick
    cause,     \* history: the tick began with the present pick stale or failing
    after      \* history: syncs of a router since it was dropped

known == <<age, hops>>
loop == <<picked, failures, pc, todo, against, cause>>
vars == <<known, loop, routers, after>>

Stale == FreshFor + 1
Fresh == {n \in Node : age[n] # None /\ age[n] <= FreshFor}

TypeOK ==
    /\ age \in [Node -> 0..Stale \cup {None}]
    /\ hops \in [Node -> Hops \cup {None}]
    /\ picked \in Node \cup {None}
    /\ failures \in [User -> 0..RepickAfter]
    /\ routers \subseteq User
    /\ pc \in {"off", "wait", "pick", "list", "sync"}
    /\ todo \subseteq User /\ (todo # {} => pc = "sync")
    /\ against \in [User -> 0..RepickAfter]
    /\ after \in [User -> 0..2] /\ cause \in BOOLEAN
    /\ \A n \in Node : age[n] = None <=> hops[n] = None
    /\ picked # None => age[picked] # None
    /\ pc = "sync" => picked # None

Init ==
    /\ age = [n \in Node |-> None] /\ hops = [n \in Node |-> None]
    /\ picked = None
    /\ failures = [u \in User |-> 0] /\ against = [u \in User |-> 0]
    /\ routers = {} /\ after = [u \in User |-> 0]
    /\ pc = "off" /\ todo = {} /\ cause = FALSE

(* start: registers for announces and starts the thread, once. *)
Start ==
    /\ pc = "off"
    /\ pc' = "wait"
    /\ UNCHANGED <<known, picked, failures, todo, against, cause, routers, after>>

(* _on_propagation_announce. *)
Announce(n, h) ==
    /\ pc # "off"
    /\ age' = [age EXCEPT ![n] = 0]
    /\ hops' = [hops EXCEPT ![n] = h]
    /\ UNCHANGED <<loop, routers, after>>

TimePasses ==
    /\ \E n \in Fresh : TRUE
    /\ age' = [n \in Node |-> IF n \in Fresh THEN age[n] + 1 ELSE age[n]]
    /\ UNCHANGED <<hops, loop, routers, after>>

RouterUp(u) ==
    /\ u \notin routers
    /\ routers' = routers \cup {u}
    /\ after' = [after EXCEPT ![u] = 0]
    /\ UNCHANGED <<known, loop>>

RouterDropped(u) ==
    /\ u \in routers
    /\ routers' = routers \ {u}
    /\ UNCHANGED <<known, loop, after>>

-----------------------------------------------------------------------------
(* One tick.                                                               *)

PickedIsStale == picked \notin Fresh

(* Users who have no router any more count, too. *)
TooManyFailures == \E u \in User : failures[u] = RepickAfter

Tick ==
    /\ pc = "wait"
    /\ pc' = IF picked = None \/ PickedIsStale \/ TooManyFailures THEN "pick" ELSE "list"
    /\ cause' = (PickedIsStale \/ \E u \in User : against[u] = RepickAfter)
    /\ UNCHANGED <<known, picked, failures, todo, against, routers, after>>

(* _pick_best_node: the fewest hops, then the latest announce. *)
Better(m, n) == hops[m] < hops[n] \/ (hops[m] = hops[n] /\ age[m] < age[n])
Best == {n \in Fresh : \A m \in Fresh : ~Better(m, n)}

(* A stale pick stays when no node is fresh. *)
KeepPick ==
    /\ pc = "pick" /\ (Fresh = {} \/ picked \in Best)
    /\ pc' = "list"
    /\ UNCHANGED <<known, picked, failures, todo, against, cause, routers, after>>

SwitchKeepingFailures ==
    /\ pc = "pick"
    /\ \E n \in Best \ {picked} : picked' = n
    /\ against' = [u \in User |-> 0]
    /\ pc' = "list"
    /\ UNCHANGED <<known, failures, todo, cause, routers, after>>
Switch ==
    /\ pc = "pick"
    /\ \E n \in Best \ {picked} : picked' = n
    /\ failures' = [u \in User |-> 0]
    /\ against' = [u \in User |-> 0]
    /\ pc' = "list"
    /\ UNCHANGED <<known, todo, cause, routers, after>>

(* The routers as active_routers finds them now. *)
ListUnpicked ==
    /\ pc = "list"
    /\ pc' = "sync" /\ todo' = routers
    /\ UNCHANGED <<known, picked, failures, against, cause, routers, after>>
ListEveryone ==
    /\ pc = "list"
    /\ IF picked = None THEN pc' = "wait" /\ UNCHANGED todo
                        ELSE pc' = "sync" /\ todo' = User
    /\ UNCHANGED <<known, picked, failures, against, cause, routers, after>>
ListRouters ==
    /\ pc = "list"
    /\ IF picked = None THEN pc' = "wait" /\ UNCHANGED todo
                        ELSE pc' = "sync" /\ todo' = routers
    /\ UNCHANGED <<known, picked, failures, against, cause, routers, after>>

Synced(u) ==
    /\ pc = "sync" /\ u \in todo
    /\ todo' = todo \ {u}
    /\ after' = IF u \in routers THEN after ELSE [after EXCEPT ![u] = @ + 1]
    /\ UNCHANGED <<known, picked, pc, cause, routers>>

CountTo(f) == IF f < RepickAfter THEN f + 1 ELSE f

SyncSucceeds(u) ==
    /\ Synced(u)
    /\ failures' = [failures EXCEPT ![u] = 0]
    /\ against' = [against EXCEPT ![u] = 0]

(* The router raises; the others have their turn all the same. *)
FailureEndsTick(u) ==
    /\ pc = "sync" /\ u \in todo
    /\ todo' = {}
    /\ failures' = [failures EXCEPT ![u] = CountTo(@)]
    /\ against' = [against EXCEPT ![u] = CountTo(@)]
    /\ UNCHANGED <<known, picked, pc, cause, routers, after>>
SyncFails(u) ==
    /\ Synced(u)
    /\ failures' = [failures EXCEPT ![u] = CountTo(@)]
    /\ against' = [against EXCEPT ![u] = CountTo(@)]

TickEnds ==
    /\ pc = "sync" /\ todo = {}
    /\ pc' = "wait"
    /\ UNCHANGED <<known, picked, failures, todo, against, cause, routers, after>>

Sync(u) == SyncSucceeds(u) \/ SyncFails(u)

SyncLoop ==
    \/ Tick \/ KeepPick \/ Switch \/ ListRouters \/ TickEnds
    \/ \E u \in User : Sync(u)

Next ==
    \/ Start
    \/ \E n \in Node, h \in Hops : Announce(n, h)
    \/ TimePasses
    \/ \E u \in User : RouterUp(u) \/ RouterDropped(u)
    \/ SyncLoop

(* The loop outlives every exception, and start is called once Reticulum   *)
(* is ready.  Announces, logins and resets need not happen.                *)
Spec == Init /\ [][Next]_vars /\ WF_vars(Start) /\ WF_vars(SyncLoop)

-----------------------------------------------------------------------------
(* Properties.                                                             *)

(* A node is left only if at the start of the tick it was stale, or        *)
(* RepickAfter syncs in a row of one user had failed with this very node:  *)
(* the failures of the one before it do not count.  This is what _tick and *)
(* the module's docstring (lines 25-27) say; the docstring of              *)
(* _on_propagation_announce (lines 201-203) speaks of a re-pick for a      *)
(* better candidate, which _tick does not make: README 7.                  *)
SwitchedWithCause ==
    [][picked' # picked /\ picked # None => cause]_vars

(* A router that has been dropped is synced at most once more, as          *)
(* active_routers says.                                                    *)
OnceMore == \A u \in User : after[u] <= 1

(* While a node is fresh, a user with a router is synced again and again,  *)
(* whatever the routers of others do (_tick, _sync_one).                   *)
KeptWarm ==
    \A u \in User :
      <>[](u \in routers /\ Fresh # {}) => []<><<Sync(u)>>_vars

=============================================================================
