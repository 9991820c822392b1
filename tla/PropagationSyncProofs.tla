----------------------- MODULE PropagationSyncProofs ------------------------
(***************************************************************************)
(* Theorems about PropagationSync, for any nodes, users, hops and any      *)
(* value of the two thresholds.                                            *)
(***************************************************************************)
EXTENDS PropagationSync, TLAPS

-----------------------------------------------------------------------------
(* The invariant.                                                          *)

(* The counters the code decides by are those of the present pick: a       *)
(* switch resets them for every user, with a router or without one.        *)
CountersInv == failures = against

(* While the loop is choosing, it is so with a cause, or for the first     *)
(* time.                                                                   *)
CauseInv == pc = "pick" => picked = None \/ cause

(* A user whose router is there, or is still in the copy of this tick, has *)
(* had no sync since the router was dropped.                               *)
DroppedInv == \A u \in User : u \in routers \cup todo => after[u] = 0

Inv == TypeOK /\ CountersInv /\ CauseInv /\ DroppedInv /\ OnceMore

-----------------------------------------------------------------------------
LEMMA InitInv == Init => Inv
<1>. SUFFICES ASSUME Init PROVE Inv
  OBVIOUS
<1>. USE PropagationAssumption DEF PropagationAssumption, Init
<1>1. TypeOK
  <2>1. cause \in BOOLEAN
    OBVIOUS
  <2>2. RepickAfter \in Nat
    OBVIOUS
  <2>. QED  BY <2>1, <2>2 DEF TypeOK, Stale
<1>2. CountersInv /\ CauseInv /\ DroppedInv /\ OnceMore
  BY DEF CountersInv, CauseInv, DroppedInv, OnceMore
<1>. QED  BY <1>1, <1>2 DEF Inv

(* Announces, time and routers come and go beside the loop.                *)
LEMMA OutsideKeepsInv ==
  ASSUME Inv,
         \/ \E n \in Node, h \in Hops : Announce(n, h)
         \/ TimePasses
         \/ \E u \in User : RouterUp(u) \/ RouterDropped(u)
  PROVE  Inv'
<1>. USE PropagationAssumption DEF PropagationAssumption, Inv
<1>1. ASSUME NEW n \in Node, NEW h \in Hops, Announce(n, h)
      PROVE  Inv'
  <2>1. TypeOK'
    BY <1>1 DEF TypeOK, Announce, loop, Stale
  <2>. QED
    BY <1>1, <2>1 DEF Announce, loop, CountersInv, CauseInv, DroppedInv, OnceMore
<1>2. CASE TimePasses
  <2>1. TypeOK'
    BY <1>2 DEF TypeOK, TimePasses, loop, Stale, Fresh
  <2>. QED
    BY <1>2, <2>1 DEF TimePasses, loop, CountersInv, CauseInv, DroppedInv, OnceMore
<1>3. ASSUME NEW u \in User, RouterUp(u)
      PROVE  Inv'
  <2>1. TypeOK'
    BY <1>3 DEF TypeOK, RouterUp, loop, known, Stale
  <2>. QED
    BY <1>3, <2>1
       DEF RouterUp, loop, known, CountersInv, CauseInv, DroppedInv, OnceMore, TypeOK
<1>4. ASSUME NEW u \in User, RouterDropped(u)
      PROVE  Inv'
  <2>1. TypeOK'
    BY <1>4 DEF TypeOK, RouterDropped, loop, known, Stale
  <2>. QED
    BY <1>4, <2>1
       DEF RouterDropped, loop, known, CountersInv, CauseInv, DroppedInv, OnceMore
<1>. QED  BY <1>1, <1>2, <1>3, <1>4

(* The choice of the node: the steps of a tick before the routers.         *)
LEMMA ChoiceKeepsInv ==
  ASSUME Inv, Start \/ Tick \/ KeepPick \/ Switch \/ ListRouters \/ TickEnds
  PROVE  Inv'
<1>. USE PropagationAssumption DEF PropagationAssumption, Inv
<1>1. CASE Start
  BY <1>1 DEF Start, known, TypeOK, Stale, CountersInv, CauseInv, DroppedInv, OnceMore
<1>2. CASE Tick
  <2>1. TypeOK'
    BY <1>2 DEF TypeOK, Tick, known, Stale
  <2>2. CauseInv'
    BY <1>2 DEF Tick, CauseInv, CountersInv, TooManyFailures, PickedIsStale
  <2>. QED
    BY <1>2, <2>1, <2>2 DEF Tick, CountersInv, DroppedInv, OnceMore
<1>3. CASE KeepPick
  BY <1>3 DEF KeepPick, known, TypeOK, Stale, CountersInv, CauseInv, DroppedInv,
              OnceMore
<1>4. CASE Switch
  <2>1. picked' \in Node /\ age[picked'] # None
    BY <1>4 DEF Switch, Best, Fresh
  <2>2. TypeOK'
    BY <1>4, <2>1 DEF TypeOK, Switch, known, Stale
  <2>. QED
    BY <1>4, <2>2 DEF Switch, CountersInv, CauseInv, DroppedInv, OnceMore
<1>5. CASE ListRouters
  <2>1. TypeOK'
    BY <1>5 DEF TypeOK, ListRouters, known, Stale
  <2>2. DroppedInv'
    BY <1>5 DEF ListRouters, DroppedInv
  <2>. QED
    BY <1>5, <2>1, <2>2 DEF ListRouters, CountersInv, CauseInv, OnceMore
<1>6. CASE TickEnds
  BY <1>6 DEF TickEnds, known, TypeOK, Stale, CountersInv, CauseInv, DroppedInv,
              OnceMore
<1>. QED  BY <1>1, <1>2, <1>3, <1>4, <1>5, <1>6

LEMMA CountToType ==
  ASSUME NEW f \in 0..RepickAfter
  PROVE  CountTo(f) \in 0..RepickAfter
BY PropagationAssumption DEF PropagationAssumption, CountTo

(* One router's turn, whether LXMF takes the request or raises.            *)
LEMMA SyncKeepsInv ==
  ASSUME Inv, NEW u \in User, Sync(u)
  PROVE  Inv'
<1>. USE PropagationAssumption DEF PropagationAssumption, Inv
<1>1. Synced(u)
  BY DEF Sync, SyncSucceeds, SyncFails
<1>2. failures' = against' /\ failures' \in [User -> 0..RepickAfter]
  <2>1. CASE SyncSucceeds(u)
    BY <2>1 DEF SyncSucceeds, CountersInv, TypeOK
  <2>2. CASE SyncFails(u)
    BY <2>2, CountToType DEF SyncFails, CountersInv, TypeOK
  <2>. QED  BY <2>1, <2>2 DEF Sync
<1>3. after' \in [User -> 0..2]
  BY <1>1 DEF Synced, DroppedInv, TypeOK
<1>4. DroppedInv' /\ OnceMore'
  BY <1>1 DEF Synced, DroppedInv, OnceMore, TypeOK
<1>5. TypeOK'
  BY <1>1, <1>2, <1>3 DEF TypeOK, Synced, known, Stale
<1>. QED  BY <1>1, <1>2, <1>4, <1>5 DEF CountersInv, CauseInv, Synced

LEMMA NextKeepsInv == Inv /\ [Next]_vars => Inv'
<1>. SUFFICES ASSUME Inv, [Next]_vars PROVE Inv'
  OBVIOUS
<1>1. CASE UNCHANGED vars
  BY <1>1 DEF vars, known, loop, Inv, TypeOK, Stale, CountersInv, CauseInv,
              DroppedInv, OnceMore
<1>2. CASE Next
  BY <1>2, OutsideKeepsInv, ChoiceKeepsInv, SyncKeepsInv DEF Next, SyncLoop
<1>. QED  BY <1>1, <1>2

(* The invariant holds at every moment of the sync loop (lxmf_sync.py).    *)
THEOREM Invariance == Spec => []Inv
BY InitInv, NextKeepsInv, PTL DEF Spec

-----------------------------------------------------------------------------
(* Ages, hops, counters and the copy of the routers keep their types, and  *)
(* nothing is synced before a node is picked (_tick).                      *)
THEOREM TypeCorrect == Spec => []TypeOK
<1>1. Inv => TypeOK
  BY DEF Inv
<1>. QED  BY <1>1, Invariance, PTL

(* However resets, logins and ticks overlap, a dropped router is synced at *)
(* most once more (active_routers).                                        *)
THEOREM DroppedOnceMore == Spec => []OnceMore
<1>1. Inv => OnceMore
  BY DEF Inv
<1>. QED  BY <1>1, Invariance, PTL

(* A propagation node is left only when it was stale, or had failed        *)
(* RepickAfter times in a row for one user, as the tick began (_tick).     *)
THEOREM LeftWithCause == Spec => SwitchedWithCause
<1>1. Inv /\ [Next]_vars => [picked' # picked /\ picked # None => cause]_vars
  <2>. SUFFICES ASSUME Inv, Next, picked' # picked, picked # None
                PROVE  cause
    BY DEF vars
  <2>1. Switch
    BY DEF Next, SyncLoop, Start, Announce, TimePasses, RouterUp, RouterDropped, Tick,
           KeepPick, ListRouters, TickEnds, Sync, SyncSucceeds, SyncFails, Synced, loop
  <2>. QED  BY <2>1 DEF Switch, Inv, CauseInv
<1>. QED  BY <1>1, Invariance, PTL DEF Spec, SwitchedWithCause
=============================================================================
