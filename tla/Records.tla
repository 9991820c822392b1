------------------------------ MODULE Records -------------------------------
(***************************************************************************)
(* What the portal learns about others and keeps over a restart: the LXMF  *)
(* peers (lxmf_tracker.py), the nodes and the favourites of each user      *)
(* (browser.py).  Peers and nodes are two tables flushed in the background *)
(* by a loop each; the favourites are written at once by the request that  *)
(* changed them.  A node that was never announced is put in the nodes when *)
(* it is made a favourite.  At a clean exit the handlers flush the peers,  *)
(* then the nodes, while the other threads still run.                      *)
(***************************************************************************)
EXTENDS Naturals

CONSTANTS Peer, Node, User,
          Reading,      \* the thread in which Reticulum hands over announces
          Request,      \* the threads of requests and fetches
          Loop, Exit,
          Garbled,      \* a favourites file that does not parse
          NoList,       \* of a user who has never had a favourite
          MaxVersion, MaxChanges, MaxRestarts       \* bounds

VARIABLES
    peerMem, peerDirty, peerMarking, peerFlush, peerDisk, peerFailed,
    nodeMem, nodeDirty, nodeMarking, nodeFlush, nodeDisk, nodeFailed,
    favorites,   \* the nodes whose index page each user has bookmarked
    favFile,     \* favorites.json
    step,        \* what each request is at in writing it
    text,        \* its snapshot of the favourites, then what it writes
    mixed,       \* more than one has had it open at the same time
    doubt,       \* history: since a request last began with no other on its
                 \* way, two had the file open together, a write failed, or
                 \* a user's first list was made beside another request
    stage,       \* "up", the exit handler that runs, or "down"
    changes, restarts       \* counted for the bounds

peerVars == <<peerMem, peerDirty, peerMarking, peerFlush, peerDisk, peerFailed>>
nodeVars == <<nodeMem, nodeDirty, nodeMarking, nodeFlush, nodeDisk, nodeFailed>>
favVars == <<favorites, favFile, step, text, mixed, doubt>>
counts == <<changes, restarts>>
vars == <<peerVars, nodeVars, favVars, stage, counts>>

Thread == {Reading} \cup Request
Lists == [User -> {NoList} \cup SUBSET Node]
NoLists == [u \in User |-> NoList]

Peers == INSTANCE DirtyFlush WITH Key <- Peer, mem <- peerMem, dirty <- peerDirty,
    marking <- peerMarking, flush <- peerFlush, disk <- peerDisk, failed <- peerFailed
Nodes == INSTANCE DirtyFlush WITH Key <- Node, mem <- nodeMem, dirty <- nodeDirty,
    marking <- nodeMarking, flush <- nodeFlush, disk <- nodeDisk, failed <- nodeFailed

ASSUME RecordsAssumption ==
    /\ Loop # Exit /\ Reading \notin Request
    /\ \A nodes \in SUBSET Node : nodes # NoList
    /\ \A lists \in Lists : lists # Garbled
    /\ MaxVersion \in Nat \ {0} /\ MaxChanges \in Nat /\ MaxRestarts \in Nat

UnderWay == {t \in Request : step[t] # "idle"}
Opened == {t \in Request : step[t] \in {"dump", "rename"}}

TypeOK ==
    /\ Peers!TypeOK /\ Nodes!TypeOK
    /\ favorites \in Lists /\ favFile \in {Garbled} \cup Lists
    /\ step \in [Request -> {"idle", "open", "dump", "rename"}]
    /\ text \in [Request -> Lists]
    /\ \A t \in Request, u \in User : text[t][u] # NoList => favorites[u] # NoList
    /\ doubt \in BOOLEAN /\ mixed \in BOOLEAN /\ (mixed => Opened # {})
    /\ stage \in {"up", "peers", "peers flush", "nodes", "nodes flush", "down"}
    /\ changes \in 0..MaxChanges /\ restarts \in 0..MaxRestarts

Init ==
    /\ Peers!Init /\ Nodes!Init
    /\ favorites = NoLists /\ favFile = NoLists
    /\ step = [t \in Request |-> "idle"] /\ text = [t \in Request |-> NoLists]
    /\ mixed = FALSE /\ doubt = FALSE
    /\ stage = "up" /\ changes = 0 /\ restarts = 0

Running == stage # "down"
Busy == peerMarking \cup nodeMarking \cup UnderWay

(* What a thread that is free starts. *)
Start(t) ==
    /\ Running /\ t \notin Busy /\ changes < MaxChanges
    /\ changes' = changes + 1
    /\ UNCHANGED <<stage, restarts>>

-----------------------------------------------------------------------------
(* Peers.                                                                  *)

RecordPeer(p) ==
    Start(Reading) /\ Peers!Change(Reading, p) /\ UNCHANGED <<nodeVars, favVars>>

(* The hops of a known peer have changed since it was listed last. *)
GetPeers(t, p) ==
    /\ peerMem[p] > 0
    /\ Start(t) /\ Peers!Change(t, p) /\ UNCHANGED <<nodeVars, favVars>>

PeerStep == Running /\ UNCHANGED <<nodeVars, favVars, stage, counts>>

MarkPeers(t) == PeerStep /\ Peers!Mark(t)

PeersLoop == PeerStep /\ Peers!FlushIfDirty(Loop)

-----------------------------------------------------------------------------
(* Nodes.                                                                  *)

RegisterNode(n) ==
    Start(Reading) /\ Nodes!Change(Reading, n) /\ UNCHANGED <<peerVars, favVars>>

(* The end of a fetch, which adds a node it does not know. *)
RecordFetch(t, n) ==
    Start(t) /\ Nodes!Change(t, n) /\ UNCHANGED <<peerVars, favVars>>

(* The ping of a node came back; of one it does not know it forgets it. *)
RecordPing(t, n) == nodeMem[n] > 0 /\ RecordFetch(t, n)

(* The hops of a known node have changed since it was listed last. *)
GetNodes(t, n) == nodeMem[n] > 0 /\ RecordFetch(t, n)

NodeStep == Running /\ UNCHANGED <<peerVars, favVars, stage, counts>>

MarkNodes(t) == NodeStep /\ Nodes!Mark(t)

NodesLoop == NodeStep /\ Nodes!FlushIfDirty(Loop)

-----------------------------------------------------------------------------
(* Favourites: changed under the lock of the nodes; what was listed then    *)
(* is written outside it, through one temporary file.                      *)

List(u) == IF favorites[u] = NoList THEN {} ELSE favorites[u]

(* dict(self._favorites): the users are copied, their lists are shared.    *)
Snapshot(f) == [u \in User |-> IF f[u] = NoList THEN NoList ELSE {}]

FavoriteRequest(t, u, nodes) ==
    /\ Start(t)
    /\ favorites' = [favorites EXCEPT ![u] = nodes]
    /\ step' = [step EXCEPT ![t] = "open"]
    /\ text' = [text EXCEPT ![t] = Snapshot(favorites')]
    /\ doubt' = (UnderWay # {} /\ (doubt \/ favorites[u] = NoList))
    /\ UNCHANGED <<peerVars, nodeMarking, nodeFlush, nodeDisk, nodeFailed, favFile, mixed>>

(* A node without a record gets one, marked while the lock is held. *)
AddFavorite(t, u, n) ==
    /\ FavoriteRequest(t, u, List(u) \cup {n})
    /\ nodeMem' = [nodeMem EXCEPT ![n] = IF @ = 0 THEN 1 ELSE @]
    /\ nodeDirty' = (nodeDirty \/ nodeMem[n] = 0)

(* Refused, and nothing written, when the node has no record. *)
RemoveUnsaved(t, u, n) ==
    /\ nodeMem[n] > 0 /\ Start(t)
    /\ favorites' = [favorites EXCEPT ![u] = List(u) \ {n}]
    /\ UNCHANGED <<peerVars, nodeVars, favFile, step, text, mixed, doubt>>
RemoveAndForget(t, u, n) ==
    /\ nodeMem[n] > 0
    /\ FavoriteRequest(t, u, IF List(u) \subseteq {n} THEN NoList ELSE List(u) \ {n})
    /\ UNCHANGED <<nodeMem, nodeDirty>>
RemoveFavorite(t, u, n) ==
    /\ nodeMem[n] > 0
    /\ FavoriteRequest(t, u, List(u) \ {n})
    /\ UNCHANGED <<nodeMem, nodeDirty>>

FavoriteStep(t, from, to) ==
    /\ Running /\ step[t] = from
    /\ step' = [step EXCEPT ![t] = to]
    /\ UNCHANGED <<peerVars, nodeVars, favorites, stage, counts>>

OpenFavorites(t) ==
    /\ FavoriteStep(t, "open", "dump")
    /\ mixed' = (Opened # {}) /\ doubt' = (doubt \/ Opened # {})
    /\ UNCHANGED <<favFile, text>>

(* Requests that have had the file open together write over each other, in *)
(* the temporary file and in the one that one of them has renamed.         *)
DumpFavorites(t) ==
    /\ FavoriteStep(t, "dump", "rename")
    /\ text' = [text EXCEPT ![t] = [u \in User |-> IF @[u] = NoList THEN NoList ELSE favorites[u]]]
    /\ favFile' \in {favFile} \cup (IF mixed THEN {Garbled, text'[t]} ELSE {})
    /\ UNCHANGED <<mixed, doubt>>

MixedUp ==
    IF mixed THEN {favFile, Garbled} \cup {text[s] : s \in {r \in Request : step[r] = "rename"}}
             ELSE {}

Leave(t) ==
    /\ text' = [text EXCEPT ![t] = NoLists]
    /\ mixed' = (mixed /\ Opened # {t})

(* Of those that had the file open together only one finds it to rename.   *)
RenameFavorites(t) ==
    /\ FavoriteStep(t, "rename", "idle") /\ Leave(t)
    /\ favFile' \in {text[t]} \cup MixedUp
    /\ UNCHANGED doubt

(* The error is logged and dropped. *)
FavoritesFail(t) ==
    /\ \E s \in {"open", "dump", "rename"} : FavoriteStep(t, s, "idle")
    /\ Leave(t)
    /\ favFile' \in {favFile} \cup MixedUp
    /\ doubt' = TRUE

-----------------------------------------------------------------------------
(* The end of the process.  Exit handlers run last in, first out.          *)

Stage(s) == stage' = s /\ UNCHANGED <<favVars, counts>>

Quit == stage = "up" /\ Stage("peers") /\ UNCHANGED <<peerVars, nodeVars>>

ExitPeers ==
    /\ stage = "peers" /\ UNCHANGED nodeVars
    /\ IF peerDirty THEN Peers!Clear(Exit) /\ Stage("peers flush")
                    ELSE UNCHANGED peerVars /\ Stage("nodes")

ExitPeersFlush ==
    /\ stage = "peers flush" /\ UNCHANGED nodeVars
    /\ \/ (Peers!Copy(Exit) \/ Peers!Write(Exit)) /\ Stage(stage)
       \/ (Peers!Rename(Exit) \/ Peers!Fail(Exit)) /\ Stage("nodes")

ExitNodes ==
    /\ stage = "nodes" /\ UNCHANGED peerVars
    /\ IF nodeDirty THEN Nodes!Clear(Exit) /\ Stage("nodes flush")
                    ELSE UNCHANGED nodeVars /\ Stage("down")

ExitNodesFlush ==
    /\ stage = "nodes flush" /\ UNCHANGED peerVars
    /\ \/ (Nodes!Copy(Exit) \/ Nodes!Write(Exit)) /\ Stage(stage)
       \/ (Nodes!Rename(Exit) \/ Nodes!Fail(Exit)) /\ Stage("down")

(* After an exit, or a crash at any moment. *)
Restart ==
    /\ restarts < MaxRestarts /\ restarts' = restarts + 1
    /\ Peers!Loaded(peerDisk) /\ Nodes!Loaded(nodeDisk)
    /\ favorites' = IF favFile = Garbled THEN NoLists ELSE favFile
    /\ step' = [t \in Request |-> "idle"] /\ text' = [t \in Request |-> NoLists]
    /\ mixed' = FALSE /\ doubt' = (favFile = Garbled)
    /\ stage' = "up"
    /\ UNCHANGED <<favFile, changes>>

Next ==
    \/ \E p \in Peer : RecordPeer(p) \/ (\E t \in Request : GetPeers(t, p))
    \/ \E n \in Node : RegisterNode(n)
    \/ \E t \in Request, n \in Node :
         \/ RecordFetch(t, n) \/ RecordPing(t, n) \/ GetNodes(t, n)
         \/ \E u \in User : AddFavorite(t, u, n) \/ RemoveFavorite(t, u, n)
    \/ \E t \in Request :
         \/ OpenFavorites(t) \/ DumpFavorites(t) \/ RenameFavorites(t) \/ FavoritesFail(t)
    \/ \E t \in Thread : MarkPeers(t) \/ MarkNodes(t)
    \/ PeersLoop \/ NodesLoop
    \/ Quit \/ ExitPeers \/ ExitPeersFlush \/ ExitNodes \/ ExitNodesFlush
    \/ Restart

(* The loops wake up every minute, and a thread that has changed a record  *)
(* goes on to mark it.  Nobody has to make a request, quit or restart.     *)
Fairness ==
    /\ WF_vars(PeersLoop) /\ WF_vars(NodesLoop)
    /\ \A t \in Thread : WF_vars(MarkPeers(t)) /\ WF_vars(MarkNodes(t))

Spec == Init /\ [][Next]_vars /\ Fairness

-----------------------------------------------------------------------------
(* Properties.                                                             *)

(* While the process is not exiting, peers and nodes that are neither      *)
(* marked nor on their way are on disk, unless a write failed: no change   *)
(* is lost between the clearing of the mark and the copy                   *)
(* (_flush_if_dirty, _flush_nodes_if_dirty).                               *)
CleanIsSaved == stage = "up" => Peers!CleanIsSaved /\ Nodes!CleanIsSaved

(* The files never go back to an older state of a record, except when the  *)
(* exit handler and the loop write at the same time (_persist).            *)
DiskGoesForward ==
    [][(\/ \E p \in Peer : peerDisk'[p] < peerDisk[p]
        \/ \E n \in Node : nodeDisk'[n] < nodeDisk[n]) => stage # "up"]_vars

(* What has been learnt is on disk in the end, unless a write failed or    *)
(* the process ended before: the loops lose no mark (_persist_loop,        *)
(* _nodes_persist_loop).                                                   *)
EventuallySaved ==
    \A v \in 1..MaxVersion :
      /\ \A p \in Peer :
           []<>~(stage = "up" /\ ~peerFailed /\ peerMem[p] >= v /\ peerDisk[p] < v)
      /\ \A n \in Node :
           []<>~(stage = "up" /\ ~nodeFailed /\ nodeMem[n] >= v /\ nodeDisk[n] < v)

(* The favourites file holds the favourites of every user when no request  *)
(* is on its way to write it, although each writes what it listed before   *)
(* others changed it and they may rename in any order: unless two had the  *)
(* file open together, a write failed, or a user's first list was made     *)
(* beside another request; and the next request that begins with no other  *)
(* on its way makes that good (set_favorite, _persist_favorites).          *)
FavoritesSaved == UnderWay = {} /\ ~doubt => favFile = favorites
=============================================================================
