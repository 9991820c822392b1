--------------------------- MODULE RecordsProofs ----------------------------
(***************************************************************************)
(* Theorems about what is kept over a restart, for any peers, nodes and    *)
(* requests.  The two tables are instances of one module, and so are the   *)
(* lemmas about them; what is left to show here is which step is whose.    *)
(***************************************************************************)
EXTENDS Records, TLAPS

PeersP == INSTANCE DirtyFlushProofs WITH Key <- Peer, mem <- peerMem, dirty <- peerDirty,
    marking <- peerMarking, flush <- peerFlush, disk <- peerDisk, failed <- peerFailed
NodesP == INSTANCE DirtyFlushProofs WITH Key <- Node, mem <- nodeMem, dirty <- nodeDirty,
    marking <- nodeMarking, flush <- nodeFlush, disk <- nodeDisk, failed <- nodeFailed

-----------------------------------------------------------------------------
(* The tables, as the lemmas name them.                                    *)

LEMMA PeersAssumption == PeersP!FlushAssumption
BY RecordsAssumption DEF RecordsAssumption, PeersP!FlushAssumption

LEMMA NodesAssumption == NodesP!FlushAssumption
BY RecordsAssumption DEF RecordsAssumption, NodesP!FlushAssumption

LEMMA PeersType == (Peers!TypeOK <=> PeersP!TypeOK) /\ (Peers!TypeOK' <=> PeersP!TypeOK')
BY DEF Peers!TypeOK, PeersP!TypeOK, Peers!Version, PeersP!Version, Peers!Flusher, PeersP!Flusher

LEMMA PeersInit ==
  ASSUME Peers!Init
  PROVE  Peers!TypeOK /\ PeersP!LoopInv
<1>1. PeersP!Init
  BY DEF Peers!Init, PeersP!Init, Peers!NoRecords, PeersP!NoRecords, Peers!Flusher, PeersP!Flusher,
         Peers!Idle, PeersP!Idle
<1>. QED  BY <1>1, PeersAssumption, PeersP!InitTable, PeersType

LEMMA PeersLoaded ==
  ASSUME Peers!TypeOK, Peers!Loaded(peerDisk)
  PROVE  Peers!TypeOK' /\ PeersP!LoopInv' /\ peerDisk' = peerDisk
<1>1. PeersP!Loaded(peerDisk)
  BY DEF Peers!Loaded, PeersP!Loaded, Peers!NoRecords, PeersP!NoRecords, Peers!Flusher, PeersP!Flusher,
         Peers!Idle, PeersP!Idle
<1>. QED  BY <1>1, PeersAssumption, PeersP!LoadedTable, PeersType

LEMMA PeersFlush ==
  ASSUME Peers!TypeOK, NEW w \in {Loop, Exit}, Peers!FlushIfDirty(w)
  PROVE  Peers!TypeOK' /\ PeersP!FlushIfDirty(w)
<1>1. PeersP!FlushIfDirty(w)
  BY DEF Peers!FlushIfDirty, PeersP!FlushIfDirty, Peers!Clear, PeersP!Clear, Peers!Copy, PeersP!Copy,
         Peers!Write, PeersP!Write, Peers!Rename, PeersP!Rename, Peers!Fail, PeersP!Fail, Peers!NoRecords,
         PeersP!NoRecords, Peers!Idle, PeersP!Idle
<1>2. w \in PeersP!Flusher
  BY DEF PeersP!Flusher
<1>. QED  BY <1>1, <1>2, PeersAssumption, PeersP!FlushType, PeersType

LEMMA PeersTableStep ==
  ASSUME Peers!TypeOK,
         \/ \E t \in Thread, k \in Peer : Peers!Change(t, k)
         \/ \E t \in Thread : Peers!Mark(t)
         \/ Peers!FlushIfDirty(Loop)
         \/ UNCHANGED peerVars
  PROVE  /\ Peers!TypeOK'
         /\ PeersP!LoopInv => PeersP!LoopInv' /\ \A k \in Peer : peerDisk[k] <= peerDisk'[k]
<1>1. PeersP!TableStep
  <2>1. CASE \E t \in Thread, k \in Peer : Peers!Change(t, k)
    BY <2>1 DEF PeersP!TableStep, Peers!Change, PeersP!Change
  <2>2. CASE \E t \in Thread : Peers!Mark(t)
    BY <2>2 DEF PeersP!TableStep, Peers!Mark, PeersP!Mark
  <2>3. CASE Peers!FlushIfDirty(Loop)
    BY <2>3, PeersFlush DEF PeersP!TableStep
  <2>4. CASE UNCHANGED peerVars
    BY <2>4 DEF PeersP!TableStep, peerVars, PeersP!flushVars
  <2>. QED  BY <2>1, <2>2, <2>3, <2>4
<1>. QED  BY <1>1, PeersAssumption, PeersP!TableSteps, PeersType

LEMMA NodesType == (Nodes!TypeOK <=> NodesP!TypeOK) /\ (Nodes!TypeOK' <=> NodesP!TypeOK')
BY DEF Nodes!TypeOK, NodesP!TypeOK, Nodes!Version, NodesP!Version, Nodes!Flusher, NodesP!Flusher

LEMMA NodesInit ==
  ASSUME Nodes!Init
  PROVE  Nodes!TypeOK /\ NodesP!LoopInv
<1>1. NodesP!Init
  BY DEF Nodes!Init, NodesP!Init, Nodes!NoRecords, NodesP!NoRecords, Nodes!Flusher, NodesP!Flusher,
         Nodes!Idle, NodesP!Idle
<1>. QED  BY <1>1, NodesAssumption, NodesP!InitTable, NodesType

LEMMA NodesLoaded ==
  ASSUME Nodes!TypeOK, Nodes!Loaded(nodeDisk)
  PROVE  Nodes!TypeOK' /\ NodesP!LoopInv' /\ nodeDisk' = nodeDisk
<1>1. NodesP!Loaded(nodeDisk)
  BY DEF Nodes!Loaded, NodesP!Loaded, Nodes!NoRecords, NodesP!NoRecords, Nodes!Flusher, NodesP!Flusher,
         Nodes!Idle, NodesP!Idle
<1>. QED  BY <1>1, NodesAssumption, NodesP!LoadedTable, NodesType

LEMMA NodesFlush ==
  ASSUME Nodes!TypeOK, NEW w \in {Loop, Exit}, Nodes!FlushIfDirty(w)
  PROVE  Nodes!TypeOK' /\ NodesP!FlushIfDirty(w)
<1>1. NodesP!FlushIfDirty(w)
  BY DEF Nodes!FlushIfDirty, NodesP!FlushIfDirty, Nodes!Clear, NodesP!Clear, Nodes!Copy, NodesP!Copy,
         Nodes!Write, NodesP!Write, Nodes!Rename, NodesP!Rename, Nodes!Fail, NodesP!Fail, Nodes!NoRecords,
         NodesP!NoRecords, Nodes!Idle, NodesP!Idle
<1>2. w \in NodesP!Flusher
  BY DEF NodesP!Flusher
<1>. QED  BY <1>1, <1>2, NodesAssumption, NodesP!FlushType, NodesType

LEMMA NodesTableStep ==
  ASSUME Nodes!TypeOK,
         \/ \E t \in Thread, k \in Node : Nodes!Change(t, k)
         \/ \E t \in Thread : Nodes!Mark(t)
         \/ Nodes!FlushIfDirty(Loop)
         \/ UNCHANGED nodeVars
         \/ \E k \in Node : NodesP!Made(k)
  PROVE  /\ Nodes!TypeOK'
         /\ NodesP!LoopInv => NodesP!LoopInv' /\ \A k \in Node : nodeDisk[k] <= nodeDisk'[k]
<1>1. NodesP!TableStep
  <2>1. CASE \E t \in Thread, k \in Node : Nodes!Change(t, k)
    BY <2>1 DEF NodesP!TableStep, Nodes!Change, NodesP!Change
  <2>2. CASE \E t \in Thread : Nodes!Mark(t)
    BY <2>2 DEF NodesP!TableStep, Nodes!Mark, NodesP!Mark
  <2>3. CASE Nodes!FlushIfDirty(Loop)
    BY <2>3, NodesFlush DEF NodesP!TableStep
  <2>4. CASE UNCHANGED nodeVars
    BY <2>4 DEF NodesP!TableStep, nodeVars, NodesP!flushVars
  <2>5. CASE \E k \in Node : NodesP!Made(k)
    BY <2>5 DEF NodesP!TableStep
  <2>. QED  BY <2>1, <2>2, <2>3, <2>4, <2>5
<1>. QED  BY <1>1, NodesAssumption, NodesP!TableSteps, NodesType

-----------------------------------------------------------------------------
(* The invariant.                                                          *)

(* While there is no doubt, no two have the file open, every request on    *)
(* its way lists every user, and one that has written an older state of    *)
(* the lists is not the last: whoever changed them has yet to open it.     *)
FavoritesInv ==
    ~doubt =>
      /\ ~mixed /\ \A r, s \in Opened : r = s
      /\ \A t \in UnderWay, u \in User : favorites[u] # NoList => text[t][u] # NoList
      /\ \A t \in Request : step[t] = "rename"
           => text[t] = favorites \/ \E s \in Request : step[s] = "open"
      /\ UnderWay = {} => favFile = favorites

Inv ==
    /\ TypeOK
    /\ stage = "up" => PeersP!LoopInv /\ NodesP!LoopInv
    /\ FavoritesInv

(* The part of TypeOK that is not about the tables.                        *)
RestOK ==
    /\ favorites \in Lists /\ favFile \in {Garbled} \cup Lists
    /\ step \in [Request -> {"idle", "open", "dump", "rename"}]
    /\ text \in [Request -> Lists]
    /\ \A t \in Request, u \in User : text[t][u] # NoList => favorites[u] # NoList
    /\ doubt \in BOOLEAN /\ mixed \in BOOLEAN /\ (mixed => Opened # {})
    /\ stage \in {"up", "peers", "peers flush", "nodes", "nodes flush", "down"}
    /\ changes \in 0..MaxChanges /\ restarts \in 0..MaxRestarts

(* What a step does to the two tables.                                     *)
TablesKept ==
    /\ Peers!TypeOK' /\ Nodes!TypeOK'
    /\ stage' = "up" => PeersP!LoopInv' /\ NodesP!LoopInv'
    /\ stage = "up" =>
         /\ \A p \in Peer : peerDisk[p] <= peerDisk'[p]
         /\ \A n \in Node : nodeDisk[n] <= nodeDisk'[n]

-----------------------------------------------------------------------------
(* Steps of the tables while the stage does not become "up".               *)
LEMMA RunningTables ==
  ASSUME Inv, stage' = "up" => stage = "up",
         \/ \E t \in Thread, k \in Peer : Peers!Change(t, k)
         \/ \E t \in Thread : Peers!Mark(t)
         \/ Peers!FlushIfDirty(Loop)
         \/ UNCHANGED peerVars,
         \/ \E t \in Thread, k \in Node : Nodes!Change(t, k)
         \/ \E t \in Thread : Nodes!Mark(t)
         \/ Nodes!FlushIfDirty(Loop)
         \/ UNCHANGED nodeVars
         \/ \E k \in Node : NodesP!Made(k)
  PROVE  TablesKept
BY PeersTableStep, NodesTableStep DEF Inv, TypeOK, TablesKept

LEMMA NextTables ==
  ASSUME Inv, Next
  PROVE  TablesKept
<1>. Reading \in Thread /\ Request \subseteq Thread
  BY DEF Thread
<1>1. ASSUME NEW p \in Peer, RecordPeer(p) \/ (\E t \in Request : GetPeers(t, p))
      PROVE  TablesKept
  BY <1>1, RunningTables DEF RecordPeer, GetPeers, Start
<1>2. ASSUME NEW n \in Node, RegisterNode(n)
      PROVE  TablesKept
  BY <1>2, RunningTables DEF RegisterNode, Start
<1>3. ASSUME NEW t \in Request, NEW n \in Node,
             RecordFetch(t, n) \/ RecordPing(t, n) \/ GetNodes(t, n)
      PROVE  TablesKept
  BY <1>3, RunningTables DEF RecordFetch, RecordPing, GetNodes, Start
<1>4. ASSUME NEW t \in Request, NEW n \in Node, NEW u \in User, AddFavorite(t, u, n)
      PROVE  TablesKept
  <2>1. NodesP!Made(n) /\ UNCHANGED <<peerVars, stage>>
    BY <1>4 DEF AddFavorite, FavoriteRequest, Start, NodesP!Made
  <2>. QED  BY <2>1, RunningTables
<1>5. ASSUME NEW t \in Request, NEW n \in Node, NEW u \in User, RemoveFavorite(t, u, n)
      PROVE  TablesKept
  <2>1. UNCHANGED <<peerVars, nodeVars, stage>>
    BY <1>5 DEF RemoveFavorite, FavoriteRequest, Start, nodeVars
  <2>. QED  BY <2>1, RunningTables
<1>6. ASSUME NEW t \in Request,
             \/ OpenFavorites(t) \/ DumpFavorites(t) \/ RenameFavorites(t) \/ FavoritesFail(t)
      PROVE  TablesKept
  BY <1>6, RunningTables
     DEF OpenFavorites, DumpFavorites, RenameFavorites, FavoritesFail, FavoriteStep
<1>7. ASSUME NEW t \in Thread, MarkPeers(t) \/ MarkNodes(t)
      PROVE  TablesKept
  BY <1>7, RunningTables DEF MarkPeers, MarkNodes, PeerStep, NodeStep
<1>8. CASE PeersLoop \/ NodesLoop
  BY <1>8, RunningTables DEF PeersLoop, NodesLoop, PeerStep, NodeStep
<1>9. CASE Quit
  BY <1>9, RunningTables DEF Quit, Stage
<1>10. CASE ExitPeers \/ ExitPeersFlush
  <2>1. stage # "up" /\ stage' # "up" /\ UNCHANGED nodeVars
    BY <1>10 DEF ExitPeers, ExitPeersFlush, Stage
  <2>2. Peers!FlushIfDirty(Exit) \/ UNCHANGED peerVars
    BY <1>10 DEF ExitPeers, ExitPeersFlush, Peers!FlushIfDirty
  <2>. QED
    BY <2>1, <2>2, PeersFlush, PeersTableStep, NodesTableStep DEF Inv, TypeOK, TablesKept
<1>11. CASE ExitNodes \/ ExitNodesFlush
  <2>1. stage # "up" /\ stage' # "up" /\ UNCHANGED peerVars
    BY <1>11 DEF ExitNodes, ExitNodesFlush, Stage
  <2>2. Nodes!FlushIfDirty(Exit) \/ UNCHANGED nodeVars
    BY <1>11 DEF ExitNodes, ExitNodesFlush, Nodes!FlushIfDirty
  <2>. QED
    BY <2>1, <2>2, NodesFlush, PeersTableStep, NodesTableStep DEF Inv, TypeOK, TablesKept
<1>12. CASE Restart
  <2>1. /\ Peers!TypeOK' /\ PeersP!LoopInv' /\ peerDisk' = peerDisk
        /\ Nodes!TypeOK' /\ NodesP!LoopInv' /\ nodeDisk' = nodeDisk
    BY <1>12, PeersLoaded, NodesLoaded DEF Restart, Inv, TypeOK
  <2>2. ASSUME NEW p \in Peer PROVE peerDisk[p] <= peerDisk'[p]
    <3>1. peerDisk \in [Peer -> 0..MaxVersion]
      BY DEF Inv, TypeOK, Peers!TypeOK, Peers!Version
    <3>2. peerDisk[p] \in Nat
      BY <3>1, RecordsAssumption DEF RecordsAssumption
    <3>. QED  BY <2>1, <3>2
  <2>3. ASSUME NEW n \in Node PROVE nodeDisk[n] <= nodeDisk'[n]
    <3>1. nodeDisk \in [Node -> 0..MaxVersion]
      BY DEF Inv, TypeOK, Nodes!TypeOK, Nodes!Version
    <3>2. nodeDisk[n] \in Nat
      BY <3>1, RecordsAssumption DEF RecordsAssumption
    <3>. QED  BY <2>1, <3>2
  <2>. QED  BY <2>1, <2>2, <2>3 DEF TablesKept
<1>. QED
  BY <1>1, <1>2, <1>3, <1>4, <1>5, <1>6, <1>7, <1>8, <1>9, <1>10, <1>11, <1>12 DEF Next

-----------------------------------------------------------------------------
(* The favourites and the rest.                                            *)

LEMMA ListedNodes ==
  ASSUME RestOK, NEW u \in User
  PROVE  List(u) \in SUBSET Node
BY DEF RestOK, Lists, List

(* A snapshot names the users who have a list.                             *)
LEMMA SnapshotUsers ==
  ASSUME NEW f \in Lists
  PROVE  Snapshot(f) \in Lists /\ \A u \in User : Snapshot(f)[u] # NoList <=> f[u] # NoList
<1>1. {} \in SUBSET Node /\ {} # NoList
  BY RecordsAssumption DEF RecordsAssumption
<1>. QED  BY <1>1 DEF Snapshot, Lists

LEMMA NoListsListed == NoLists \in Lists /\ \A u \in User : NoLists[u] = NoList
BY DEF NoLists, Lists

LEMMA RequestRest ==
  ASSUME RestOK, FavoritesInv, NEW t \in Request, NEW u \in User, NEW nodes \in SUBSET Node,
         FavoriteRequest(t, u, nodes), step[t] = "idle",
         stage' \in {"up", "peers", "peers flush", "nodes", "nodes flush", "down"},
         changes' \in 0..MaxChanges, restarts' \in 0..MaxRestarts
  PROVE  RestOK' /\ FavoritesInv'
<1>1. /\ favorites' = [favorites EXCEPT ![u] = nodes] /\ step' = [step EXCEPT ![t] = "open"]
      /\ text' = [text EXCEPT ![t] = Snapshot(favorites')]
      /\ doubt' = (UnderWay # {} /\ (doubt \/ favorites[u] = NoList))
      /\ UNCHANGED <<favFile, mixed>>
  BY DEF FavoriteRequest
<1>2. nodes # NoList
  BY RecordsAssumption DEF RecordsAssumption
<1>3. /\ favorites' \in Lists /\ favorites'[u] # NoList
      /\ \A v \in User \ {u} : favorites'[v] = favorites[v]
  BY <1>1, <1>2 DEF RestOK, Lists
<1>4. /\ text' \in [Request -> Lists] /\ text'[t] = Snapshot(favorites')
      /\ \A s \in Request \ {t} : text'[s] = text[s]
  BY <1>1, <1>3, SnapshotUsers DEF RestOK
<1>5. /\ step' \in [Request -> {"idle", "open", "dump", "rename"}] /\ step'[t] = "open"
      /\ \A s \in Request \ {t} : step'[s] = step[s]
  BY <1>1 DEF RestOK
<1>6. Opened' = Opened
  BY <1>5 DEF Opened
<1>7. doubt' \in BOOLEAN /\ mixed' \in BOOLEAN /\ (mixed' => Opened' # {})
  BY <1>1, <1>6 DEF RestOK
<1>8. ASSUME NEW s \in Request, NEW v \in User, text'[s][v] # NoList
      PROVE  favorites'[v] # NoList
  <2>1. CASE s = t
    BY <1>3, <1>4, <1>8, <2>1, SnapshotUsers
  <2>2. CASE s # t
    <3>1. favorites[v] # NoList
      BY <1>4, <1>8, <2>2 DEF RestOK
    <3>. QED  BY <1>2, <1>3, <3>1
  <2>. QED  BY <2>1, <2>2
<1>9. RestOK'
  BY <1>1, <1>3, <1>4, <1>5, <1>7, <1>8 DEF RestOK
<1>10. ASSUME ~doubt'
       PROVE  /\ ~mixed' /\ \A r, s \in Opened' : r = s
              /\ \A s \in UnderWay', v \in User : favorites'[v] # NoList => text'[s][v] # NoList
  <2>1. CASE UnderWay = {}
    <3>1. \A s \in Request : step[s] = "idle"
      BY <2>1 DEF UnderWay
    <3>2. Opened = {} /\ ~mixed
      BY <3>1 DEF Opened, RestOK
    <3>3. \A s \in UnderWay' : s = t
      BY <1>5, <3>1 DEF UnderWay
    <3>. QED  BY <1>1, <1>3, <1>4, <1>6, <3>2, <3>3, SnapshotUsers
  <2>2. CASE UnderWay # {}
    <3>1. ~doubt /\ favorites[u] # NoList
      BY <1>1, <1>10, <2>2
    <3>2. \A s \in UnderWay' \ {t} : s \in UnderWay
      BY <1>5 DEF UnderWay
    <3>3. ASSUME NEW s \in UnderWay', NEW v \in User, favorites'[v] # NoList
          PROVE  text'[s][v] # NoList
      <4>1. CASE s = t
        BY <1>3, <1>4, <3>3, <4>1, SnapshotUsers
      <4>2. CASE s # t
        <5>1. s \in UnderWay /\ s \in Request
          BY <3>2, <3>3, <4>2 DEF UnderWay
        <5>2. favorites[v] # NoList
          BY <1>3, <3>1, <3>3
        <5>3. text[s][v] # NoList
          BY <3>1, <5>1, <5>2 DEF FavoritesInv
        <5>. QED  BY <1>4, <4>2, <5>1, <5>3
      <4>. QED  BY <4>1, <4>2
    <3>4. ~mixed' /\ \A r, s \in Opened' : r = s
      BY <1>1, <1>6, <3>1 DEF FavoritesInv
    <3>. QED  BY <3>3, <3>4
  <2>. QED  BY <2>1, <2>2
<1>11. t \in UnderWay' /\ \E s \in Request : step'[s] = "open"
  BY <1>5 DEF UnderWay
<1>12. FavoritesInv'
  BY <1>10, <1>11 DEF FavoritesInv
<1>. QED  BY <1>9, <1>12

(* What the steps of a save leave alone.                                   *)
LEMMA SaveStep ==
  ASSUME RestOK, NEW t \in Request, NEW from, NEW to \in {"idle", "open", "dump", "rename"},
         FavoriteStep(t, from, to)
  PROVE  /\ UNCHANGED <<favorites, stage, changes, restarts>>
         /\ step[t] = from /\ step'[t] = to
         /\ step' \in [Request -> {"idle", "open", "dump", "rename"}]
         /\ \A s \in Request \ {t} : step'[s] = step[s]
BY DEF FavoriteStep, counts, RestOK

LEMMA OpenRest ==
  ASSUME RestOK, FavoritesInv, NEW t \in Request, OpenFavorites(t)
  PROVE  RestOK' /\ FavoritesInv'
<1>1. /\ UNCHANGED <<favorites, stage, changes, restarts, favFile, text>>
      /\ step[t] = "open" /\ step'[t] = "dump"
      /\ step' \in [Request -> {"idle", "open", "dump", "rename"}]
      /\ \A s \in Request \ {t} : step'[s] = step[s]
  BY SaveStep DEF OpenFavorites
<1>2. mixed' = (Opened # {}) /\ doubt' = (doubt \/ Opened # {})
  BY DEF OpenFavorites
<1>3. Opened' = Opened \cup {t} /\ UnderWay' = UnderWay
  BY <1>1 DEF Opened, UnderWay
<1>4. doubt' \in BOOLEAN /\ mixed' \in BOOLEAN /\ Opened' # {}
  BY <1>2, <1>3 DEF RestOK
<1>5. RestOK'
  BY <1>1, <1>4 DEF RestOK
<1>6. ASSUME ~doubt'
      PROVE  /\ ~doubt /\ ~mixed' /\ \A r, s \in Opened' : r = s
             /\ \A s \in Request : step'[s] # "rename"
             /\ t \in UnderWay'
  BY <1>1, <1>2, <1>3, <1>6 DEF Opened, UnderWay
<1>7. FavoritesInv'
  BY <1>1, <1>3, <1>6 DEF FavoritesInv
<1>. QED  BY <1>5, <1>7

LEMMA DumpRest ==
  ASSUME RestOK, FavoritesInv, NEW t \in Request, DumpFavorites(t)
  PROVE  RestOK' /\ FavoritesInv'
<1>1. /\ UNCHANGED <<favorites, stage, changes, restarts, mixed, doubt>>
      /\ step[t] = "dump" /\ step'[t] = "rename"
      /\ step' \in [Request -> {"idle", "open", "dump", "rename"}]
      /\ \A s \in Request \ {t} : step'[s] = step[s]
  BY SaveStep DEF DumpFavorites
<1>. DEFINE dumped == [u \in User |-> IF text[t][u] = NoList THEN NoList ELSE favorites[u]]
<1>2. dumped \in Lists
  BY DEF Lists, RestOK
<1>3. text' = [text EXCEPT ![t] = dumped]
  BY DEF DumpFavorites
<1>4. /\ text' \in [Request -> Lists] /\ text'[t] = dumped
      /\ \A s \in Request \ {t} : text'[s] = text[s]
  BY <1>2, <1>3 DEF RestOK
<1>5. favFile' \in {Garbled} \cup Lists /\ (~mixed => favFile' = favFile)
  BY <1>2, <1>4 DEF DumpFavorites, RestOK
<1>6. Opened' = Opened /\ UnderWay' = UnderWay /\ t \in UnderWay
  BY <1>1 DEF Opened, UnderWay
<1>7. \A s \in Request, u \in User : text'[s][u] # NoList => favorites[u] # NoList
  BY <1>4 DEF RestOK
<1>8. RestOK'
  BY <1>1, <1>4, <1>5, <1>6, <1>7 DEF RestOK
<1>9. ASSUME ~doubt, NEW s \in UnderWay', NEW u \in User, favorites[u] # NoList
      PROVE  text'[s][u] # NoList
  BY <1>4, <1>6, <1>9 DEF FavoritesInv, UnderWay
<1>10. ASSUME ~doubt PROVE text'[t] = favorites
  <2>1. \A u \in User : favorites[u] # NoList => text[t][u] # NoList
    BY <1>6, <1>10 DEF FavoritesInv
  <2>2. favorites \in [User -> {NoList} \cup SUBSET Node]
    BY DEF RestOK, Lists
  <2>3. \A u \in User : dumped[u] = favorites[u]
    BY <2>1 DEF RestOK
  <2>4. dumped = favorites
    BY <2>2, <2>3
  <2>. QED  BY <1>4, <2>4
<1>11. ASSUME ~doubt, NEW s \in Request, step'[s] = "rename"
       PROVE  s = t
  BY <1>1, <1>6, <1>11 DEF FavoritesInv, Opened
<1>12. FavoritesInv'
  BY <1>1, <1>6, <1>9, <1>10, <1>11 DEF FavoritesInv
<1>. QED  BY <1>8, <1>12

(* A request that leaves, its file written or not.                         *)
LEMMA LeaveRest ==
  ASSUME RestOK, NEW t \in Request, NEW from \in {"open", "dump", "rename"},
         FavoriteStep(t, from, "idle"), Leave(t)
  PROVE  /\ text' \in [Request -> Lists] /\ mixed' \in BOOLEAN
         /\ \A s \in Request, u \in User : text'[s][u] # NoList => favorites[u] # NoList
         /\ \A s \in Request \ {t} : text'[s] = text[s]
         /\ mixed' => mixed /\ Opened' # {}
         /\ UnderWay' = UnderWay \ {t} /\ Opened' = Opened \ {t}
         /\ MixedUp \subseteq {Garbled} \cup Lists /\ (~mixed => MixedUp = {})
<1>1. text' = [text EXCEPT ![t] = NoLists] /\ mixed' = (mixed /\ Opened # {t})
  BY DEF Leave
<1>2. text' \in [Request -> Lists] /\ text'[t] = NoLists
      /\ \A s \in Request \ {t} : text'[s] = text[s]
  BY <1>1, NoListsListed DEF RestOK
<1>3. \A s \in Request, u \in User : text'[s][u] # NoList => favorites[u] # NoList
  BY <1>2, NoListsListed DEF RestOK
<1>4. UnderWay' = UnderWay \ {t} /\ Opened' = Opened \ {t}
  BY SaveStep DEF UnderWay, Opened
<1>5. mixed' \in BOOLEAN /\ (mixed' => mixed /\ Opened' # {})
  BY <1>1, <1>4 DEF RestOK
<1>6. MixedUp \subseteq {Garbled} \cup Lists /\ (~mixed => MixedUp = {})
  BY DEF MixedUp, RestOK
<1>. QED  BY <1>2, <1>3, <1>4, <1>5, <1>6

LEMMA RenameRest ==
  ASSUME RestOK, FavoritesInv, NEW t \in Request, RenameFavorites(t)
  PROVE  RestOK' /\ FavoritesInv'
<1>1. /\ UNCHANGED <<favorites, stage, changes, restarts, doubt>>
      /\ step[t] = "rename" /\ step'[t] = "idle"
      /\ step' \in [Request -> {"idle", "open", "dump", "rename"}]
      /\ \A s \in Request \ {t} : step'[s] = step[s]
      /\ favFile' \in {text[t]} \cup MixedUp
  BY SaveStep DEF RenameFavorites
<1>2. FavoriteStep(t, "rename", "idle") /\ Leave(t)
  BY DEF RenameFavorites
<1>3. RestOK'
  <2>0. MixedUp \subseteq {Garbled} \cup Lists
    BY <1>2, LeaveRest
  <2>1. favFile' \in {Garbled} \cup Lists
    <3>1. text[t] \in Lists
      BY DEF RestOK
    <3>2. favFile' \in {text[t]} \cup MixedUp
      BY <1>1
    <3>. QED  BY <2>0, <3>1, <3>2
  <2>2. doubt' \in BOOLEAN
    BY <1>1 DEF RestOK
  <2>3. /\ text' \in [Request -> Lists] /\ mixed' \in BOOLEAN /\ (mixed' => Opened' # {})
        /\ \A s \in Request, u \in User : text'[s][u] # NoList => favorites[u] # NoList
    BY <1>2, LeaveRest
  <2>4. favorites' \in Lists /\ favorites' = favorites
    BY <1>1 DEF RestOK
  <2>5. /\ stage' \in {"up", "peers", "peers flush", "nodes", "nodes flush", "down"}
        /\ changes' \in 0..MaxChanges /\ restarts' \in 0..MaxRestarts
    BY <1>1 DEF RestOK
  <2>6. step' \in [Request -> {"idle", "open", "dump", "rename"}]
    BY <1>1
  <2>. QED  BY <2>1, <2>2, <2>3, <2>4, <2>5, <2>6 DEF RestOK
<1>4. ASSUME ~doubt
      PROVE  /\ ~mixed /\ ~mixed' /\ \A r, s \in Opened' : r = s
             /\ \A s \in Request : step'[s] # "rename"
             /\ \A s \in UnderWay', u \in User : favorites[u] # NoList => text'[s][u] # NoList
             /\ favFile' = text[t]
  BY <1>1, <1>2, <1>4, LeaveRest DEF FavoritesInv, Opened, UnderWay
<1>5. ASSUME ~doubt, UnderWay' = {}
      PROVE  text[t] = favorites
  BY <1>1, <1>5 DEF FavoritesInv, UnderWay
<1>6. FavoritesInv'
  BY <1>1, <1>4, <1>5 DEF FavoritesInv
<1>. QED  BY <1>3, <1>6

LEMMA FailRest ==
  ASSUME RestOK, FavoritesInv, NEW t \in Request, FavoritesFail(t)
  PROVE  RestOK' /\ FavoritesInv'
<1>1. PICK from \in {"open", "dump", "rename"} : FavoriteStep(t, from, "idle")
  BY DEF FavoritesFail
<1>2. Leave(t) /\ favFile' \in {favFile} \cup MixedUp /\ doubt' = TRUE
  BY DEF FavoritesFail
<1>3. /\ UNCHANGED <<favorites, stage, changes, restarts>>
      /\ step' \in [Request -> {"idle", "open", "dump", "rename"}]
  BY <1>1, SaveStep
<1>4. RestOK'
  BY <1>1, <1>2, <1>3, LeaveRest DEF RestOK
<1>. QED  BY <1>2, <1>4 DEF FavoritesInv

LEMMA NextRest ==
  ASSUME Inv, Next
  PROVE  RestOK' /\ FavoritesInv'
<1>. USE RecordsAssumption DEF RecordsAssumption
<1>. RestOK /\ FavoritesInv
  BY DEF Inv, TypeOK, RestOK
<1>0. ASSUME UNCHANGED favVars,
             stage' \in {"up", "peers", "peers flush", "nodes", "nodes flush", "down"},
             changes' \in 0..MaxChanges, restarts' \in 0..MaxRestarts
      PROVE  RestOK' /\ FavoritesInv'
  <2>1. UNCHANGED <<favorites, favFile, step, text, mixed, doubt, Opened, UnderWay>>
    BY <1>0 DEF favVars, Opened, UnderWay
  <2>2. RestOK'
    BY <1>0, <2>1 DEF RestOK
  <2>3. FavoritesInv'
    BY <2>1 DEF FavoritesInv
  <2>. QED  BY <2>2, <2>3
<1>1. ASSUME NEW t \in Thread, Start(t)
      PROVE  /\ stage' \in {"up", "peers", "peers flush", "nodes", "nodes flush", "down"}
             /\ changes' \in 0..MaxChanges /\ restarts' \in 0..MaxRestarts
             /\ t \in Request => step[t] = "idle"
  <2>1. changes \in 0..MaxChanges /\ restarts \in 0..MaxRestarts /\ stage' = stage
    BY <1>1 DEF RestOK, Start
  <2>2. changes < MaxChanges /\ changes' = changes + 1 /\ restarts' = restarts
    BY <1>1 DEF Start
  <2>3. changes' \in 0..MaxChanges /\ restarts' \in 0..MaxRestarts
    BY <2>1, <2>2
  <2>. QED  BY <1>1, <2>1, <2>3 DEF RestOK, Start, Busy, UnderWay
<1>2. Reading \in Thread /\ Request \subseteq Thread
  BY DEF Thread
<1>3. ASSUME NEW p \in Peer, RecordPeer(p) \/ (\E t \in Request : GetPeers(t, p))
      PROVE  RestOK' /\ FavoritesInv'
  BY <1>0, <1>1, <1>2, <1>3 DEF RecordPeer, GetPeers
<1>4. ASSUME NEW n \in Node, RegisterNode(n)
      PROVE  RestOK' /\ FavoritesInv'
  BY <1>0, <1>1, <1>2, <1>4 DEF RegisterNode
<1>5. ASSUME NEW t \in Request, NEW n \in Node,
             RecordFetch(t, n) \/ RecordPing(t, n) \/ GetNodes(t, n)
      PROVE  RestOK' /\ FavoritesInv'
  BY <1>0, <1>1, <1>2, <1>5 DEF RecordFetch, RecordPing, GetNodes
<1>6. ASSUME NEW t \in Request, NEW n \in Node, NEW u \in User,
             AddFavorite(t, u, n) \/ RemoveFavorite(t, u, n)
      PROVE  RestOK' /\ FavoritesInv'
  <2>1. PICK nodes \in SUBSET Node : FavoriteRequest(t, u, nodes)
    <3>1. List(u) \subseteq Node
      BY ListedNodes
    <3>2. List(u) \cup {n} \in SUBSET Node /\ List(u) \ {n} \in SUBSET Node
      BY <3>1
    <3>. QED  BY <1>6, <3>2 DEF AddFavorite, RemoveFavorite
  <2>2. RestOK' /\ FavoritesInv'
    BY <1>1, <1>2, <2>1, RequestRest DEF FavoriteRequest
  <2>. QED  BY <2>2
<1>7. ASSUME NEW t \in Request,
             \/ OpenFavorites(t) \/ DumpFavorites(t) \/ RenameFavorites(t) \/ FavoritesFail(t)
      PROVE  RestOK' /\ FavoritesInv'
  BY <1>7, OpenRest, DumpRest, RenameRest, FailRest
<1>9. CASE \/ \E t \in Thread : MarkPeers(t) \/ MarkNodes(t)
           \/ PeersLoop \/ NodesLoop
  BY <1>0, <1>9 DEF MarkPeers, MarkNodes, PeersLoop, NodesLoop, PeerStep, NodeStep,
                    counts, RestOK
<1>10. CASE Quit \/ ExitPeers \/ ExitPeersFlush \/ ExitNodes \/ ExitNodesFlush
  BY <1>0, <1>10 DEF Quit, ExitPeers, ExitPeersFlush, ExitNodes, ExitNodesFlush, Stage,
                     counts, RestOK
<1>11. CASE Restart
  <2>1. /\ step' = [t \in Request |-> "idle"] /\ text' = [t \in Request |-> NoLists]
        /\ favFile' = favFile /\ stage' = "up" /\ mixed' = FALSE /\ doubt' = (favFile = Garbled)
        /\ favorites' = IF favFile = Garbled THEN NoLists ELSE favFile
    BY <1>11 DEF Restart
  <2>2. UnderWay' = {} /\ Opened' = {}
    BY <2>1 DEF UnderWay, Opened
  <2>3. changes' \in 0..MaxChanges /\ restarts' \in 0..MaxRestarts
    <3>1. restarts \in 0..MaxRestarts /\ changes \in 0..MaxChanges
      BY DEF RestOK
    <3>2. restarts < MaxRestarts /\ restarts' = restarts + 1 /\ changes' = changes
      BY <1>11 DEF Restart
    <3>. QED  BY <3>1, <3>2
  <2>4. /\ favorites' \in Lists /\ text' \in [Request -> Lists]
        /\ \A t \in Request, u \in User : text'[t][u] = NoList
    BY <2>1, NoListsListed DEF RestOK
  <2>5. RestOK'
    BY <2>1, <2>3, <2>4 DEF RestOK
  <2>6. FavoritesInv'
    BY <2>1, <2>2 DEF FavoritesInv
  <2>. QED  BY <2>5, <2>6
<1>. QED
  BY <1>3, <1>4, <1>5, <1>6, <1>7, <1>9, <1>10, <1>11 DEF Next

-----------------------------------------------------------------------------
(* The theorems.                                                           *)

(* Both tables, their flushes and the favourites keep the invariant        *)
(* through every step of loops, requests, exit handlers and restarts.      *)
THEOREM Invariance == Spec => []Inv
<1>. USE RecordsAssumption DEF RecordsAssumption
<1>1. Init => Inv
  <2>. SUFFICES ASSUME Init PROVE Inv
    OBVIOUS
  <2>1. Peers!TypeOK /\ Nodes!TypeOK /\ PeersP!LoopInv /\ NodesP!LoopInv
    BY PeersInit, NodesInit DEF Init
  <2>2. /\ favorites = NoLists /\ favFile = NoLists /\ mixed = FALSE /\ doubt = FALSE
        /\ step = [t \in Request |-> "idle"] /\ text = [t \in Request |-> NoLists]
        /\ stage = "up" /\ changes = 0 /\ restarts = 0
    BY DEF Init
  <2>3. UnderWay = {} /\ Opened = {}
    BY <2>2 DEF UnderWay, Opened
  <2>4. RestOK
    <3>1. mixed \in BOOLEAN /\ doubt \in BOOLEAN
      BY <2>2
    <3>2. 0 \in 0..MaxChanges /\ 0 \in 0..MaxRestarts
      OBVIOUS
    <3>. QED  BY <2>2, <3>1, <3>2, NoListsListed DEF RestOK
  <2>5. FavoritesInv
    BY <2>2, <2>3 DEF FavoritesInv
  <2>. QED  BY <2>1, <2>4, <2>5 DEF Inv, TypeOK, RestOK
<1>2. Inv /\ [Next]_vars => Inv'
  <2>. SUFFICES ASSUME Inv, [Next]_vars PROVE Inv'
    OBVIOUS
  <2>1. CASE Next
    BY <2>1, NextTables, NextRest DEF Inv, TypeOK, TablesKept, RestOK
  <2>2. CASE UNCHANGED vars
    <3>1. UNCHANGED <<peerVars, nodeVars, stage>>
      BY <2>2 DEF vars
    <3>2. TablesKept
      BY <3>1, RunningTables
    <3>3. /\ UNCHANGED <<favorites, favFile, step, text, mixed, doubt, Opened, UnderWay>>
          /\ UNCHANGED <<stage, changes, restarts>>
      BY <2>2 DEF vars, favVars, counts, Opened, UnderWay
    <3>4. RestOK'
      BY <3>3 DEF Inv, TypeOK, RestOK
    <3>5. FavoritesInv'
      BY <3>3 DEF Inv, FavoritesInv
    <3>. QED  BY <3>2, <3>4, <3>5 DEF Inv, TypeOK, TablesKept, RestOK
  <2>. QED  BY <2>1, <2>2
<1>. QED  BY <1>1, <1>2, PTL DEF Spec

(* Versions, marks, flushes, files and the stage of the exit keep their    *)
(* types, and nothing on disk or about to be written is newer than memory. *)
THEOREM TypeCorrect == Spec => []TypeOK
<1>1. Inv => TypeOK
  BY DEF Inv
<1>. QED  BY <1>1, Invariance, PTL

(* While the process is up, peers and nodes that are not marked and not    *)
(* being marked or flushed are on disk, unless a write failed              *)
(* (_flush_if_dirty, _flush_nodes_if_dirty).                               *)
THEOREM NoMarkLost == Spec => []CleanIsSaved
<1>1. Inv => CleanIsSaved
  BY DEF Inv, CleanIsSaved, PeersP!LoopInv, NodesP!LoopInv, PeersP!CleanInv,
         NodesP!CleanInv, Peers!CleanIsSaved, PeersP!CleanIsSaved, Nodes!CleanIsSaved,
         NodesP!CleanIsSaved, Peers!Quiet, PeersP!Quiet, Nodes!Quiet, NodesP!Quiet,
         Peers!Idle, PeersP!Idle, Nodes!Idle, NodesP!Idle, Peers!NoRecords,
         PeersP!NoRecords, Nodes!NoRecords, NodesP!NoRecords
<1>. QED  BY <1>1, Invariance, PTL

(* With no request on its way, favorites.json holds the favourites of      *)
(* every user, in whatever order requests listed, changed and wrote them,  *)
(* unless two had it open together, a write failed, or a user's first list *)
(* was made beside another request (set_favorite, _persist_favorites).     *)
THEOREM FavoritesKept == Spec => []FavoritesSaved
<1>1. Inv => FavoritesSaved
  BY DEF Inv, FavoritesInv, FavoritesSaved
<1>. QED  BY <1>1, Invariance, PTL

(* No flush of the loop writes a record older than the one on disk; only   *)
(* one that meets the exit handler's may (_persist).                       *)
THEOREM NothingOlder == Spec => DiskGoesForward
<1>1. Inv /\ [Next]_vars =>
        [(\/ \E p \in Peer : peerDisk'[p] < peerDisk[p]
          \/ \E n \in Node : nodeDisk'[n] < nodeDisk[n]) => stage # "up"]_vars
  <2>. SUFFICES ASSUME Inv, Next, stage = "up"
                PROVE  /\ \A p \in Peer : ~(peerDisk'[p] < peerDisk[p])
                       /\ \A n \in Node : ~(nodeDisk'[n] < nodeDisk[n])
    OBVIOUS
  <2>1. TablesKept
    BY NextTables
  <2>2. /\ peerDisk \in [Peer -> 0..MaxVersion] /\ peerDisk' \in [Peer -> 0..MaxVersion]
        /\ nodeDisk \in [Node -> 0..MaxVersion] /\ nodeDisk' \in [Node -> 0..MaxVersion]
    BY <2>1 DEF TablesKept, Inv, TypeOK, Peers!TypeOK, Peers!Version, Nodes!TypeOK,
                Nodes!Version
  <2>3. ASSUME NEW p \in Peer PROVE ~(peerDisk'[p] < peerDisk[p])
    BY <2>1, <2>2, RecordsAssumption DEF RecordsAssumption, TablesKept
  <2>4. ASSUME NEW n \in Node PROVE ~(nodeDisk'[n] < nodeDisk[n])
    BY <2>1, <2>2, RecordsAssumption DEF RecordsAssumption, TablesKept
  <2>. QED  BY <2>3, <2>4
<1>. QED  BY <1>1, Invariance, PTL DEF Spec, DiskGoesForward
=============================================================================
