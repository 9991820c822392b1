-------------------------- MODULE MessagingProofs ---------------------------
(***************************************************************************)
(* Theorems about Messaging, for any number of threads, users and          *)
(* messages and any value of the bounds.                                   *)
(***************************************************************************)
EXTENDS Messaging, FiniteSetTheorems, WellFoundedInduction, TLAPS

-----------------------------------------------------------------------------
(* The store on its own: its inductive invariant.                          *)

(* Saving orders the messages strictly.                                    *)
OrderInv ==
    /\ \A m \in Saved : born[m] <= Cardinality(Saved)
    /\ \A m, k \in Saved : born[m] = born[k] => m = k

(* A dict carries the id that goes with its state: this is why an update   *)
(* or an eviction meant for one message never reaches another.             *)
EntryInv(m, e) ==
    IF m \in Outbound
    THEN /\ e.state \in OutState
         /\ e.id = <<m, IF e.state = "delivered" THEN "hash" ELSE "local">>
    ELSE /\ e.state \in InState
         /\ e.id = <<m, "hash">>

(* The states a dict was in before it came to state s, and s.              *)
Upto(s) ==
    CASE s = "failed"    -> {"queued", "failed"}
      [] s = "delivered" -> OutState
      [] s = "read"      -> InState
      [] OTHER           -> {s}

(* The lists, their copies and what files hold: saved messages, each list  *)
(* no longer than MAX_MESSAGES.  A file may be behind the dicts, never     *)
(* ahead of them.                                                          *)
ListsInv(S) ==
    /\ S \subseteq Saved
    /\ Cardinality(S \cap Outbound) <= MaxMessages
    /\ Cardinality(S \cap Inbound) <= MaxMessages
FileInv(f) ==
    /\ ListsInv(DOMAIN f.entries)
    /\ \A m \in DOMAIN f.entries : /\ EntryInv(m, f.entries[m])
                                   /\ f.entries[m].state \in Upto(msg[m].state)

(* What a thread is about to evict belongs to messages that have left the  *)
(* lists, and a message enters them only once.                             *)
PendingInv(c) ==
    /\ c.pc # "evict" => c.todo = {}
    /\ \A id \in c.todo : id[1] \in Saved \ listed

StoreInv ==
    /\ StoreTypeOK
    /\ OrderInv
    /\ \A m \in Message : EntryInv(m, msg[m])
    /\ ListsInv(listed)
    /\ \A t \in Thread : ListsInv(call[t].snap) /\ PendingInv(call[t])
    /\ FileInv(file)
    /\ FileInv(tmp)

-----------------------------------------------------------------------------
(* Finite sets, and the cut of a list.                                     *)

LEMMA SetHasMin ==
  ASSUME NEW T \in SUBSET Nat, T # {}
  PROVE  \E x \in T : \A y \in T : x <= y
<1>1. PICK x \in T : \A y \in T : ~(<<y, x>> \in OpToRel(<, Nat))
  BY WFMin, NatLessThanWellFounded
<1>2. \A y \in T : ~(y < x)
  BY <1>1 DEF OpToRel
<1>. QED  BY <1>2

LEMMA MessageFinite == IsFiniteSet(Message)
  BY StoreAssumption, FS_Union DEF Message

(* What Newest keeps is no longer than MAX_MESSAGES: of what it keeps, the *)
(* oldest has all the others before it.                                    *)
LEMMA NewestBound ==
  ASSUME NEW S \in SUBSET Message, NEW order \in [Message -> Nat],
         \A m, k \in S : order[m] = order[k] => m = k
  PROVE  Cardinality(Newest(S, order)) <= MaxMessages
<1> DEFINE N == Newest(S, order)
           Above(m) == {k \in S : order[k] > order[m]}
<1>1. IsFiniteSet(S) /\ IsFiniteSet(N) /\ N \subseteq S
  BY MessageFinite, FS_Subset DEF Newest
<1>2. CASE N = {}
  BY <1>2, FS_EmptySet, StoreAssumption
<1>3. CASE N # {}
  <2>1. PICK n \in N : \A k \in N : order[n] <= order[k]
    <3>1. {order[k] : k \in N} \in SUBSET Nat /\ {order[k] : k \in N} # {}
      BY <1>1, <1>3
    <3>2. PICK x \in {order[k] : k \in N} :
                 \A y \in {order[k] : k \in N} : x <= y
      BY <3>1, SetHasMin
    <3>. QED  BY <3>2
  <2>2. N \ {n} \subseteq Above(n)
    BY <2>1, <1>1
  <2>3. Cardinality(Above(n)) < MaxMessages
    BY <2>1 DEF Newest
  <2>4. IsFiniteSet(Above(n)) /\ Cardinality(Above(n)) \in Nat
    BY <1>1, FS_Subset, FS_CardinalityType
  <2>5. Cardinality(N \ {n}) <= Cardinality(Above(n))
    BY <2>2, <2>4, FS_Subset
  <2>6. Cardinality(N \ {n}) = Cardinality(N) - 1 /\ Cardinality(N) \in Nat
    BY <1>1, <2>1, FS_RemoveElement, FS_CardinalityType
  <2>. QED  BY <2>3, <2>4, <2>5, <2>6, StoreAssumption
<1>. QED  BY <1>2, <1>3

(* Newest cuts only a list that was full before the last one came.         *)
LEMMA NewestDropsFromFull ==
  ASSUME NEW S \in SUBSET Message, NEW order \in [Message -> Nat],
         NEW d \in S \ Newest(S, order)
  PROVE  Cardinality(S \ {d}) >= MaxMessages
<1> DEFINE Above == {k \in S : order[k] > order[d]}
<1>1. IsFiniteSet(S) /\ IsFiniteSet(S \ {d}) /\ Above \subseteq S \ {d}
  BY MessageFinite, FS_Subset
<1>2. /\ Cardinality(Above) \in Nat /\ Cardinality(S \ {d}) \in Nat
      /\ Cardinality(Above) <= Cardinality(S \ {d})
  BY <1>1, FS_Subset, FS_CardinalityType
<1>3. ~(Cardinality(Above) < MaxMessages)
  BY DEF Newest
<1>. QED  BY <1>2, <1>3, StoreAssumption

LEMMA NewestKeepsLast ==
  ASSUME NEW S \in SUBSET Message, NEW order \in [Message -> Nat],
         NEW m \in S, \A k \in S : order[k] <= order[m]
  PROVE  m \in Newest(S, order)
<1>1. {k \in S : order[k] > order[m]} = {}
  OBVIOUS
<1>. QED  BY <1>1, FS_EmptySet, StoreAssumption DEF Newest

LEMMA SubsetKeepsBound ==
  ASSUME NEW S \in SUBSET Message, NEW T \in SUBSET S, NEW box,
         Cardinality(S \cap box) <= MaxMessages
  PROVE  Cardinality(T \cap box) <= MaxMessages
<1>1. IsFiniteSet(S \cap box) /\ T \cap box \subseteq S \cap box
  BY MessageFinite, FS_Subset
<1>2. /\ Cardinality(T \cap box) <= Cardinality(S \cap box)
      /\ Cardinality(T \cap box) \in Nat /\ Cardinality(S \cap box) \in Nat
  BY <1>1, FS_Subset, FS_CardinalityType
<1>. QED  BY <1>2, StoreAssumption

-----------------------------------------------------------------------------
(* Each action preserves the invariant.                                    *)

LEMMA InitInv == StoreInit => StoreInv
<1>1. DOMAIN <<>> = {} /\ Saved \subseteq Message
  BY DEF Saved
<1>2. SUFFICES ASSUME StoreInit PROVE StoreInv
  OBVIOUS
<1>3. StoreTypeOK
  BY <1>2 DEF StoreInit, StoreTypeOK, FirstId, Id, Entry, OutState, InState,
              Message, Call, Idle, File, Blank
<1>4. ListsInv({})
  BY FS_EmptySet, StoreAssumption DEF ListsInv
<1>5. \A m \in Message : EntryInv(m, msg[m])
  BY <1>2, StoreAssumption
     DEF StoreInit, EntryInv, FirstId, OutState, InState, Message
<1>6. FileInv(file) /\ FileInv(tmp)
  BY <1>1, <1>2, <1>4 DEF StoreInit, FileInv, Blank
<1>7. \A t \in Thread : ListsInv(call[t].snap) /\ PendingInv(call[t])
  BY <1>2, <1>4 DEF StoreInit, Idle, PendingInv
<1>8. OrderInv
  BY <1>2 DEF StoreInit, OrderInv, Saved
<1>. QED  BY <1>2, <1>3, <1>4, <1>5, <1>6, <1>7, <1>8 DEF StoreInv, StoreInit

(* The locked half of a method: whatever it does to the lists, it leaves   *)
(* its own copy of them and the ids of messages that are no longer there.  *)
LEMMA LockedInv ==
  ASSUME StoreInv, NEW t \in Thread, NEW ids \in SUBSET Id,
         Begin(t, ids, listed'), ListsInv(listed)',
         Saved \subseteq Saved', listed' \cap Saved \subseteq listed,
         listed' \subseteq Message,
         \A id \in ids : id[1] \in Saved' \ listed',
         \A m \in Saved : Upto(msg[m].state) \subseteq Upto(msg'[m].state),
         UNCHANGED <<file, tmp>>
  PROVE  /\ call' \in [Thread -> Call]
         /\ \A u \in Thread : (ListsInv(call[u].snap) /\ PendingInv(call[u]))'
         /\ FileInv(file)' /\ FileInv(tmp)'
<1>1. call' \in [Thread -> Call]
  BY DEF StoreInv, StoreTypeOK, Begin, Call
<1>2. ASSUME NEW u \in Thread
      PROVE  (ListsInv(call[u].snap) /\ PendingInv(call[u]))'
  <2>1. CASE u = t
    BY <2>1 DEF Begin, ListsInv, PendingInv, StoreInv, StoreTypeOK
  <2>2. CASE u # t
    <3>1. call'[u] = call[u]
      BY <2>2 DEF Begin, StoreInv, StoreTypeOK
    <3>2. ListsInv(call[u].snap) /\ PendingInv(call[u])
      BY DEF StoreInv
    <3>. QED  BY <3>1, <3>2 DEF ListsInv, PendingInv
  <2>. QED  BY <2>1, <2>2
<1>3. FileInv(file)' /\ FileInv(tmp)'
  BY DEF StoreInv, FileInv, ListsInv, EntryInv
<1>. QED  BY <1>1, <1>2, <1>3

(* A message enters the invariant's reach when it is saved.                *)
LEMMA SaveInv ==
  ASSUME StoreInv, NEW t \in Thread, NEW m \in Message, NEW att \in BOOLEAN,
         SaveSent(t, m, att) \/ SaveReceived(t, m, att)
  PROVE  StoreInv'
<1>1. PICK box \in {Outbound, Inbound}, state \in {"queued", "unread"} :
        /\ Save(t, m, att, box, state)
        /\ state = IF box = Outbound THEN "queued" ELSE "unread"
  BY StoreAssumption DEF SaveSent, SaveReceived, Save
<1> DEFINE S    == (listed \cap box) \cup {m}
           kept == Newest(S, born')
           gone == (listed \cap box) \ kept
<1>2. /\ m \in box /\ m \notin Saved /\ m \notin listed
      /\ born' = [born EXCEPT ![m] = Cardinality(Saved) + 1]
      /\ msg' = [msg EXCEPT ![m] =
                   [id |-> FirstId(m), state |-> state, att |-> att]]
      /\ listed' = (listed \ box) \cup kept
      /\ Begin(t, EvictedIds(gone), listed')
      /\ UNCHANGED <<blobs, file, tmp>>
  BY <1>1 DEF Save, StoreInv, ListsInv
<1>3. IsFiniteSet(Saved) /\ Cardinality(Saved) \in Nat
  BY MessageFinite, FS_Subset, FS_CardinalityType DEF Saved
<1>4. /\ born' \in [Message -> Nat] /\ born'[m] = Cardinality(Saved) + 1
      /\ \A k \in Message \ {m} : born'[k] = born[k]
  BY <1>2, <1>3 DEF StoreInv, StoreTypeOK
<1>5. Saved' = Saved \cup {m} /\ Cardinality(Saved') = Cardinality(Saved) + 1
  <2>1. Saved' = Saved \cup {m}
    BY <1>3, <1>4 DEF Saved
  <2>. QED  BY <2>1, <1>2, <1>3, FS_AddElement
<1>6. OrderInv'
  <2>1. \A k \in Saved : /\ k \in Message /\ k # m /\ born'[k] = born[k]
                         /\ born[k] \in Nat /\ born[k] <= Cardinality(Saved)
    BY <1>2, <1>4 DEF OrderInv, Saved, StoreInv, StoreTypeOK
  <2>2. \A k \in Saved' : born'[k] <= Cardinality(Saved')
    BY <2>1, <1>3, <1>4, <1>5
  <2>3. \A j, k \in Saved' : born'[j] = born'[k] => j = k
    BY <2>1, <1>3, <1>4, <1>5 DEF OrderInv, StoreInv
  <2>. QED  BY <2>2, <2>3 DEF OrderInv
<1>7. S \subseteq Saved' /\ S \subseteq Message /\ kept \subseteq S
  BY <1>5 DEF StoreInv, ListsInv, StoreTypeOK, Newest
<1>8. ListsInv(listed)'
  <2>1. \A j, k \in S : born'[j] = born'[k] => j = k
    BY <1>6, <1>7 DEF OrderInv
  <2>2. Cardinality(kept) <= MaxMessages
    BY <1>4, <1>7, <2>1, NewestBound
  <2>3. /\ listed' \cap box = kept
        /\ \A b \in {Outbound, Inbound} \ {box} : listed' \cap b = listed \cap b
    <3>1. listed' = (listed \ box) \cup kept
      BY <1>2
    <3>2. kept \subseteq box
      BY <1>2, <1>7
    <3>. HIDE DEF kept
    <3>3. listed' \cap box = kept
      BY <3>1, <3>2
    <3>4. ASSUME NEW b \in {Outbound, Inbound} \ {box}
          PROVE  listed' \cap b = listed \cap b
      <4>1. b \cap box = {}
        BY StoreAssumption
      <4>. QED  BY <3>1, <3>2, <4>1
    <3>. QED  BY <3>3, <3>4
  <2>. QED  BY <1>2, <1>5, <1>7, <2>2, <2>3 DEF ListsInv, StoreInv
<1>9. msg' \in [Message -> Entry] /\ \A k \in Message : EntryInv(k, msg[k])'
  <2>1. [id |-> FirstId(m), state |-> state, att |-> att] \in Entry
    BY DEF Entry, FirstId, Id, OutState, InState
  <2>2. EntryInv(m, [id |-> FirstId(m), state |-> state, att |-> att])
    BY <1>1, <1>2, StoreAssumption DEF EntryInv, FirstId, OutState, InState
  <2>. QED  BY <1>2, <2>1, <2>2 DEF StoreInv, StoreTypeOK, EntryInv
<1>10. /\ EvictedIds(gone) \in SUBSET Id
       /\ \A id \in EvictedIds(gone) : id[1] \in Saved' \ listed'
  <2>1. ASSUME NEW k \in gone
        PROVE  msg[k].id \in Id /\ msg[k].id[1] = k /\ k \in Saved' \ listed'
    <3>1. k \in Message /\ k \in listed /\ k \in box /\ k \notin kept
      BY DEF StoreInv, StoreTypeOK
    <3>2. msg[k].id \in Id /\ msg[k].id[1] = k
      BY <3>1 DEF StoreInv, StoreTypeOK, EntryInv, Entry
    <3>. QED  BY <3>1, <3>2, <1>2, <1>7
  <2>. QED  BY ZenonT(30), <2>1 DEF EvictedIds, Ids
<1>11. listed' \subseteq Message /\ listed' \cap Saved \subseteq listed
  BY <1>2, <1>7 DEF StoreInv, StoreTypeOK
<1>12. /\ call' \in [Thread -> Call]
       /\ \A u \in Thread : (ListsInv(call[u].snap) /\ PendingInv(call[u]))'
       /\ FileInv(file)' /\ FileInv(tmp)'
  <2>1. \A k \in Saved : msg'[k] = msg[k]
    BY <1>2 DEF StoreInv, StoreTypeOK, Saved
  <2>. QED  BY <2>1, <1>2, <1>5, <1>8, <1>10, <1>11, LockedInv
<1>. QED
  BY <1>2, <1>4, <1>6, <1>8, <1>9, <1>11, <1>12 DEF StoreInv, StoreTypeOK

LEMMA UpdateSentInv ==
  ASSUME StoreInv, NEW t \in Thread, NEW m \in Outbound,
         \/ UpdateSent(t, FirstId(m), "failed", FirstId(m))
         \/ UpdateSent(t, FirstId(m), "delivered", <<m, "hash">>)
  PROVE  StoreInv'
<1>1. PICK state \in {"failed", "delivered"}, realId \in Id :
        /\ UpdateSent(t, FirstId(m), state, realId)
        /\ realId = <<m, IF state = "delivered" THEN "hash" ELSE "local">>
  BY DEF FirstId, Id, Message
<1>2. PICK k \in WithId(FirstId(m)) :
         msg' = [msg EXCEPT ![k].state = state, ![k].id = realId]
  BY <1>1 DEF UpdateSent
<1>3. k = m /\ m \in listed /\ m \in Message
  BY <1>2, StoreAssumption
     DEF WithId, FirstId, StoreInv, StoreTypeOK, EntryInv, Message
<1>4. /\ msg' \in [Message -> Entry]
      /\ msg'[m].state = state /\ msg'[m].id = realId
      /\ \A j \in Message \ {m} : msg'[j] = msg[j]
  <2>1. msg \in [Message -> Entry] /\ msg[m] \in Entry
    BY <1>3 DEF StoreInv, StoreTypeOK
  <2>. QED  BY <1>1, <1>2, <1>3, <2>1 DEF Entry, OutState
<1>5. \A j \in Message : EntryInv(j, msg[j])'
  BY <1>1, <1>3, <1>4 DEF StoreInv, EntryInv, OutState
<1>6. UNCHANGED <<listed, born, blobs, file, tmp>> /\ Begin(t, {}, listed)
  BY <1>1 DEF UpdateSent
<1>7. OrderInv' /\ ListsInv(listed)' /\ Saved' = Saved
  BY <1>6 DEF OrderInv, ListsInv, Saved, StoreInv
<1>8. /\ call' \in [Thread -> Call]
      /\ \A u \in Thread : (ListsInv(call[u].snap) /\ PendingInv(call[u]))'
      /\ FileInv(file)' /\ FileInv(tmp)'
  <2>1. Upto(msg[m].state) \subseteq Upto(msg'[m].state)
    <3>1. msg[m].state \in {"queued", "failed"}
      BY <1>2, <1>3 DEF WithId, FirstId, StoreInv, EntryInv, OutState
    <3>. QED  BY <3>1, <1>1, <1>4 DEF Upto, OutState
  <2>2. \A j \in Saved : Upto(msg[j].state) \subseteq Upto(msg'[j].state)
    BY <2>1, <1>4 DEF Saved
  <2>. QED  BY <2>2, <1>6, <1>7, LockedInv DEF StoreInv, StoreTypeOK
<1>. QED
  BY <1>4, <1>5, <1>6, <1>7, <1>8 DEF StoreInv, StoreTypeOK

LEMMA MarkReadInv ==
  ASSUME StoreInv, NEW t \in Thread, NEW id, NEW owner,
         MarkRead(t, id, owner)
  PROVE  StoreInv'
<1>1. /\ UNCHANGED <<listed, born, blobs, file, tmp>>
      /\ Begin(t, {}, listed)
  BY DEF MarkRead
<1>2. ASSUME NEW k \in Message
      PROVE  msg'[k] \in Entry /\ EntryInv(k, msg[k])'
  <2>1. msg[k] \in Entry /\ EntryInv(k, msg[k])
    BY DEF StoreInv, StoreTypeOK
  <2>2. CASE msg'[k] = msg[k]
    BY <2>1, <2>2 DEF EntryInv
  <2>3. CASE k \in Inbound /\ msg'[k] = [msg[k] EXCEPT !.state = "read"]
    BY <2>1, <2>3, StoreAssumption DEF EntryInv, Entry, InState
  <2>. QED  BY <2>2, <2>3 DEF MarkRead
<1>3. msg' \in [Message -> Entry]
  BY <1>2 DEF MarkRead
<1>4. OrderInv' /\ ListsInv(listed)' /\ Saved' = Saved
  BY <1>1 DEF OrderInv, ListsInv, Saved, StoreInv
<1>5. /\ call' \in [Thread -> Call]
      /\ \A u \in Thread : (ListsInv(call[u].snap) /\ PendingInv(call[u]))'
      /\ FileInv(file)' /\ FileInv(tmp)'
  <2>1. ASSUME NEW k \in Saved
        PROVE  Upto(msg[k].state) \subseteq Upto(msg'[k].state)
    <3>1. k \in Message /\ msg[k] \in Entry /\ EntryInv(k, msg[k])
      BY DEF Saved, StoreInv, StoreTypeOK
    <3>2. \/ msg'[k] = msg[k]
          \/ k \in Inbound /\ msg'[k].state = "read"
      BY <3>1 DEF MarkRead, Entry
    <3>. QED  BY <3>1, <3>2, StoreAssumption DEF EntryInv, Upto, InState
  <2>. QED  BY SMTT(30), <2>1, <1>1, <1>4, LockedInv DEF StoreInv, StoreTypeOK
<1>. QED
  BY <1>1, <1>2, <1>3, <1>4, <1>5 DEF StoreInv, StoreTypeOK

LEMMA DeleteConversationInv ==
  ASSUME StoreInv, NEW t \in Thread, NEW peer, NEW owner,
         DeleteConversation(t, peer, owner)
  PROVE  StoreInv'
<1> DEFINE gone == Conversation(peer, owner)
<1>1. /\ UNCHANGED <<msg, born, blobs, file, tmp>>
      /\ listed' = listed \ gone
      /\ Begin(t, EvictedIds(gone), listed')
      /\ Saved' = Saved
  BY DEF DeleteConversation, Saved
<1>2. /\ EvictedIds(gone) \in SUBSET Id
      /\ \A id \in EvictedIds(gone) : id[1] \in Saved' \ listed'
  <2>1. ASSUME NEW k \in gone
        PROVE  msg[k].id \in Id /\ msg[k].id[1] = k /\ k \in Saved' \ listed'
    <3>1. k \in listed /\ k \in Message /\ k \in Saved
      BY DEF Conversation, StoreInv, StoreTypeOK, ListsInv
    <3>2. msg[k].id \in Id /\ msg[k].id[1] = k
      BY <3>1 DEF StoreInv, StoreTypeOK, EntryInv, Entry
    <3>. QED  BY <3>1, <3>2, <1>1
  <2>. QED  BY <2>1 DEF EvictedIds, Ids
<1>3. ListsInv(listed)'
  BY <1>1, SubsetKeepsBound DEF ListsInv, StoreInv, StoreTypeOK
<1>4. /\ call' \in [Thread -> Call]
      /\ \A u \in Thread : (ListsInv(call[u].snap) /\ PendingInv(call[u]))'
      /\ FileInv(file)' /\ FileInv(tmp)'
  BY <1>1, <1>2, <1>3, LockedInv DEF StoreInv, StoreTypeOK
<1>. QED
  BY <1>1, <1>3, <1>4
  DEF StoreInv, StoreTypeOK, OrderInv, EntryInv, ListsInv, Saved

-----------------------------------------------------------------------------
(* The unlocked half changes no list, and the files only by what a copy of *)
(* the lists may put there.                                                *)
LEMMA UnlockedInv ==
  ASSUME StoreInv,
         UNCHANGED <<listed, msg, born>>, blobs' \subseteq Id,
         call' \in [Thread -> Call],
         \A u \in Thread : /\ call'[u].snap = call[u].snap \/ call'[u].snap = {}
                           /\ call'[u].todo \subseteq call[u].todo
                           /\ call'[u].pc # "evict" => call'[u].todo = {},
         file' \in File, FileInv(file)', tmp' \in File, FileInv(tmp)'
  PROVE  StoreInv'
<1>1. ListsInv({})
  BY FS_EmptySet, StoreAssumption DEF ListsInv
<1>2. \A u \in Thread : (ListsInv(call[u].snap) /\ PendingInv(call[u]))'
  BY <1>1 DEF StoreInv, ListsInv, PendingInv, Saved
<1>. QED
  BY <1>2 DEF StoreInv, StoreTypeOK, OrderInv, EntryInv, ListsInv, Saved

LEMMA BlankInv ==
  ASSUME NEW form \in {"absent", "empty", "broken"}
  PROVE  Blank(form) \in File /\ FileInv(Blank(form))
<1>1. DOMAIN <<>> = {} /\ ListsInv({})
  BY FS_EmptySet, StoreAssumption DEF ListsInv
<1>. QED  BY <1>1 DEF Blank, File, FileInv

LEMMA WriteBlobInv ==
  ASSUME StoreInv, NEW m \in Message, WriteBlob(m)
  PROVE  StoreInv'
<1>1. /\ UNCHANGED <<listed, msg, born, call, file, tmp>>
      /\ blobs' \subseteq Id
  BY DEF WriteBlob, StoreInv, StoreTypeOK, FirstId, Id
<1>2. (FileInv(file) /\ FileInv(tmp))' /\ file' \in File /\ tmp' \in File
  BY <1>1 DEF StoreInv, StoreTypeOK, FileInv, ListsInv, EntryInv, Saved
<1>. QED  BY <1>1, <1>2, UnlockedInv DEF StoreInv, StoreTypeOK, PendingInv

LEMMA EvictInv ==
  ASSUME StoreInv, NEW t \in Thread, Evict(t)
  PROVE  StoreInv'
<1>1. PICK id \in call[t].todo :
        call' = [call EXCEPT ![t].todo = @ \ {id},
                             ![t].pc = IF call[t].todo = {id}
                                       THEN "open" ELSE "evict"]
  BY DEF Evict
<1>2. call[t] \in Call /\ call \in [Thread -> Call]
  BY DEF StoreInv, StoreTypeOK
<1>3. /\ call' \in [Thread -> Call]
      /\ call'[t].todo = call[t].todo \ {id} /\ call'[t].snap = call[t].snap
      /\ call'[t].pc = IF call[t].todo = {id} THEN "open" ELSE "evict"
      /\ \A u \in Thread \ {t} : call'[u] = call[u]
  BY <1>1, <1>2 DEF Call
<1>4. \A u \in Thread : /\ call'[u].snap = call[u].snap
                        /\ call'[u].todo \subseteq call[u].todo
                        /\ call'[u].pc # "evict" => call'[u].todo = {}
  BY <1>3 DEF StoreInv, PendingInv
<1>5. /\ UNCHANGED <<listed, msg, born, file, tmp>> /\ blobs' \subseteq Id
  BY DEF Evict, StoreInv, StoreTypeOK
<1>6. (FileInv(file) /\ FileInv(tmp))' /\ file' \in File /\ tmp' \in File
  BY <1>5 DEF StoreInv, StoreTypeOK, FileInv, ListsInv, EntryInv, Saved
<1>. QED  BY <1>3, <1>4, <1>5, <1>6, UnlockedInv

LEMMA EvictFailsInv ==
  ASSUME StoreInv, NEW t \in Thread, NEW id \in Id, EvictFails(t, id)
  PROVE  StoreInv'
<1>1. call' = [call EXCEPT ![t].todo = @ \ {id},
                           ![t].pc = IF call[t].todo = {id}
                                     THEN "open" ELSE "evict"]
  BY DEF EvictFails
<1>2. call[t] \in Call /\ call \in [Thread -> Call]
  BY DEF StoreInv, StoreTypeOK
<1>3. /\ call' \in [Thread -> Call]
      /\ call'[t].todo = call[t].todo \ {id} /\ call'[t].snap = call[t].snap
      /\ call'[t].pc = IF call[t].todo = {id} THEN "open" ELSE "evict"
      /\ \A u \in Thread \ {t} : call'[u] = call[u]
  BY <1>1, <1>2 DEF Call
<1>4. \A u \in Thread : /\ call'[u].snap = call[u].snap
                        /\ call'[u].todo \subseteq call[u].todo
                        /\ call'[u].pc # "evict" => call'[u].todo = {}
  BY <1>3 DEF EvictFails, StoreInv, PendingInv
<1>5. /\ UNCHANGED <<listed, msg, born, file, tmp>> /\ blobs' \subseteq Id
  BY DEF EvictFails, StoreInv, StoreTypeOK
<1>6. (FileInv(file) /\ FileInv(tmp))' /\ file' \in File /\ tmp' \in File
  BY <1>5 DEF StoreInv, StoreTypeOK, FileInv, ListsInv, EntryInv, Saved
<1>. QED  BY <1>3, <1>4, <1>5, <1>6, UnlockedInv

LEMMA PersistOpenInv ==
  ASSUME StoreInv, NEW t \in Thread, PersistOpen(t)
  PROVE  StoreInv'
<1>1. call[t] \in Call /\ call \in [Thread -> Call]
  BY DEF StoreInv, StoreTypeOK
<1>2. /\ call' \in [Thread -> Call]
      /\ call'[t].todo = call[t].todo /\ call'[t].snap = call[t].snap
      /\ call'[t].pc = "write" /\ call[t].pc = "open"
      /\ \A u \in Thread \ {t} : call'[u] = call[u]
  BY <1>1 DEF PersistOpen, Call
<1>3. \A u \in Thread : /\ call'[u].snap = call[u].snap
                        /\ call'[u].todo \subseteq call[u].todo
                        /\ call'[u].pc # "evict" => call'[u].todo = {}
  BY <1>2 DEF StoreInv, PendingInv
<1>4. /\ UNCHANGED <<listed, msg, born, blobs, file>>
      /\ tmp' = Blank("empty")
  BY DEF PersistOpen
<1>5. (FileInv(file) /\ FileInv(tmp))' /\ file' \in File /\ tmp' \in File
  BY <1>4, BlankInv
     DEF StoreInv, StoreTypeOK, FileInv, ListsInv, EntryInv, Saved
<1>. QED  BY <1>2, <1>3, <1>4, <1>5, UnlockedInv DEF StoreInv, StoreTypeOK

LEMMA PersistWriteInv ==
  ASSUME StoreInv, NEW t \in Thread, PersistWrite(t)
  PROVE  StoreInv'
<1> DEFINE text == Json([m \in call[t].snap |-> msg[m]])
<1>1. call[t] \in Call /\ call \in [Thread -> Call]
  BY DEF StoreInv, StoreTypeOK
<1>2. /\ call' \in [Thread -> Call]
      /\ call'[t].todo = call[t].todo /\ call'[t].snap = call[t].snap
      /\ call'[t].pc = "replace" /\ call[t].pc = "write"
      /\ \A u \in Thread \ {t} : call'[u] = call[u]
  BY <1>1 DEF PersistWrite, Call
<1>3. \A u \in Thread : /\ call'[u].snap = call[u].snap
                        /\ call'[u].todo \subseteq call[u].todo
                        /\ call'[u].pc # "evict" => call'[u].todo = {}
  BY <1>2 DEF StoreInv, PendingInv
<1>4. UNCHANGED <<listed, msg, born, blobs>>
  BY DEF PersistWrite
<1>5. text \in File /\ FileInv(text)
  <2>1. call[t].snap \in SUBSET Message
    BY <1>1 DEF Call
  <2>2. [m \in call[t].snap |-> msg[m]] \in [call[t].snap -> Entry]
    BY <2>1 DEF StoreInv, StoreTypeOK
  <2>3. ASSUME NEW m \in call[t].snap
        PROVE  EntryInv(m, msg[m]) /\ msg[m].state \in Upto(msg[m].state)
    BY <2>1 DEF StoreInv, EntryInv, Upto, OutState, InState
  <2>. QED  BY <2>1, <2>2, <2>3 DEF File, Json, FileInv, StoreInv
<1>6. /\ tmp' = tmp \/ tmp' = text \/ tmp' = Blank("broken")
      /\ file' = file \/ file' = text \/ file' = Blank("broken")
  BY DEF PersistWrite, Outcome
<1>7. \A f \in File : FileInv(f) => FileInv(f)'
  BY <1>4 DEF FileInv, ListsInv, EntryInv, Saved
<1>8. (FileInv(file) /\ FileInv(tmp))' /\ file' \in File /\ tmp' \in File
  <2>1. ASSUME NEW f, NEW g \in File, FileInv(g),
               f = g \/ f = text \/ f = Blank("broken")
        PROVE  f \in File /\ FileInv(f)
    BY <2>1, <1>5, BlankInv
  <2>. QED  BY <2>1, <1>4, <1>6, <1>7
            DEF StoreInv, StoreTypeOK, FileInv, ListsInv, EntryInv, Saved
<1>. QED  BY <1>2, <1>3, <1>4, <1>8, UnlockedInv DEF StoreInv, StoreTypeOK

LEMMA PersistReplaceInv ==
  ASSUME StoreInv, NEW t \in Thread, PersistReplace(t)
  PROVE  StoreInv'
<1>1. call[t].pc = "replace" /\ call \in [Thread -> Call]
  BY DEF PersistReplace, StoreInv, StoreTypeOK
<1>2. ASSUME NEW c \in Call
      PROVE  /\ [c EXCEPT !.fd = AfterRename(@)] \in Call
             /\ [c EXCEPT !.fd = AfterRename(@)].snap = c.snap
             /\ [c EXCEPT !.fd = AfterRename(@)].todo = c.todo
             /\ [c EXCEPT !.fd = AfterRename(@)].pc = c.pc
  <2>1. c.fd \in {"none", "tmp", "path", "unlinked"}
    BY DEF Call
  <2>2. AfterRename(c.fd) \in {"none", "tmp", "path", "unlinked"}
    BY <2>1 DEF AfterRename
  <2>. QED  BY <2>2 DEF Call
<1>3. ASSUME NEW u \in Thread
      PROVE  /\ call'[u] \in Call
             /\ call'[u].snap = call[u].snap \/ call'[u].snap = {}
             /\ call'[u].todo \subseteq call[u].todo
             /\ call'[u].pc # "evict" => call'[u].todo = {}
  <2>1. call[u] \in Call /\ (call[u].pc # "evict" => call[u].todo = {})
    BY <1>1 DEF StoreInv, PendingInv
  <2>2. CASE call'[u] = Idle
    BY <2>2 DEF Idle, Call
  <2>3. CASE call'[u] = call[u]
    BY <2>1, <2>3
  <2>4. CASE call'[u] = [call[u] EXCEPT !.fd = AfterRename(@)]
    BY <1>2, <2>1, <2>4
  <2>. QED  BY <1>1, <2>2, <2>3, <2>4 DEF PersistReplace
<1>4. call' \in [Thread -> Call]
  BY <1>1, <1>3 DEF PersistReplace
<1>5. UNCHANGED <<listed, msg, born, blobs>>
  BY DEF PersistReplace
<1>6. /\ tmp' = tmp \/ tmp' = Blank("absent")
      /\ file' = file \/ file' = tmp
  BY DEF PersistReplace
<1>7. (FileInv(file) /\ FileInv(tmp))' /\ file' \in File /\ tmp' \in File
  BY <1>5, <1>6, BlankInv
     DEF StoreInv, StoreTypeOK, FileInv, ListsInv, EntryInv, Saved
<1>. QED  BY <1>3, <1>4, <1>5, <1>7, UnlockedInv DEF StoreInv, StoreTypeOK

LEMMA PersistErrorInv ==
  ASSUME StoreInv, NEW t \in Thread, PersistError(t)
  PROVE  StoreInv'
<1>1. call \in [Thread -> Call] /\ call' = [call EXCEPT ![t] = Idle]
  BY DEF PersistError, StoreInv, StoreTypeOK
<1>2. call' \in [Thread -> Call]
  BY <1>1 DEF Idle, Call
<1>3. \A u \in Thread : /\ call'[u].snap = call[u].snap \/ call'[u].snap = {}
                        /\ call'[u].todo \subseteq call[u].todo
                        /\ call'[u].pc # "evict" => call'[u].todo = {}
  BY <1>1 DEF Idle, StoreInv, PendingInv
<1>4. UNCHANGED <<listed, msg, born, blobs>>
  BY DEF PersistError
<1>5. /\ tmp' = tmp \/ tmp' = Blank("broken")
      /\ file' = file \/ file' = Blank("broken")
  BY DEF PersistError
<1>6. (FileInv(file) /\ FileInv(tmp))' /\ file' \in File /\ tmp' \in File
  BY <1>4, <1>5, BlankInv
     DEF StoreInv, StoreTypeOK, FileInv, ListsInv, EntryInv, Saved
<1>. QED  BY <1>2, <1>3, <1>4, <1>6, UnlockedInv DEF StoreInv, StoreTypeOK

(* After a restart the lists are what messages.json held.                  *)
LEMMA RestartInv ==
  ASSUME StoreInv, Restart
  PROVE  StoreInv'
<1> DEFINE S == DOMAIN file.entries
<1>1. /\ listed' = S /\ UNCHANGED <<born, blobs, file>>
      /\ tmp' = Blank("absent") /\ call' = [t \in Thread |-> Idle]
  BY DEF Restart
<1>2. S \subseteq Message /\ \A m \in S : file.entries[m] \in Entry
  BY DEF StoreInv, StoreTypeOK, File
<1>3. OrderInv' /\ ListsInv(listed)' /\ Saved' = Saved
  BY <1>1 DEF StoreInv, FileInv, OrderInv, ListsInv, Saved
<1>4. ASSUME NEW m \in Message
      PROVE  msg'[m] \in Entry /\ EntryInv(m, msg[m])'
  BY <1>2 DEF Restart, StoreInv, StoreTypeOK, FileInv, EntryInv
<1>5. msg' \in [Message -> Entry] /\ call' \in [Thread -> Call]
  BY <1>1, <1>4 DEF Restart, Idle, Call
<1>6. FileInv(file)' /\ FileInv(tmp)' /\ tmp' \in File
  <2>1. ASSUME NEW m \in S
        PROVE  /\ EntryInv(m, file.entries[m])
               /\ file.entries[m].state \in Upto(msg'[m].state)
    <3>1. m \in Message /\ EntryInv(m, file.entries[m])
      BY <1>2 DEF StoreInv, FileInv
    <3>2. msg'[m] = file.entries[m]
      BY <3>1 DEF Restart
    <3>. QED  BY <3>1, <3>2 DEF EntryInv, Upto, OutState, InState
  <2>2. FileInv(file)'
    BY <2>1, <1>1, <1>3 DEF StoreInv, FileInv, EntryInv
  <2>3. tmp' \in File /\ FileInv(tmp)'
    <3>1. DOMAIN <<>> = {} /\ ListsInv({})'
      BY <1>1, FS_EmptySet, StoreAssumption DEF ListsInv
    <3>. QED  BY <3>1, <1>1, BlankInv DEF FileInv, Blank
  <2>. QED  BY <2>2, <2>3
<1>7. \A t \in Thread : (ListsInv(call[t].snap) /\ PendingInv(call[t]))'
  BY SMTT(30), <1>1, FS_EmptySet, StoreAssumption DEF Idle, ListsInv, PendingInv
<1>. QED
  BY <1>1, <1>2, <1>3, <1>4, <1>5, <1>6, <1>7 DEF StoreInv, StoreTypeOK

-----------------------------------------------------------------------------
(* The store's own specification.                                          *)

LEMMA StoreNextInv == StoreInv /\ [StoreNext]_storeVars => StoreInv'
<1>1. CASE UNCHANGED storeVars
  BY ZenonT(30), <1>1 DEF storeVars, StoreInv, StoreTypeOK, OrderInv, EntryInv, ListsInv,
              FileInv, PendingInv, Saved
<1>2. ASSUME StoreInv, StoreNext PROVE StoreInv'
  <2>1. CASE \E m \in Message : WriteBlob(m)
    BY <1>2, <2>1, WriteBlobInv
  <2>2. ASSUME NEW t \in Thread, NEW m \in Message, NEW att \in BOOLEAN,
               SaveSent(t, m, att) \/ SaveReceived(t, m, att)
        PROVE  StoreInv'
    BY <1>2, <2>2, SaveInv
  <2>3. ASSUME NEW t \in Thread, NEW m \in Outbound,
               \/ UpdateSent(t, FirstId(m), "failed", FirstId(m))
               \/ UpdateSent(t, FirstId(m), "delivered", <<m, "hash">>)
        PROVE  StoreInv'
    BY <1>2, <2>3, UpdateSentInv
  <2>4. ASSUME NEW t \in Thread, NEW m \in Message,
               \/ DeleteConversation(t, PeerOf[m], OwnerOf[m])
               \/ MarkRead(t, FirstId(m), OwnerOf[m])
        PROVE  StoreInv'
    BY <1>2, <2>4, DeleteConversationInv, MarkReadInv
  <2>5. ASSUME NEW t \in Thread,
               Evict(t) \/ PersistStep(t) \/ PersistError(t)
        PROVE  StoreInv'
    BY <1>2, <2>5, EvictInv, PersistOpenInv, PersistWriteInv,
       PersistReplaceInv, PersistErrorInv DEF PersistStep
  <2>6. CASE Restart
    BY <1>2, <2>6, RestartInv
  <2>7. ASSUME NEW t \in Thread, NEW id \in Id, EvictFails(t, id)
        PROVE  StoreInv'
    BY <1>2, <2>7, EvictFailsInv
  <2>. QED  BY <1>2, <2>1, <2>2, <2>3, <2>4, <2>5, <2>6, <2>7
            DEF StoreNext, Running, Message
<1>. QED  BY <1>1, <1>2

(* The invariant of the store, for every instance of its constants.        *)
THEOREM StoreInvariant == StoreSpec => []StoreInv
<1>1. StoreInit => StoreInv
  BY InitInv
<1>2. StoreInv /\ [StoreNext]_storeVars => StoreInv'
  BY StoreNextInv
<1>. QED  BY <1>1, <1>2, PTL DEF StoreSpec

(* No step, of whichever thread, removes the blobs of a listed message.    *)
LEMMA BlobsKept ==
  ASSUME StoreInv, [StoreNext]_storeVars, NEW m \in listed,
         msg[m].id \in blobs
  PROVE  msg[m].id \in blobs'
<1>1. CASE blobs \subseteq blobs'
  BY <1>1
<1>2. ASSUME NEW t \in Thread, Evict(t) PROVE msg[m].id \in blobs'
  <2>1. PICK id \in call[t].todo : blobs' = blobs \ {id}
    BY <1>2 DEF Evict
  <2>2. id[1] \notin listed
    BY <2>1 DEF StoreInv, PendingInv
  <2>3. msg[m].id[1] = m
    BY DEF StoreInv, StoreTypeOK, EntryInv
  <2>. QED  BY <2>1, <2>2, <2>3
<1>3. blobs \subseteq blobs' \/ \E t \in Thread : Evict(t)
  BY DEF StoreNext, Running, storeVars, WriteBlob, SaveSent, SaveReceived, Save,
         UpdateSent, DeleteConversation, MarkRead, EvictFails, PersistStep, PersistOpen,
         PersistWrite, PersistReplace, PersistError, Restart
<1>. QED  BY <1>1, <1>2, <1>3

-----------------------------------------------------------------------------
(* The invariant: the store's, and how far each message has come against   *)
(* what the store and the disk hold of it.                                 *)

CallersTypeOK ==
    /\ phase \in [Message -> Phase]
    /\ sending \in [Thread -> Outbound \cup {NoMessage}]
    /\ crashes \in 0..MaxCrashes
    /\ errors \in 0..MaxErrors
    /\ reports \in [Outbound -> 0..MaxReports]
    /\ requests \in 0..MaxRequests

(* Blobs are on disk before the message is saved, and a message is saved   *)
(* once.                                                                   *)
UnsavedInv(m) ==
    /\ phase[m] \in {"new", "attached", "bare"} => m \notin Saved
    /\ phase[m] = "attached" => FirstId(m) \in blobs

(* Until LXMF has a message, the blobs it lists are where _deliver will    *)
(* look.                                                                   *)
UnsentInv(m) ==
    /\ phase[m] \in {"saved", "started"} /\ m \in listed =>
         /\ msg[m].state # "delivered"
         /\ msg[m].att => FirstId(m) \in blobs
    /\ phase[m] = "stripped" => m \notin listed \/ ~msg[m].att

HandlingInv ==
    /\ \A m \in Message : UnsavedInv(m)
    /\ \A m \in Outbound : UnsentInv(m)
    /\ \A t \in Thread : sending[t] \in Outbound =>
         /\ phase[sending[t]] = "saved"
         /\ \A u \in Thread : sending[u] = sending[t] => u = t

Inv == StoreInv /\ CallersTypeOK /\ HandlingInv /\ NoInboundOrphans

-----------------------------------------------------------------------------
(* Every step of the callers is one of the running store, or leaves it     *)
(* alone, or is the crash that restarts it.                                *)
LEMMA NextRunsStore ==
  ASSUME Inv, Next, ~Crash
  PROVE  (Running \/ UNCHANGED storeVars) /\ UNCHANGED crashes
<1>2. ASSUME NEW m \in Message, Attach(m)
      PROVE  Running \/ UNCHANGED storeVars
  BY <1>2 DEF Attach, Running
<1>3. ASSUME NEW m \in Outbound, HandOver(m)
      PROVE  Running \/ UNCHANGED storeVars
  BY <1>3 DEF HandOver
<1>4. ASSUME NEW t \in Thread, NEW m \in Message,
             \/ SaveSent(t, m, phase[m] = "attached")
             \/ SaveReceived(t, m, phase[m] = "attached")
      PROVE  Running
  <2>1. (phase[m] = "attached") \in BOOLEAN
    OBVIOUS
  <2>2. (phase[m] = "attached") => FirstId(m) \in blobs
    BY DEF Inv, HandlingInv, UnsavedInv
  <2>. QED  BY <1>4, <2>1, <2>2 DEF Running
<1>5. ASSUME NEW t \in Thread, NEW m \in Outbound,
             \/ Report(t, m, "failed", FirstId(m))
             \/ Report(t, m, "delivered", <<m, "hash">>)
      PROVE  Running \/ UNCHANGED storeVars
  BY <1>5 DEF Report, Running
<1>6. ASSUME NEW t \in Thread, NEW m \in Message, ConversationDelete(t, m)
      PROVE  Running
  BY <1>6 DEF ConversationDelete, Running
<1>7. ASSUME NEW t \in Thread, NEW m \in Inbound, MessageMarkRead(t, m)
      PROVE  Running
  BY <1>7 DEF MessageMarkRead, Running
<1>8. ASSUME NEW t \in Thread, Continue(t) \/ Return(t)
      PROVE  Running
  BY <1>8 DEF Continue, Return, Running, PersistStep
<1>9. UNCHANGED crashes
  BY DEF Next, counters, Attach, HandOver, SendSave, GiveUp, Delivered, Failed,
         Callback, OnDeliverySave, MessageMarkRead, ConversationDelete, Request,
         Continue, EvictError, Return
<1>10. ASSUME NEW t \in Thread, EvictError(t)
       PROVE  Running
  BY <1>10 DEF EvictError, Running
<1>. QED
  BY <1>2, <1>3, <1>4, <1>5, <1>6, <1>7, <1>8, <1>9, <1>10
  DEF Next, SendSave, OnDeliverySave, GiveUp, Delivered, Failed, Callback,
      Message

LEMMA NextIsStoreStep == Inv /\ [Next]_vars => [StoreNext]_storeVars
<1>1. Inv /\ Next /\ ~Crash => Running \/ UNCHANGED storeVars
  BY NextRunsStore
<1>. QED  BY <1>1 DEF vars, StoreNext, Crash

-----------------------------------------------------------------------------
(* Initial states, and the callers' own variables.                         *)

LEMMA InitCallers == Init => Inv
<1>1. SUFFICES ASSUME Init PROVE Inv
  OBVIOUS
<1>2. StoreInv
  BY <1>1, InitInv DEF Init
<1>3. CallersTypeOK
  BY <1>1, MessagingAssumption DEF Init, CallersTypeOK, Phase
<1>4. \A m \in Message : UnsavedInv(m)
  BY <1>1 DEF Init, StoreInit, UnsavedInv, Saved
<1>5. \A m \in Outbound : UnsentInv(m)
  BY <1>1 DEF Init, UnsentInv, Message
<1>6. \A t \in Thread : sending[t] \notin Outbound
  BY <1>1, MessagingAssumption DEF Init, Message
<1>7. NoInboundOrphans
  BY <1>1 DEF Init, StoreInit, NoInboundOrphans
<1>. QED  BY <1>2, <1>3, <1>4, <1>5, <1>6, <1>7 DEF Inv, HandlingInv

LEMMA CallersType == Inv /\ [Next]_vars => CallersTypeOK'
<1>1. SUFFICES ASSUME Inv, Next PROVE CallersTypeOK'
  BY DEF vars, counters, Inv, CallersTypeOK
<1>2. \A m \in Message, p \in Phase :
        Become(m, p) => phase' \in [Message -> Phase]
  BY <1>1 DEF Inv, CallersTypeOK, Become
<1>3. Outbound \subseteq Message /\ Inbound \subseteq Message
  BY DEF Message
<1>4. ASSUME NEW m \in Message, Attach(m) PROVE CallersTypeOK'
  BY <1>1, <1>2, <1>4 DEF Attach, counters, Inv, CallersTypeOK, Phase
<1>5. ASSUME NEW m \in Outbound, HandOver(m) PROVE CallersTypeOK'
  <2>1. /\ errors' = errors \/ (errors < MaxErrors /\ errors' = errors + 1)
        /\ UNCHANGED <<sending, crashes, reports, requests>>
    BY <1>5 DEF HandOver
  <2>2. \E p \in Phase : Become(m, p)
    BY <1>5 DEF HandOver, Phase, Out
  <2>3. phase' \in [Message -> Phase]
    BY <1>2, <1>3, <2>2
  <2>. QED  BY <1>1, <2>1, <2>3, MessagingAssumption DEF Inv, CallersTypeOK
<1>6. ASSUME NEW t \in Thread, NEW m \in Outbound, SendSave(t, m)
      PROVE  CallersTypeOK'
  BY <1>1, <1>2, <1>3, <1>6
  DEF SendSave, counters, Inv, CallersTypeOK, Phase
<1>7. ASSUME NEW t \in Thread, NEW m \in Inbound, OnDeliverySave(t, m)
      PROVE  CallersTypeOK'
  BY <1>1, <1>2, <1>3, <1>7
  DEF OnDeliverySave, counters, Inv, CallersTypeOK, Phase
<1>8. ASSUME NEW t \in Thread, NEW m \in Outbound, GiveUp(t, m)
      PROVE  CallersTypeOK'
  BY <1>1, <1>2, <1>3, <1>8
  DEF GiveUp, counters, Inv, CallersTypeOK, Phase
<1>9. ASSUME NEW t \in Thread, NEW m \in Outbound,
             Delivered(t, m) \/ Failed(t, m)
      PROVE  CallersTypeOK'
  <2>1. /\ UNCHANGED <<phase, sending, crashes, errors, requests>>
        /\ reports[m] < MaxReports
        /\ reports' = [reports EXCEPT ![m] = @ + 1]
    BY <1>9 DEF Delivered, Failed, Callback
  <2>. QED  BY <1>1, <2>1, MessagingAssumption DEF Inv, CallersTypeOK
<1>10. ASSUME NEW t \in Thread, NEW m \in Message,
              ConversationDelete(t, m) \/ MessageMarkRead(t, m)
       PROVE  CallersTypeOK'
  BY <1>1, <1>10, MessagingAssumption
  DEF ConversationDelete, MessageMarkRead, Request, Inv, CallersTypeOK
<1>11. ASSUME NEW t \in Thread, Continue(t) PROVE CallersTypeOK'
  BY <1>1, <1>11 DEF Continue, counters, Inv, CallersTypeOK
<1>12. ASSUME NEW t \in Thread, Return(t) PROVE CallersTypeOK'
  BY <1>1, <1>12, MessagingAssumption
  DEF Return, Inv, CallersTypeOK, Phase
<1>13. CASE Crash
  BY <1>1, <1>13, MessagingAssumption DEF Crash, Inv, CallersTypeOK, Phase
<1>14. ASSUME NEW t \in Thread, EvictError(t) PROVE CallersTypeOK'
  <2>1. \/ UNCHANGED phase
        \/ \E m \in Inbound : Become(m, "stuck")
    BY <1>14 DEF EvictError
  <2>2. phase' \in [Message -> Phase]
    BY <1>1, <1>2, <1>3, <2>1 DEF Phase, Inv, CallersTypeOK
  <2>. QED  BY <1>1, <1>14, <2>2, MessagingAssumption
            DEF EvictError, Inv, CallersTypeOK
<1>. QED
  BY <1>1, <1>3, <1>4, <1>5, <1>6, <1>7, <1>8, <1>9, <1>10, <1>11, <1>12,
     <1>13, <1>14 DEF Next

-----------------------------------------------------------------------------
(* The handling of each message, action by action.                         *)

(* A step that saves nothing, lists nothing new, leaves the ids, states    *)
(* and phases of the messages not yet handed over and the blobs of those   *)
(* not yet saved or still listed alone.                                    *)
LEMMA HandlingKept ==
  ASSUME Inv, Saved' = Saved, listed' \subseteq listed, UNCHANGED sending,
         \A m \in Message :
           phase'[m] = phase[m] \/ (phase[m] = "started" /\ phase'[m] = "over"),
         \A m \in Outbound :
           m \in listed =>
             /\ msg'[m].att = msg[m].att
             /\ phase[m] \in {"saved", "started"} /\ msg[m].state # "delivered"
                  => phase'[m] = "over" \/ msg'[m].state # "delivered",
         \A m \in Message :
           FirstId(m) \in blobs /\ (m \notin Saved \/ m \in listed) =>
             FirstId(m) \in blobs'
  PROVE  HandlingInv'
<1>1. \A m \in Message : UnsavedInv(m)'
  BY DEF Inv, HandlingInv, UnsavedInv, FirstId
<1>2. ASSUME NEW m \in Outbound PROVE UnsentInv(m)'
  <2>1. UnsentInv(m) /\ m \in Message
    BY DEF Inv, HandlingInv, Message
  <2>. QED  BY <2>1 DEF UnsentInv, FirstId
<1>3. ASSUME NEW t \in Thread, sending'[t] \in Outbound
      PROVE  /\ phase'[sending'[t]] = "saved"
             /\ \A u \in Thread : sending'[u] = sending'[t] => u = t
  BY <1>3 DEF Inv, HandlingInv, Message
<1>. QED  BY <1>1, <1>2, <1>3 DEF HandlingInv

LEMMA AttachHandling ==
  ASSUME Inv, NEW m \in Message, Attach(m)
  PROVE  HandlingInv' /\ NoInboundOrphans'
<1>1. /\ phase[m] = "new" /\ UNCHANGED <<listed, msg, born, call, crashes>>
      /\ UNCHANGED sending /\ Saved' = Saved
      /\ \/ blobs' = blobs \cup {FirstId(m)} /\ Become(m, "attached")
         \/ blobs' = blobs /\ Become(m, "bare")
  BY DEF Attach, WriteBlob, storeVars, counters, Saved
<1>2. /\ \A k \in Message \ {m} : phase'[k] = phase[k]
      /\ phase'[m] \in {"attached", "bare"}
      /\ phase'[m] = "attached" => blobs' = blobs \cup {FirstId(m)}
      /\ phase'[m] = "bare" => blobs' = blobs
  BY <1>1 DEF Become, Inv, CallersTypeOK
<1>3. \A k \in Message : UnsavedInv(k)'
  BY <1>1, <1>2 DEF Inv, HandlingInv, UnsavedInv, FirstId
<1>4. \A k \in Outbound : UnsentInv(k)'
  BY <1>1, <1>2 DEF Inv, HandlingInv, UnsentInv, FirstId, Message
<1>5. \A t \in Thread : sending'[t] \in Outbound =>
        /\ phase'[sending'[t]] = "saved"
        /\ \A u \in Thread : sending'[u] = sending'[t] => u = t
  BY <1>1, <1>2 DEF Inv, HandlingInv, Message
<1>6. NoInboundOrphans'
  <2>1. \A k \in Inbound : <<k, "hash">> \in blobs' =>
          <<k, "hash">> \in blobs \/ (k = m /\ phase'[m] = "attached")
    BY <1>1, <1>2 DEF FirstId
  <2>. QED  BY <1>1, <1>2, <2>1 DEF Inv, NoInboundOrphans, Message
<1>. QED  BY <1>3, <1>4, <1>5, <1>6 DEF HandlingInv

LEMMA HandOverHandling ==
  ASSUME Inv, NEW m \in Outbound, HandOver(m)
  PROVE  HandlingInv' /\ NoInboundOrphans'
<1>1. /\ phase[m] = "started" /\ UNCHANGED <<storeVars, sending, crashes>>
      /\ \E p \in Out : /\ phase' = [phase EXCEPT ![m] = p]
                        /\ p = "stripped" => ~(msg[m].att /\ FirstId(m) \in blobs)
  BY DEF HandOver, Become, Out
<1>2. /\ \A k \in Message \ {m} : phase'[k] = phase[k]
      /\ phase'[m] \in Out
      /\ phase'[m] = "stripped" => ~(msg[m].att /\ FirstId(m) \in blobs)
  BY <1>1 DEF Inv, CallersTypeOK, Message
<1>3. \A k \in Message : UnsavedInv(k)'
  BY <1>1, <1>2 DEF Inv, HandlingInv, UnsavedInv, FirstId, storeVars, Saved, Out
<1>4. \A k \in Outbound : UnsentInv(k)'
  BY <1>1, <1>2 DEF Inv, HandlingInv, UnsentInv, FirstId, storeVars, Message, Out
<1>5. \A t \in Thread : sending'[t] \in Outbound =>
        /\ phase'[sending'[t]] = "saved"
        /\ \A u \in Thread : sending'[u] = sending'[t] => u = t
  BY <1>1, <1>2 DEF Inv, HandlingInv, Message
<1>6. NoInboundOrphans'
  BY <1>1, <1>2, StoreAssumption
  DEF Inv, NoInboundOrphans, storeVars, counters, Message
<1>. QED  BY <1>3, <1>4, <1>5, <1>6 DEF HandlingInv

(* What saving m does to the lists, the dicts and the blobs.               *)
LEMMA SaveEffect ==
  ASSUME StoreInv, NEW t \in Thread, NEW m \in Message, NEW att \in BOOLEAN,
         SaveSent(t, m, att) \/ SaveReceived(t, m, att)
  PROVE  /\ m \notin Saved /\ Saved' = Saved \cup {m} /\ blobs' = blobs
         /\ m \in listed' /\ listed' \subseteq listed \cup {m}
         /\ msg'[m].att = att /\ msg'[m].state # "delivered"
         /\ \A k \in Message \ {m} : msg'[k] = msg[k]
         /\ \A u \in Thread : call[u].todo \subseteq call'[u].todo
         /\ \A k \in listed \ listed' : msg[k].id \in call'[t].todo
<1>1. PICK box \in {Outbound, Inbound}, state \in {"queued", "unread"} :
        Save(t, m, att, box, state)
  BY DEF SaveSent, SaveReceived
<1> DEFINE S    == (listed \cap box) \cup {m}
           kept == Newest(S, born')
           gone == (listed \cap box) \ kept
<1>2. /\ m \in box \ Saved /\ call[t].pc = "idle"
      /\ born' = [born EXCEPT ![m] = Cardinality(Saved) + 1]
      /\ msg' = [msg EXCEPT ![m] =
                   [id |-> FirstId(m), state |-> state, att |-> att]]
      /\ listed' = (listed \ box) \cup kept
      /\ Begin(t, EvictedIds(gone), listed')
      /\ UNCHANGED blobs
  BY <1>1 DEF Save
<1>3. IsFiniteSet(Saved) /\ Cardinality(Saved) \in Nat
  BY MessageFinite, FS_Subset, FS_CardinalityType DEF Saved
<1>4. /\ born' \in [Message -> Nat] /\ born'[m] = Cardinality(Saved) + 1
      /\ \A k \in Message \ {m} : born'[k] = born[k]
  BY <1>2, <1>3 DEF StoreInv, StoreTypeOK
<1>5. Saved' = Saved \cup {m}
  BY <1>3, <1>4 DEF Saved
<1>6. m \in kept
  <2>1. S \subseteq Message /\ S \ {m} \subseteq Saved
    BY DEF StoreInv, StoreTypeOK, ListsInv
  <2>2. \A k \in S : born'[k] <= born'[m]
    BY <1>3, <1>4, <2>1 DEF StoreInv, OrderInv, StoreTypeOK
  <2>. QED  BY <1>4, <2>1, <2>2, NewestKeepsLast
<1>7. listed' \subseteq listed \cup {m}
  BY <1>2 DEF Newest
<1>8. \A u \in Thread : call[u].todo \subseteq call'[u].todo
  BY <1>2 DEF Begin, StoreInv, StoreTypeOK, PendingInv
<1>9. \A k \in listed \ listed' : msg[k].id \in call'[t].todo
  <2>1. listed \ listed' = gone
    BY <1>2
  <2>2. call'[t].todo = EvictedIds(gone)
    BY <1>2 DEF Begin, StoreInv, StoreTypeOK
  <2>. QED  BY <2>1, <2>2 DEF EvictedIds, Ids
<1>. QED  BY <1>2, <1>5, <1>6, <1>7, <1>8, <1>9 DEF StoreInv, StoreTypeOK

LEMMA SaveHandling ==
  ASSUME Inv, NEW t \in Thread, NEW m \in Message,
         (SendSave(t, m) /\ m \in Outbound) \/ OnDeliverySave(t, m)
  PROVE  HandlingInv' /\ NoInboundOrphans'
<1>1. /\ phase[m] \in {"attached", "bare"} /\ Become(m, "saved")
      /\ \/ SaveSent(t, m, phase[m] = "attached")
         \/ SaveReceived(t, m, phase[m] = "attached")
      /\ \/ m \in Outbound /\ sending' = [sending EXCEPT ![t] = m]
         \/ UNCHANGED sending
      /\ UNCHANGED crashes
  BY DEF SendSave, OnDeliverySave, counters
<1>2. /\ \A k \in Message \ {m} : phase'[k] = phase[k]
      /\ phase'[m] = "saved"
  BY <1>1 DEF Become, Inv, CallersTypeOK
<1>3. /\ m \notin Saved /\ Saved' = Saved \cup {m} /\ blobs' = blobs
      /\ m \in listed' /\ listed' \subseteq listed \cup {m}
      /\ msg'[m].att = (phase[m] = "attached") /\ msg'[m].state # "delivered"
      /\ \A k \in Message \ {m} : msg'[k] = msg[k]
      /\ \A u \in Thread : call[u].todo \subseteq call'[u].todo
      /\ \A k \in listed \ listed' : msg[k].id \in call'[t].todo
  BY <1>1, SaveEffect DEF Inv
<1>4. \A k \in Message : UnsavedInv(k)'
  BY <1>2, <1>3 DEF Inv, HandlingInv, UnsavedInv, FirstId
<1>5. ASSUME NEW k \in Outbound PROVE UnsentInv(k)'
  <2>1. k \in Message
    BY DEF Message
  <2>2. CASE k = m
    BY <1>1, <1>2, <1>3, <2>1, <2>2
    DEF Inv, HandlingInv, UnsavedInv, UnsentInv, FirstId
  <2>3. CASE k # m
    BY <1>2, <1>3, <2>1, <2>3 DEF Inv, HandlingInv, UnsentInv, FirstId
  <2>. QED  BY <2>2, <2>3
<1>6. ASSUME NEW u \in Thread, sending'[u] \in Outbound
      PROVE  /\ phase'[sending'[u]] = "saved"
             /\ \A v \in Thread : sending'[v] = sending'[u] => v = u
  <2>1. \A v \in Thread : sending[v] # m
    BY <1>1, MessagingAssumption DEF Inv, HandlingInv, CallersTypeOK
  <2>. QED  BY <1>1, <1>2, <1>6, <2>1
            DEF Inv, HandlingInv, CallersTypeOK, Message
<1>7. NoInboundOrphans'
  <2>1. ASSUME NEW k \in Inbound, crashes = 0, <<k, "hash">> \in blobs
        PROVE  \/ k \in listed' \/ phase'[k] \in {"attached", "stuck"}
               \/ \E u \in Thread : <<k, "hash">> \in call'[u].todo
    <3>1. k \in Message
      BY DEF Message
    <3>2. CASE k = m
      BY <1>3, <3>2
    <3>3. CASE k # m /\ k \in listed
      <4>1. msg[k].id = <<k, "hash">>
        BY <3>1, StoreAssumption DEF Inv, StoreInv, EntryInv
      <4>. QED  BY <1>3, <3>3, <4>1
    <3>4. CASE k # m /\ k \notin listed
      BY <1>2, <1>3, <2>1, <3>1, <3>4 DEF Inv, NoInboundOrphans
    <3>. QED  BY <3>2, <3>3, <3>4
  <2>. QED  BY <1>1, <1>3, <2>1 DEF NoInboundOrphans
<1>. QED  BY <1>4, <1>5, <1>6, <1>7 DEF HandlingInv

(* Steps that leave blobs alone and keep what is listed or pending.        *)
LEMMA OrphansKept ==
  ASSUME Inv, blobs' \subseteq blobs, UNCHANGED crashes,
         \A m \in Inbound : phase'[m] = phase[m],
         \A m \in Inbound : m \in listed \ listed' =>
           \E u \in Thread : <<m, "hash">> \in call'[u].todo,
         \A u \in Thread : \A id \in call[u].todo :
           id \in call'[u].todo \/ id \notin blobs'
  PROVE  NoInboundOrphans'
BY DEF Inv, NoInboundOrphans

LEMMA ReportHandling ==
  ASSUME Inv, NEW t \in Thread, NEW m \in Outbound,
         GiveUp(t, m) \/ Delivered(t, m) \/ Failed(t, m)
  PROVE  HandlingInv' /\ NoInboundOrphans'
<1>1. /\ UNCHANGED <<listed, born, blobs>> /\ Saved' = Saved
      /\ UNCHANGED <<sending, crashes>>
      /\ call' = call \/ (call[t].pc = "idle" /\ Begin(t, {}, listed))
  BY DEF GiveUp, Delivered, Failed, Callback, Report, UpdateSent, storeVars,
         counters, Saved
<1>2. \A u \in Thread : call[u].todo \subseteq call'[u].todo
  BY <1>1 DEF Begin, Inv, StoreInv, StoreTypeOK, PendingInv
<1>3. m \in Message /\ phase \in [Message -> Phase] /\ msg \in [Message -> Entry]
  BY DEF Message, Inv, CallersTypeOK, StoreInv, StoreTypeOK
<1>4. \/ phase[m] = "started" /\ phase' = [phase EXCEPT ![m] = "over"]
      \/ phase[m] \in Out /\ phase' = phase
  BY DEF GiveUp, Delivered, Failed, Callback, Become
<1>5. \A k \in Message : k # m /\ k \in listed => msg'[k] = msg[k]
  <2>1. \A k \in WithId(FirstId(m)) : k = m
    BY <1>3, StoreAssumption
    DEF WithId, FirstId, Inv, StoreInv, StoreTypeOK, EntryInv, Message
  <2>2. \E state, realId : Report(t, m, state, realId)
    BY DEF GiveUp, Delivered, Failed, Callback
  <2>3. \/ msg' = msg
        \/ \E j \in WithId(FirstId(m)) : \E s, i :
             msg' = [msg EXCEPT ![j].state = s, ![j].id = i]
    BY <2>2 DEF Report, UpdateSent, storeVars
  <2>. QED  BY <1>3, <2>1, <2>3
<1>6. m \in listed => msg'[m].att = msg[m].att
  <2>1. \/ msg' = msg
        \/ \E k \in Message, s \in OutState, i \in Id :
             msg' = [msg EXCEPT ![k].state = s, ![k].id = i]
    BY <1>3 DEF GiveUp, Delivered, Failed, Callback, Report, UpdateSent,
         storeVars, WithId, Message, OutState, Id, FirstId
  <2>2. ASSUME NEW k \in Message, NEW s \in OutState, NEW i \in Id,
               msg' = [msg EXCEPT ![k].state = s, ![k].id = i]
        PROVE  msg'[m].att = msg[m].att
    BY <1>3, <2>2 DEF Entry
  <2>. QED  BY <2>1, <2>2
<1>7. \A k \in Message : phase'[k] = phase[k]
                         \/ (phase[k] = "started" /\ phase'[k] = "over")
  BY <1>3, <1>4
<1>8. \A k \in Outbound :
        k \in listed =>
          /\ msg'[k].att = msg[k].att
          /\ phase[k] \in {"saved", "started"} /\ msg[k].state # "delivered"
               => phase'[k] = "over" \/ msg'[k].state # "delivered"
  BY <1>3, <1>4, <1>5, <1>6 DEF Message, Out
<1>9. HandlingInv'
  BY <1>1, <1>7, <1>8, HandlingKept
<1>10. NoInboundOrphans'
  BY <1>1, <1>2, <1>3, <1>4, OrphansKept, StoreAssumption DEF Message
<1>. QED  BY <1>9, <1>10

LEMMA RequestHandling ==
  ASSUME Inv, NEW t \in Thread, NEW m \in Message,
         ConversationDelete(t, m) \/ MessageMarkRead(t, m)
  PROVE  HandlingInv' /\ NoInboundOrphans'
<1>1. /\ UNCHANGED <<born, blobs, phase, sending, crashes>> /\ Saved' = Saved
      /\ call[t].pc = "idle" /\ listed' \subseteq listed
  BY DEF ConversationDelete, MessageMarkRead, Request, DeleteConversation,
         MarkRead, Saved
<1>2. \A u \in Thread : call[u].todo \subseteq call'[u].todo
  BY <1>1 DEF ConversationDelete, MessageMarkRead, DeleteConversation,
     MarkRead, Begin, Inv, StoreInv, StoreTypeOK, PendingInv
<1>3. \A k \in listed \ listed' : msg[k].id \in call'[t].todo
  BY DEF ConversationDelete, MessageMarkRead, DeleteConversation, MarkRead,
         Begin, EvictedIds, Ids, Inv, StoreInv, StoreTypeOK
<1>4. \A k \in Outbound : msg'[k] = msg[k]
  BY StoreAssumption
  DEF ConversationDelete, MessageMarkRead, DeleteConversation, MarkRead,
      Message, Inv, StoreInv, StoreTypeOK
<1>5. HandlingInv'
  BY <1>1, <1>4, HandlingKept
<1>6. \A k \in Inbound : msg[k].id = <<k, "hash">>
  BY StoreAssumption DEF Inv, StoreInv, EntryInv, Message
<1>7. NoInboundOrphans'
  BY <1>1, <1>2, <1>3, <1>6, OrphansKept
<1>. QED  BY <1>5, <1>7

LEMMA ContinueHandling ==
  ASSUME Inv, NEW t \in Thread, Continue(t)
  PROVE  HandlingInv' /\ NoInboundOrphans'
<1>1. /\ UNCHANGED <<listed, msg, born, phase, sending, crashes>>
      /\ Saved' = Saved /\ blobs' \subseteq blobs
  BY DEF Continue, Evict, PersistOpen, PersistWrite, counters, Saved
<1>2. call \in [Thread -> Call] /\ call[t] \in Call
  BY DEF Inv, StoreInv, StoreTypeOK
<1>3. /\ \A m \in Message :
           FirstId(m) \in blobs /\ (m \notin Saved \/ m \in listed) =>
             FirstId(m) \in blobs'
      /\ \A u \in Thread : \A id \in call[u].todo :
           id \in call'[u].todo \/ id \notin blobs'
  <2>1. CASE Evict(t)
    <3>1. PICK id \in call[t].todo :
            /\ blobs' = blobs \ {id}
            /\ call' = [call EXCEPT ![t].todo = @ \ {id},
                                    ![t].pc = IF call[t].todo = {id}
                                              THEN "open" ELSE "evict"]
      BY <2>1 DEF Evict
    <3>2. id[1] \in Saved /\ id[1] \notin listed
      BY DEF Inv, StoreInv, PendingInv
    <3>3. /\ call'[t].todo = call[t].todo \ {id}
          /\ \A u \in Thread \ {t} : call'[u] = call[u]
      BY <1>2, <3>1 DEF Call
    <3>4. \A m \in Message : FirstId(m)[1] = m
      BY DEF FirstId
    <3>. QED  BY <3>1, <3>2, <3>3, <3>4
  <2>2. CASE PersistOpen(t) \/ PersistWrite(t)
    <3>1. blobs' = blobs
      BY <2>2 DEF PersistOpen, PersistWrite
    <3>2. call'[t].todo = call[t].todo
      BY <1>2, <2>2 DEF PersistOpen, PersistWrite, Call
    <3>3. \A u \in Thread \ {t} : call'[u] = call[u]
      BY <1>2, <2>2 DEF PersistOpen, PersistWrite
    <3>. QED  BY <3>1, <3>2, <3>3
  <2>. QED  BY <2>1, <2>2 DEF Continue
<1>4. HandlingInv'
  BY <1>1, <1>3, HandlingKept
<1>5. NoInboundOrphans'
  BY <1>1, <1>3, OrphansKept DEF Message
<1>. QED  BY <1>4, <1>5

LEMMA EvictErrorHandling ==
  ASSUME Inv, NEW t \in Thread, EvictError(t)
  PROVE  HandlingInv' /\ NoInboundOrphans'
<1>1. PICK id \in Id :
        /\ EvictFails(t, id)
        /\ IF id[1] \in Inbound THEN Become(id[1], "stuck") ELSE UNCHANGED phase
  BY DEF EvictError
<1>2. /\ UNCHANGED <<listed, msg, born, blobs, sending, crashes>>
      /\ Saved' = Saved /\ id \in call[t].todo
  BY <1>1 DEF EvictError, EvictFails, Saved
<1>3. id[1] \in Saved \ listed
  BY <1>2 DEF Inv, StoreInv, PendingInv
<1>4. /\ phase \in [Message -> Phase] /\ id = <<id[1], id[2]>>
      /\ id[1] \in Message
  BY DEF Inv, CallersTypeOK, Id
<1>5. /\ \A k \in Message \ {id[1]} : phase'[k] = phase[k]
      /\ id[1] \in Inbound => phase'[id[1]] = "stuck"
      /\ id[1] \notin Inbound => phase' = phase
  BY <1>1, <1>4 DEF Become
<1>6. \A k \in Outbound : phase'[k] = phase[k]
  BY <1>5, StoreAssumption DEF Message
<1>7. \A k \in Message : UnsavedInv(k)'
  BY <1>2, <1>3, <1>5 DEF Inv, HandlingInv, UnsavedInv, FirstId
<1>8. \A k \in Outbound : UnsentInv(k)'
  BY <1>2, <1>6 DEF Inv, HandlingInv, UnsentInv, FirstId
<1>9. \A u \in Thread : sending'[u] \in Outbound =>
        /\ phase'[sending'[u]] = "saved"
        /\ \A v \in Thread : sending'[v] = sending'[u] => v = u
  BY <1>2, <1>6 DEF Inv, HandlingInv
<1>10. NoInboundOrphans'
  <2>1. call \in [Thread -> Call] /\ call[t] \in Call
    BY DEF Inv, StoreInv, StoreTypeOK
  <2>2. /\ \A u \in Thread \ {t} : call'[u] = call[u]
        /\ call'[t].todo = call[t].todo \ {id}
    BY <1>1, <2>1 DEF EvictFails, Call
  <2>3. ASSUME NEW k \in Inbound, crashes = 0, <<k, "hash">> \in blobs
        PROVE  \/ k \in listed \/ phase'[k] \in {"attached", "stuck"}
               \/ \E u \in Thread : <<k, "hash">> \in call'[u].todo
    <3>1. \/ k \in listed \/ phase[k] \in {"attached", "stuck"}
          \/ \E u \in Thread : <<k, "hash">> \in call[u].todo
      BY <2>3 DEF Inv, NoInboundOrphans
    <3>2. CASE k = id[1]
      BY <1>5, <3>2
    <3>3. CASE k # id[1]
      <4>1. <<k, "hash">> # id
        BY <3>3
      <4>2. phase'[k] = phase[k]
        BY <1>5, <3>3 DEF Message
      <4>. QED  BY <2>2, <3>1, <4>1, <4>2
    <3>. QED  BY <3>2, <3>3
  <2>. QED  BY <1>2, <2>3 DEF NoInboundOrphans
<1>. QED  BY <1>7, <1>8, <1>9, <1>10 DEF HandlingInv

LEMMA ReturnHandling ==
  ASSUME Inv, NEW t \in Thread, Return(t)
  PROVE  HandlingInv' /\ NoInboundOrphans'
<1>1. /\ UNCHANGED <<listed, msg, born, blobs, crashes>> /\ Saved' = Saved
      /\ sending' = [sending EXCEPT ![t] = NoMessage]
      /\ phase' = [m \in Message |->
                     IF m = sending[t] THEN "started" ELSE phase[m]]
  BY DEF Return, PersistReplace, PersistError, Saved
<1>2. ASSUME NEW u \in Thread PROVE call[u].todo \subseteq call'[u].todo
  <2>1. call \in [Thread -> Call] /\ call[u] \in Call
    BY DEF Inv, StoreInv, StoreTypeOK
  <2>2. call[t].todo = {}
    BY DEF Return, PersistReplace, PersistError, Inv, StoreInv, PendingInv
  <2>3. \/ u = t
        \/ call'[u] = call[u]
        \/ call'[u] = [call[u] EXCEPT !.fd = AfterRename(@)]
    BY <2>1 DEF Return, PersistReplace, PersistError
  <2>. QED  BY <2>1, <2>2, <2>3 DEF Call
<1>3. \A m \in Message : /\ m = sending[t] => phase[m] = "saved"
                         /\ m # sending[t] => phase'[m] = phase[m]
                         /\ m = sending[t] => phase'[m] = "started"
  BY <1>1, MessagingAssumption DEF Inv, HandlingInv, CallersTypeOK
<1>4. \A m \in Message : UnsavedInv(m)'
  BY <1>1, <1>3 DEF Inv, HandlingInv, UnsavedInv, FirstId
<1>5. ASSUME NEW m \in Outbound PROVE UnsentInv(m)'
  <2>1. UnsentInv(m) /\ m \in Message
    BY DEF Inv, HandlingInv, Message
  <2>. QED  BY <1>1, <1>3, <2>1 DEF UnsentInv, FirstId
<1>6. ASSUME NEW u \in Thread, sending'[u] \in Outbound
      PROVE  /\ phase'[sending'[u]] = "saved"
             /\ \A v \in Thread : sending'[v] = sending'[u] => v = u
  <2>1. u # t /\ sending'[u] = sending[u]
    BY <1>1, <1>6, MessagingAssumption DEF Inv, CallersTypeOK, Message
  <2>2. sending[u] # sending[t] /\ phase[sending[u]] = "saved"
    BY <1>6, <2>1 DEF Inv, HandlingInv
  <2>. QED  BY <1>1, <1>3, <1>6, <2>1, <2>2, MessagingAssumption
            DEF Inv, HandlingInv, CallersTypeOK, Message
<1>7. NoInboundOrphans'
  <2>1. \A m \in Inbound : phase'[m] = phase[m]
    BY <1>3, StoreAssumption, MessagingAssumption
    DEF Inv, CallersTypeOK, Message
  <2>. QED  BY <1>1, <1>2, <2>1, OrphansKept
<1>. QED  BY <1>4, <1>5, <1>6, <1>7 DEF HandlingInv

LEMMA CrashHandling ==
  ASSUME Inv, Crash
  PROVE  HandlingInv' /\ NoInboundOrphans'
<1>1. /\ UNCHANGED <<born, blobs>> /\ Saved' = Saved
      /\ phase' = [m \in Message |->
                     IF phase[m] = "new" THEN "new" ELSE "lost"]
      /\ sending' = [t \in Thread |-> NoMessage]
      /\ crashes' = crashes + 1
  BY DEF Crash, Restart, Saved
<1>2. crashes' # 0
  BY <1>1, MessagingAssumption DEF Inv, CallersTypeOK
<1>3. \A m \in Message : UnsavedInv(m)'
  BY <1>1 DEF Inv, HandlingInv, UnsavedInv
<1>4. \A m \in Outbound : UnsentInv(m)'
  BY <1>1 DEF UnsentInv, Message
<1>5. \A t \in Thread : sending'[t] \notin Outbound
  BY <1>1, MessagingAssumption DEF Message
<1>. QED  BY <1>2, <1>3, <1>4, <1>5 DEF HandlingInv, NoInboundOrphans

LEMMA NextInv == Inv /\ [Next]_vars => Inv'
<1>1. ASSUME Inv, UNCHANGED vars PROVE HandlingInv' /\ NoInboundOrphans'
  BY <1>1 DEF Inv, vars, storeVars, counters, HandlingInv, UnsavedInv,
     UnsentInv, NoInboundOrphans, Saved, FirstId
<1>2. ASSUME Inv, Next PROVE HandlingInv' /\ NoInboundOrphans'
  <2>1. Outbound \subseteq Message /\ Inbound \subseteq Message
    BY DEF Message
  <2>2. ASSUME NEW m \in Message, Attach(m)
        PROVE  HandlingInv' /\ NoInboundOrphans'
    BY <1>2, <2>2, AttachHandling
  <2>3. ASSUME NEW m \in Outbound, HandOver(m)
        PROVE  HandlingInv' /\ NoInboundOrphans'
    BY <1>2, <2>3, HandOverHandling
  <2>4. ASSUME NEW t \in Thread, NEW m \in Message,
               (SendSave(t, m) /\ m \in Outbound) \/ OnDeliverySave(t, m)
        PROVE  HandlingInv' /\ NoInboundOrphans'
    BY <1>2, <2>4, SaveHandling
  <2>5. ASSUME NEW t \in Thread, NEW m \in Outbound,
               GiveUp(t, m) \/ Delivered(t, m) \/ Failed(t, m)
        PROVE  HandlingInv' /\ NoInboundOrphans'
    BY <1>2, <2>5, ReportHandling
  <2>6. ASSUME NEW t \in Thread, NEW m \in Message,
               ConversationDelete(t, m) \/ MessageMarkRead(t, m)
        PROVE  HandlingInv' /\ NoInboundOrphans'
    BY <1>2, <2>6, RequestHandling
  <2>7. ASSUME NEW t \in Thread, Continue(t) \/ Return(t)
        PROVE  HandlingInv' /\ NoInboundOrphans'
    BY <1>2, <2>7, ContinueHandling, ReturnHandling
  <2>8. CASE Crash
    BY <1>2, <2>8, CrashHandling
  <2>9. ASSUME NEW t \in Thread, EvictError(t)
        PROVE  HandlingInv' /\ NoInboundOrphans'
    BY <1>2, <2>9, EvictErrorHandling
  <2>. QED  BY <1>2, <2>1, <2>2, <2>3, <2>4, <2>5, <2>6, <2>7, <2>8, <2>9
            DEF Next
<1>3. Inv /\ [Next]_vars => StoreInv'
  BY NextIsStoreStep, StoreNextInv DEF Inv
<1>. QED  BY <1>1, <1>2, <1>3, CallersType DEF Inv

-----------------------------------------------------------------------------
(* Every step of the portal's threads, and every crash, keeps what the     *)
(* store, the disk and each message's handling have to do with each other. *)
THEOREM Invariance == Spec => []Inv
<1>1. Init => Inv
  BY InitCallers
<1>. QED  BY <1>1, NextInv, PTL DEF Spec

(* Whatever interleaving of the portal's threads: every variable keeps its *)
(* type, and no list outgrows MAX_MESSAGES.                                *)
THEOREM TypeCorrect == Spec => []TypeOK
<1>1. Inv => TypeOK
  BY DEF Inv, StoreInv, ListsInv, CallersTypeOK, TypeOK
<1>. QED  BY <1>1, Invariance, PTL

(* No received blob is orphaned while the process runs.                    *)
THEOREM ReceivedBlobsOwned == Spec => []NoInboundOrphans
<1>1. Inv => NoInboundOrphans
  BY DEF Inv
<1>. QED  BY <1>1, Invariance, PTL

(* A message that is still in its list goes out with the attachments it    *)
(* lists, unless reading them fails.                                       *)
THEOREM AttachmentsGoOut == Spec => []AttachmentsTravel
<1>1. Inv => AttachmentsTravel
  BY DEF Inv, HandlingInv, UnsentInv, AttachmentsTravel
<1>. QED  BY <1>1, Invariance, PTL

(* No step of any thread takes away the blobs of a message in the lists.   *)
THEOREM BlobsOfListedStay == Spec => BlobsOfListedKept
<1>1. Inv /\ [Next]_vars =>
        [\A m \in listed : msg[m].id \in blobs => msg[m].id \in blobs']_vars
  BY NextIsStoreStep, BlobsKept DEF Inv
<1>. QED  BY <1>1, Invariance, PTL DEF Spec, BlobsOfListedKept

(* The callers of the store use it as MessageStore says it may be used.    *)
THEOREM UsesTheStore == Spec => StoreSpec
<1>1. Init => StoreInit
  BY DEF Init
<1>. QED  BY <1>1, NextIsStoreStep, Invariance, PTL DEF Spec, StoreSpec

-----------------------------------------------------------------------------
(* Messaging implements MessageLifecycle: step by step, what a user        *)
(* observes of the messages changes as the abstract life allows.           *)

st == [m \in Message |-> Status(m)]

LEMMA SameCardinality ==
  \A S : Lifecycle!Cardinality(S) = Cardinality(S)
BY Zenon DEF Lifecycle!Cardinality, Cardinality, Lifecycle!IsFiniteSet, IsFiniteSet

LEMMA StatusFacts ==
  ASSUME StoreInv
  PROVE  /\ Lifecycle!Message = Message
         /\ Lifecycle!Listed = listed
         /\ \A m \in Message :
              /\ m \notin Saved => st[m] = "none"
              /\ m \in listed =>
                   /\ st[m] = msg[m].state
                   /\ st[m] \in Lifecycle!Statuses(m)
              /\ m \in Saved \ listed => st[m] = "gone"
<1>1. Lifecycle!Message = Message
  BY DEF Lifecycle!Message, Message
<1>2. ASSUME NEW m \in Message
      PROVE  /\ m \notin Saved => st[m] = "none"
             /\ m \in listed => /\ st[m] = msg[m].state
                                /\ st[m] \in Lifecycle!Statuses(m)
             /\ m \in Saved \ listed => st[m] = "gone"
  <2>1. m \in listed => m \in Saved
    BY DEF StoreInv, ListsInv
  <2>2. EntryInv(m, msg[m])
    BY DEF StoreInv
  <2>. QED  BY <2>1, <2>2
    DEF st, Status, Saved, EntryInv, Lifecycle!Statuses, Lifecycle!OutStatus,
        Lifecycle!InStatus, OutState, InState
<1>3. Lifecycle!Listed = listed
  <2>1. \A m \in Message : m \notin listed => st[m] \in {"none", "gone"}
    BY <1>2
  <2>2. listed \subseteq Message
    BY DEF StoreInv, StoreTypeOK
  <2>. QED  BY <1>1, <1>2, <2>1, <2>2
    DEF Lifecycle!Listed, Lifecycle!Statuses, Lifecycle!OutStatus,
        Lifecycle!InStatus, st
<1>. QED  BY <1>1, <1>2, <1>3

LEMMA SaveArrives ==
  ASSUME StoreInv, StoreInv', NEW t \in Thread, NEW m \in Message,
         NEW att \in BOOLEAN, SaveSent(t, m, att) \/ SaveReceived(t, m, att)
  PROVE  Lifecycle!Arrive(m)
<1>1. PICK box \in {Outbound, Inbound}, state \in {"queued", "unread"} :
        /\ Save(t, m, att, box, state)
        /\ state = IF m \in Outbound THEN "queued" ELSE "unread"
        /\ box = IF m \in Outbound THEN Outbound ELSE Inbound
  BY StoreAssumption DEF SaveSent, SaveReceived, Save
<1> DEFINE S == (listed \cap box) \cup {m}
           K == (listed \cap box) \ Newest(S, born')
<1>2. /\ m \notin Saved /\ m \notin listed /\ S \subseteq Message
      /\ born' \in [Message -> Nat]
      /\ listed' = (listed \ box) \cup Newest(S, born')
      /\ \A k \in Message \ {m} : msg'[k] = msg[k]
      /\ msg'[m].state = state
  BY <1>1 DEF Save, StoreInv, StoreTypeOK, ListsInv
<1>3. /\ Saved' = Saved \cup {m} /\ m \in listed'
      /\ listed' \subseteq listed \cup {m}
  BY SaveEffect
<1>4. K \subseteq Lifecycle!Listed \cap Lifecycle!BoxOf(m)
  BY <1>1, StatusFacts DEF Lifecycle!BoxOf
<1>5. K # {} =>
        Lifecycle!Cardinality(Lifecycle!Listed \cap Lifecycle!BoxOf(m))
          >= MaxMessages
  <2>1. SUFFICES ASSUME NEW d \in K
                 PROVE  Cardinality(listed \cap box) >= MaxMessages
    BY <1>1, StatusFacts, SameCardinality DEF Lifecycle!BoxOf
  <2>2. d \in S \ Newest(S, born') /\ d # m
    BY <1>2
  <2>3. Cardinality(S \ {d}) >= MaxMessages
    BY <1>2, <2>2, NewestDropsFromFull
  <2>4. IsFiniteSet(listed \cap box) /\ IsFiniteSet(S)
    BY <1>2, MessageFinite, FS_Subset
  <2>5. Cardinality(listed \cap box) \in Nat
    BY <2>4, FS_CardinalityType
  <2>6. Cardinality(S) = Cardinality(listed \cap box) + 1
    <3>1. m \notin listed \cap box
      BY <1>2
    <3>. QED  BY <2>4, <3>1, FS_AddElement
  <2>7. Cardinality(S \ {d}) = Cardinality(S) - 1
    BY <2>2, <2>4, FS_RemoveElement
  <2>. QED  BY <2>3, <2>5, <2>6, <2>7
<1>6. st' = [k \in Message |->
               IF k \in K THEN "gone"
               ELSE IF k # m THEN st[k]
               ELSE IF m \in Outbound THEN "queued" ELSE "unread"]
  <2>1. ASSUME NEW k \in Message
        PROVE  st'[k] = IF k \in K THEN "gone"
                        ELSE IF k # m THEN st[k]
                        ELSE IF m \in Outbound THEN "queued" ELSE "unread"
    <3>1. CASE k = m
      BY <1>1, <1>2, <1>3, <3>1, StatusFacts DEF st, Status, Saved
    <3>2. CASE k # m /\ k \in K
      <4>1. k \in Saved' \ listed'
        BY <1>2, <1>3, <3>2 DEF StoreInv, ListsInv
      <4>. QED  BY <3>2, <4>1 DEF st, Status, Saved
    <3>3. CASE k # m /\ k \notin K
      <4>1. /\ k \in listed' <=> k \in listed
            /\ k \in Saved' <=> k \in Saved
            /\ msg'[k] = msg[k]
        BY <1>2, <1>3, <3>3
      <4>. QED  BY <3>3, <4>1 DEF st, Status, Saved
    <3>. QED  BY <3>1, <3>2, <3>3
  <2>. QED  BY <2>1 DEF st
<1>7. st[m] = "none" /\ Lifecycle!Message = Message
  BY <1>2, StatusFacts
<1>8. \E L \in SUBSET (Lifecycle!Listed \cap Lifecycle!BoxOf(m)) :
        /\ L # {} =>
             Lifecycle!Cardinality(Lifecycle!Listed \cap Lifecycle!BoxOf(m))
               >= MaxMessages
        /\ st' = [k \in Lifecycle!Message |->
                    IF k \in L THEN "gone"
                    ELSE IF k # m THEN st[k]
                    ELSE IF m \in Outbound THEN "queued" ELSE "unread"]
  BY <1>4, <1>5, <1>6, <1>7
<1>. QED  BY <1>7, <1>8, Zenon DEF Lifecycle!Arrive, st

LEMMA UpdateSettles ==
  ASSUME StoreInv, NEW t \in Thread, NEW m \in Outbound,
         \/ UpdateSent(t, FirstId(m), "failed", FirstId(m))
         \/ UpdateSent(t, FirstId(m), "delivered", <<m, "hash">>)
  PROVE  Lifecycle!Settle(m) \/ st' = st
<1>1. PICK state \in {"failed", "delivered"}, realId \in Id :
        UpdateSent(t, FirstId(m), state, realId)
  BY DEF FirstId, Id, Message
<1>2. PICK k \in WithId(FirstId(m)) :
         msg' = [msg EXCEPT ![k].state = state, ![k].id = realId]
  BY <1>1 DEF UpdateSent
<1>3. /\ k = m /\ m \in listed /\ m \in Message
      /\ msg[m].state \in OutState /\ msg[m].state # "delivered"
  BY <1>2, StoreAssumption
     DEF WithId, FirstId, StoreInv, StoreTypeOK, EntryInv, Message
<1>4. /\ msg'[m].state = state
      /\ \A j \in Message \ {m} : msg'[j] = msg[j]
  <2>1. msg \in [Message -> Entry] /\ msg[m] \in Entry
    BY <1>3 DEF StoreInv, StoreTypeOK
  <2>. QED  BY <1>2, <1>3, <2>1 DEF Entry
<1>5. UNCHANGED <<listed, born>> /\ m \in Saved
  BY <1>1, <1>3 DEF UpdateSent, StoreInv, ListsInv
<1>6. st[m] = msg[m].state /\ st' = [st EXCEPT ![m] = state]
  BY <1>3, <1>4, <1>5 DEF st, Status, Saved
<1>7. CASE st[m] = state
  BY <1>6, <1>7, <1>3 DEF st
<1>8. CASE st[m] # state
  <2>1. \/ st[m] \in {"queued", "failed"} /\ state = "delivered"
        \/ st[m] = "queued" /\ state = "failed"
    BY <1>3, <1>6, <1>8 DEF OutState
  <2>. QED  BY <1>6, <2>1 DEF Lifecycle!Settle, st
<1>. QED  BY <1>7, <1>8

LEMMA MarkReadReads ==
  ASSUME StoreInv, NEW t \in Thread, NEW m \in Inbound,
         MarkRead(t, FirstId(m), OwnerOf[m])
  PROVE  Lifecycle!Read(m) \/ st' = st
<1>1. FirstId(m) = <<m, "hash">> /\ m \in Message
  BY StoreAssumption DEF FirstId, Message
<1>2. \A k \in Inbound : msg[k].id = FirstId(m) => k = m
  BY <1>1, StoreAssumption DEF StoreInv, EntryInv, Message
<1>3. /\ \A k \in Message \ {m} : msg'[k] = msg[k]
      /\ \/ m \in listed /\ msg'[m] = [msg[m] EXCEPT !.state = "read"]
         \/ msg'[m] = msg[m]
  BY <1>1, <1>2 DEF MarkRead, StoreInv, StoreTypeOK
<1>4. UNCHANGED <<listed, born>>
  BY DEF MarkRead
<1>5. CASE m \in listed /\ msg'[m] = [msg[m] EXCEPT !.state = "read"]
  <2>1. msg[m] \in Entry /\ msg[m].state \in InState /\ m \in Saved
    BY <1>1, <1>5, StoreAssumption
    DEF StoreInv, StoreTypeOK, EntryInv, ListsInv
  <2>2. msg'[m].state = "read"
    BY <1>5, <2>1 DEF Entry
  <2>3. st[m] = msg[m].state /\ st' = [st EXCEPT ![m] = "read"]
    BY <1>1, <1>3, <1>4, <1>5, <2>1, <2>2 DEF st, Status, Saved
  <2>4. CASE msg[m].state = "read"
    BY <2>3, <2>4 DEF st
  <2>5. CASE msg[m].state = "unread"
    BY <2>3, <2>5 DEF Lifecycle!Read, st
  <2>. QED  BY <2>1, <2>4, <2>5 DEF InState
<1>6. CASE msg'[m] = msg[m]
  BY <1>3, <1>4, <1>6 DEF st, Status
<1>. QED  BY <1>3, <1>5, <1>6

LEMMA DeleteDeletes ==
  ASSUME StoreInv, NEW t \in Thread, NEW p, NEW o,
         DeleteConversation(t, p, o)
  PROVE  Lifecycle!Delete(p, o)
<1>1. /\ UNCHANGED <<msg, born>>
      /\ listed' = listed \ {m \in listed : PeerOf[m] = p /\ OwnerOf[m] = o}
  BY DEF DeleteConversation, Conversation
<1>2. Lifecycle!Message = Message /\ Lifecycle!Listed = listed
      /\ listed \subseteq Saved
  BY StatusFacts DEF StoreInv, ListsInv
<1>3. st' = [m \in Message |->
               IF m \in listed /\ PeerOf[m] = p /\ OwnerOf[m] = o
               THEN "gone" ELSE st[m]]
  BY <1>1, <1>2 DEF st, Status, Saved
<1>. QED  BY <1>2, <1>3 DEF Lifecycle!Delete, st

LEMMA RestartRestarts ==
  ASSUME StoreInv, StoreInv', Restart, crashes' = crashes + 1
  PROVE  Lifecycle!Restart
<1>1. UNCHANGED born /\ Saved' = Saved /\ listed' = DOMAIN file.entries
  BY DEF Restart, Saved
<1>2. ASSUME NEW m \in Message
      PROVE  CASE st[m] = "none" -> st'[m] = "none"
               [] st[m] = "gone" ->
                    st'[m] \in Lifecycle!Statuses(m) \cup {"gone"}
               [] OTHER -> st'[m] \in Lifecycle!Earlier(st[m]) \cup {"gone"}
  <2>1. /\ m \notin Saved => st[m] = "none" /\ st'[m] = "none"
        /\ m \in Saved \ listed => st[m] = "gone"
        /\ m \in listed => m \in Saved /\ st[m] = msg[m].state
                           /\ st[m] \in Lifecycle!Statuses(m)
    BY <1>1, StatusFacts DEF st, Status, Saved, StoreInv, ListsInv
  <2>2. m \in Saved => \/ st'[m] = "gone"
                       \/ m \in listed' /\ st'[m] = msg'[m].state
    BY <1>1 DEF st, Status, Saved
  <2>3. m \in listed' => /\ EntryInv(m, msg'[m])
                         /\ msg'[m].state \in Upto(msg[m].state)
    <3>1. m \in listed' => msg'[m] = file.entries[m]
      BY <1>1 DEF Restart
    <3>. QED  BY <3>1, <1>1 DEF StoreInv, FileInv
  <2>4. m \in listed' => msg'[m].state \in Lifecycle!Statuses(m)
    BY <2>3 DEF EntryInv, Lifecycle!Statuses, Lifecycle!OutStatus,
       Lifecycle!InStatus, OutState, InState
  <2>5. Upto(msg[m].state) = Lifecycle!Earlier(msg[m].state)
    BY DEF Upto, Lifecycle!Earlier, OutState, InState, Lifecycle!OutStatus,
           Lifecycle!InStatus
  <2>6. m \in listed => st[m] \notin {"none", "gone"}
    BY <2>1 DEF Lifecycle!Statuses, Lifecycle!OutStatus, Lifecycle!InStatus
  <2>7. CASE m \notin Saved
    BY <2>1, <2>7
  <2>8. CASE m \in Saved \ listed
    BY <2>1, <2>2, <2>4, <2>8
  <2>9. CASE m \in listed
    <3>1. st'[m] \in Lifecycle!Earlier(st[m]) \cup {"gone"}
      BY <2>1, <2>2, <2>3, <2>5, <2>9
    <3>. QED  BY <3>1, <2>6, <2>9
  <2>. QED  BY <2>7, <2>8, <2>9
<1>3. ASSUME NEW m \in Message
      PROVE  st'[m] \in {"none", "gone"} \cup Lifecycle!OutStatus
                                        \cup Lifecycle!InStatus
  <2>1. m \in listed' => EntryInv(m, msg'[m])
    BY DEF StoreInv
  <2>. QED  BY <2>1 DEF st, Status, EntryInv, Lifecycle!OutStatus,
       Lifecycle!InStatus, OutState, InState
<1>4. st' \in [Message -> {"none", "gone"} \cup Lifecycle!OutStatus
                                           \cup Lifecycle!InStatus]
  BY <1>3 DEF st
<1>. QED  BY <1>2, <1>4, StatusFacts DEF Lifecycle!Restart, st

LEMMA RunningRefines ==
  StoreInv /\ StoreInv' /\ (Running \/ UNCHANGED storeVars)
    /\ UNCHANGED crashes => Lifecycle!Next \/ st' = st
<1>1. SUFFICES ASSUME StoreInv, StoreInv', Running \/ UNCHANGED storeVars,
                      UNCHANGED crashes
               PROVE  Lifecycle!Next \/ st' = st
  OBVIOUS
<1>2. CASE UNCHANGED <<listed, msg, born>>
  BY <1>2 DEF st, Status
<1>3. ASSUME NEW t \in Thread, NEW m \in Message, NEW att \in BOOLEAN,
             SaveSent(t, m, att) \/ SaveReceived(t, m, att)
      PROVE  Lifecycle!Next
  BY <1>1, <1>3, SaveArrives, StatusFacts DEF Lifecycle!Next
<1>4. ASSUME NEW t \in Thread, NEW m \in Outbound,
             \/ UpdateSent(t, FirstId(m), "failed", FirstId(m))
             \/ UpdateSent(t, FirstId(m), "delivered", <<m, "hash">>)
      PROVE  Lifecycle!Next \/ st' = st
  BY <1>1, <1>4, UpdateSettles DEF Lifecycle!Next
<1>5. ASSUME NEW t \in Thread, NEW m \in Message,
             DeleteConversation(t, PeerOf[m], OwnerOf[m])
      PROVE  Lifecycle!Next
  BY <1>1, <1>5, DeleteDeletes, StatusFacts DEF Lifecycle!Next
<1>6. ASSUME NEW t \in Thread, NEW m \in Inbound,
             MarkRead(t, FirstId(m), OwnerOf[m])
      PROVE  Lifecycle!Next \/ st' = st
  BY <1>1, <1>6, MarkReadReads DEF Lifecycle!Next
<1>8. ASSUME NEW t \in Thread,
             Evict(t) \/ PersistStep(t) \/ PersistError(t)
      PROVE  UNCHANGED <<listed, msg, born>>
  BY <1>8 DEF Evict, PersistStep, PersistOpen, PersistWrite, PersistReplace,
     PersistError
<1>10. ASSUME NEW t \in Thread, NEW id \in Id, EvictFails(t, id)
       PROVE  UNCHANGED <<listed, msg, born>>
  BY <1>10 DEF EvictFails
<1>9. ASSUME NEW m \in Message, WriteBlob(m)
      PROVE  UNCHANGED <<listed, msg, born>>
  BY <1>9 DEF WriteBlob
<1>. QED  BY <1>1, <1>2, <1>3, <1>4, <1>5, <1>6, <1>8, <1>9, <1>10
          DEF Running, storeVars

(* Threads, shared dicts, two-key ids, evictions and crashes included, a   *)
(* message lives the life MessageLifecycle describes.                      *)
THEOREM Refinement == Spec => ImplementsLifecycle
<1>1. Init => Lifecycle!Init
  BY DEF Init, StoreInit, Lifecycle!Init, Status, Lifecycle!Message, Message
<1>2. Inv /\ Inv' /\ [Next]_vars =>
        [Lifecycle!Next]_<<[m \in Message |-> Status(m)], crashes>>
  <2>1. SUFFICES ASSUME Inv, Inv', [Next]_vars
                 PROVE  Lifecycle!Next \/ UNCHANGED <<st, crashes>>
    BY DEF st
  <2>2. CASE UNCHANGED vars
    BY <2>2 DEF vars, counters, storeVars, st, Status
  <2>3. CASE Crash
    BY <2>1, <2>3, RestartRestarts DEF Crash, Inv, Lifecycle!Next
  <2>4. CASE Next /\ ~Crash
    BY <2>1, <2>4, NextRunsStore, RunningRefines DEF Inv
  <2>. QED  BY <2>1, <2>2, <2>3, <2>4
<1>. QED
  BY <1>1, <1>2, Invariance, PTL
  DEF Spec, ImplementsLifecycle, Lifecycle!Spec, Lifecycle!lifecycleVars
=============================================================================
