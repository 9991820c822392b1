---------------------------- MODULE MessageStore ----------------------------
(***************************************************************************)
(* message_store.py and attachment_store.py: the lists of sent and         *)
(* received messages, messages.json, and the attachment blobs beside it.   *)
(*                                                                         *)
(* Every method edits the lists under the store's lock and copies them     *)
(* (one step here), and then, OUTSIDE the lock, evicts the blobs of the    *)
(* messages it removed, one directory at a time, and writes its copy to    *)
(* messages.json.tmp, which it renames over messages.json.  Those later    *)
(* steps of several threads interleave freely, on one temporary file name. *)
(*                                                                         *)
(* The module says who may call what only as far as the store itself needs *)
(* (a message is saved once); Messaging.tla adds the callers.              *)
(***************************************************************************)
EXTENDS Naturals, FiniteSets

CONSTANTS Thread,       \* threads inside the store at the same time, at most
          Outbound,     \* messages sent by a user of the portal
          Inbound,      \* messages received for a user of the portal
          Attached,     \* the messages that come with attachments
          PeerOf,       \* "dest" or "source" of each message
          OwnerOf,      \* "owner" of each message
          MaxMessages   \* MAX_MESSAGES

Message == Outbound \cup Inbound

ASSUME StoreAssumption ==
    /\ IsFiniteSet(Outbound) /\ IsFiniteSet(Inbound)
    /\ Outbound \cap Inbound = {}
    /\ Attached \subseteq Message
    /\ MaxMessages \in Nat \ {0}

-----------------------------------------------------------------------------
(* A sent message is stored under a local uuid until LXMF confirms its     *)
(* delivery and then under its LXMF hash; a received one under its hash.   *)
(* Both name a blob directory.                                             *)
Id == Message \X {"local", "hash"}
FirstId(m) == IF m \in Outbound THEN <<m, "local">> ELSE <<m, "hash">>

OutState == {"queued", "failed", "delivered"}
InState  == {"unread", "read"}

(* The dict of one message: its "id", the "state" or "read" key, and       *)
(* whether it lists attachments.                                           *)
Entry == [id : Id, state : OutState \cup InState, att : BOOLEAN]

(* A JSON file: missing, truncated to nothing, unparseable, or the entries *)
(* of some set of messages.                                                *)
File == [form : {"absent", "empty", "broken"}, entries : {<<>>}]
          \cup [form : {"json"},
                entries : UNION {[S -> Entry] : S \in SUBSET Message}]
Blank(form)    == [form |-> form, entries |-> <<>>]
Json(entries)  == [form |-> "json", entries |-> entries]

VARIABLES
    listed,   \* the messages in _sent and _received
    msg,      \* the dicts, shared by the lists and by every copy of them
    born,     \* position of a message in the order of saving; 0: not saved
    blobs,    \* the ids whose blobs are on disk
    call,     \* what is left to do of the store call each thread is in
    file,     \* messages.json
    tmp       \* messages.json.tmp

storeVars == <<listed, msg, born, blobs, call, file, tmp>>

(* pc: the next step of the call.  todo: ids still to evict.  snap: the    *)
(* copied lists.  fd: which name the file the thread has open goes by.     *)
Call == [pc : {"idle", "evict", "open", "write", "replace"},
         todo : SUBSET Id, snap : SUBSET Message,
         fd : {"none", "tmp", "path", "unlinked"}]
Idle == [pc |-> "idle", todo |-> {}, snap |-> {}, fd |-> "none"]

StoreTypeOK ==
    /\ listed \subseteq Message
    /\ msg \in [Message -> Entry]
    /\ born \in [Message -> Nat]
    /\ blobs \subseteq Id
    /\ call \in [Thread -> Call]
    /\ file \in File
    /\ tmp \in File

StoreInit ==
    /\ listed = {}
    /\ msg = [m \in Message |->
                [id |-> FirstId(m), att |-> FALSE,
                 state |-> IF m \in Outbound THEN "queued" ELSE "unread"]]
    /\ born = [m \in Message |-> 0]
    /\ blobs = {}
    /\ call = [t \in Thread |-> Idle]
    /\ file = Blank("absent")
    /\ tmp = Blank("absent")

-----------------------------------------------------------------------------
(* The locked half of each method.                                         *)

Saved == {m \in Message : born[m] # 0}
Ids(S) == {msg[m].id : m \in S}

(* What the lock's holder leaves to do after releasing it.                 *)
Begin(t, ids, snapshot) ==
    call' = [call EXCEPT ![t] =
               [pc |-> IF ids = {} THEN "open" ELSE "evict",
                todo |-> ids, snap |-> snapshot, fd |-> "none"]]

(* The first MaxMessages of a list that is kept newest first.              *)
NewestOffByOne(S, order) ==
    {m \in S : Cardinality({k \in S : order[k] > order[m]}) <= MaxMessages}
OldestFirst(S, order) ==
    {m \in S : Cardinality({k \in S : order[k] < order[m]}) < MaxMessages}
Newest(S, order) ==
    {m \in S : Cardinality({k \in S : order[k] > order[m]}) < MaxMessages}

(* The ids whose blobs go when `gone` leaves the lists.                    *)
EvictNothing(gone) == {}
EvictAll(gone) == Ids(Saved)
EvictedIds(gone) == Ids(gone)

(* save_sent and save_received: insert at the front, cut the list, copy.   *)
Save(t, m, att, box, state) ==
    /\ call[t].pc = "idle"
    /\ m \in box \ Saved
    /\ born' = [born EXCEPT ![m] = Cardinality(Saved) + 1]
    /\ msg' = [msg EXCEPT ![m] =
                 [id |-> FirstId(m), state |-> state, att |-> att]]
    /\ LET kept == Newest((listed \cap box) \cup {m}, born')
           gone == (listed \cap box) \ kept
       IN /\ listed' = (listed \ box) \cup kept
          /\ Begin(t, EvictedIds(gone), listed')
    /\ UNCHANGED <<blobs, file, tmp>>

SaveSent(t, m, att) == Save(t, m, att, Outbound, "queued")
SaveReceived(t, m, att) == Save(t, m, att, Inbound, "unread")

(* update_sent: the first sent message stored under `id`, if there is one, *)
(* gets the state and, on delivery, its LXMF hash as its id.               *)
WithId(id) == {m \in listed \cap Outbound : msg[m].id = id}

UpdateSentKeepsId(t, id, state, realId) ==
    /\ call[t].pc = "idle"
    /\ \E m \in WithId(id) : msg' = [msg EXCEPT ![m].state = state]
    /\ Begin(t, {}, listed)
    /\ UNCHANGED <<listed, born, blobs, file, tmp>>
UpdateSent(t, id, state, realId) ==
    /\ call[t].pc = "idle"
    /\ \E m \in WithId(id) :
         msg' = [msg EXCEPT ![m].state = state, ![m].id = realId]
    /\ Begin(t, {}, listed)
    /\ UNCHANGED <<listed, born, blobs, file, tmp>>

(* delete_conversation: both lists lose what `owner` exchanged with `peer`.*)
ConversationOfAnyOwner(peer, owner) ==
    {m \in listed : PeerOf[m] = peer}
Conversation(peer, owner) ==
    {m \in listed : PeerOf[m] = peer /\ OwnerOf[m] = owner}

DeleteConversation(t, peer, owner) ==
    /\ call[t].pc = "idle"
    /\ listed' = listed \ Conversation(peer, owner)
    /\ Begin(t, EvictedIds(Conversation(peer, owner)), listed')
    /\ UNCHANGED <<msg, born, blobs, file, tmp>>

(* mark_read: writes the file even when no received message has that id.   *)
MarkRead(t, id, owner) ==
    /\ call[t].pc = "idle"
    /\ msg' = [m \in Message |->
                 IF m \in listed \cap Inbound /\ msg[m].id = id
                      /\ OwnerOf[m] = owner
                 THEN [msg[m] EXCEPT !.state = "read"] ELSE msg[m]]
    /\ Begin(t, {}, listed)
    /\ UNCHANGED <<listed, born, blobs, file, tmp>>

-----------------------------------------------------------------------------
(* The unlocked half.                                                      *)

(* AttachmentStore.write, before the message is saved.                     *)
WriteBlob(m) ==
    /\ m \in Attached \ Saved
    /\ blobs' = blobs \cup {FirstId(m)}
    /\ UNCHANGED <<listed, msg, born, call, file, tmp>>

(* AttachmentStore.evict for one of the ids evict_many was given.          *)
Evict(t) ==
    /\ call[t].pc = "evict"
    /\ \E id \in call[t].todo :
         /\ blobs' = blobs \ {id}
         /\ call' = [call EXCEPT ![t].todo = @ \ {id},
                                 ![t].pc = IF call[t].todo = {id}
                                           THEN "open" ELSE "evict"]
    /\ UNCHANGED <<listed, msg, born, file, tmp>>

(* os.unlink raises: that is logged, the blobs stay, and the call goes on  *)
(* with the next id.                                                       *)
EvictFails(t, id) ==
    /\ call[t].pc = "evict"
    /\ id \in call[t].todo \cap blobs
    /\ call' = [call EXCEPT ![t].todo = @ \ {id},
                            ![t].pc = IF call[t].todo = {id}
                                      THEN "open" ELSE "evict"]
    /\ UNCHANGED <<listed, msg, born, blobs, file, tmp>>

(* open(tmp, "w") creates the file, or truncates the one another thread is *)
(* still writing.                                                          *)
PersistOpen(t) ==
    /\ call[t].pc = "open"
    /\ tmp' = Blank("empty")
    /\ call' = [call EXCEPT ![t].pc = "write", ![t].fd = "tmp"]
    /\ UNCHANGED <<listed, msg, born, blobs, file>>

(* What a file holds after t writes `text` from its start: over the bytes  *)
(* of another writer, or while one is still writing, the two may show      *)
(* through each other.                                                     *)
Contested(t, old, text) ==
    \/ old.form # "empty" /\ old # text
    \/ \E u \in Thread \ {t} : call[u].pc = "write" /\ call[u].fd = call[t].fd
Outcome(t, old, text) ==
    {text} \cup (IF Contested(t, old, text) THEN {Blank("broken")} ELSE {})

(* json.dump of the copied lists, whose dicts are those of the live ones.  *)
PersistWrite(t) ==
    /\ call[t].pc = "write"
    /\ call' = [call EXCEPT ![t].pc = "replace"]
    /\ LET text == Json([m \in call[t].snap |-> msg[m]])
       IN /\ IF call[t].fd = "tmp" THEN tmp' \in Outcome(t, tmp, text)
                                   ELSE UNCHANGED tmp
          /\ IF call[t].fd = "path" THEN file' \in Outcome(t, file, text)
                                    ELSE UNCHANGED file
    /\ UNCHANGED <<listed, msg, born, blobs>>

(* Where an open file ends up when messages.json.tmp is renamed.           *)
AfterRename(fd) ==
    CASE fd = "tmp"  -> "path"
      [] fd = "path" -> "unlinked"
      [] OTHER       -> fd

(* os.replace; when another thread has already renamed the temporary file  *)
(* it raises, and _persist only logs that.                                 *)
PersistReplace(t) ==
    /\ call[t].pc = "replace"
    /\ IF tmp.form = "absent"
       THEN /\ call' = [call EXCEPT ![t] = Idle]
            /\ UNCHANGED <<file, tmp>>
       ELSE /\ file' = tmp
            /\ tmp' = Blank("absent")
            /\ call' = [u \in Thread |->
                          IF u = t THEN Idle
                          ELSE [call[u] EXCEPT !.fd = AfterRename(@)]]
    /\ UNCHANGED <<listed, msg, born, blobs>>

(* A failing open or write ends the call without a word to its caller.     *)
PersistError(t) ==
    /\ call[t].pc \in {"open", "write"}
    /\ call' = [call EXCEPT ![t] = Idle]
    /\ tmp' = IF call[t].fd = "tmp" THEN Blank("broken") ELSE tmp
    /\ file' = IF call[t].fd = "path" THEN Blank("broken") ELSE file
    /\ UNCHANGED <<listed, msg, born, blobs>>

(* The process dies and a new one loads messages.json: every call is cut   *)
(* off where it stood, and a file that does not parse counts as empty.  No *)
(* one reads the temporary file it left before truncating it.              *)
Restart ==
    /\ listed' = DOMAIN file.entries
    /\ msg' = [m \in Message |->
                 IF m \in DOMAIN file.entries THEN file.entries[m] ELSE msg[m]]
    /\ call' = [t \in Thread |-> Idle]
    /\ tmp' = Blank("absent")
    /\ UNCHANGED <<born, blobs, file>>

PersistStep(t) == PersistOpen(t) \/ PersistWrite(t) \/ PersistReplace(t)

(* What the store does while the process runs.                             *)
Running ==
    \/ \E m \in Message : WriteBlob(m)
    \/ \E t \in Thread :
         \/ \E m \in Message, att \in BOOLEAN :
              /\ att => FirstId(m) \in blobs
              /\ SaveSent(t, m, att) \/ SaveReceived(t, m, att)
         \/ \E m \in Outbound :
              \/ UpdateSent(t, FirstId(m), "failed", FirstId(m))
              \/ UpdateSent(t, FirstId(m), "delivered", <<m, "hash">>)
         \/ \E m \in Message : DeleteConversation(t, PeerOf[m], OwnerOf[m])
         \/ \E m \in Inbound : MarkRead(t, FirstId(m), OwnerOf[m])
         \/ Evict(t) \/ \E id \in Id : EvictFails(t, id)
         \/ PersistStep(t)
         \/ PersistError(t)

StoreNext == Running \/ Restart

StoreSpec == StoreInit /\ [][StoreNext]_storeVars

=============================================================================
