----------------------------- MODULE Messaging ------------------------------
(***************************************************************************)
(* messaging.py and the message routes of routes.py on top of              *)
(* MessageStore: who calls the store, from which thread, in which order.   *)
(*                                                                         *)
(* A request thread runs _send: it writes the blobs, saves the entry as    *)
(* "queued" and, when that call has returned, starts a delivery thread.    *)
(* That thread waits for the recipient's identity, reads the blobs back    *)
(* and hands the message to the LXMF router, which calls back, from its    *)
(* own threads and at any later time, with "delivered" or "failed".  An    *)
(* LXMF thread also runs _on_delivery, and request threads delete          *)
(* conversations and mark messages read meanwhile.                         *)
(*                                                                         *)
(* LXMF is external.  Assumed of it: it reports on a message only after it *)
(* was handed over, at least once; a report may come twice, and a proof of *)
(* delivery may come after the message was given up (the packet receipts   *)
(* outlive the attempts).  It delivers each inbound message once.          *)
(***************************************************************************)
EXTENDS MessageStore

CONSTANTS NoMessage,    \* the value of sending[t] outside _send
          MaxCrashes,   \* bound: how often the process may die
          MaxErrors,    \* bound: how often the disk fails
          MaxReports,   \* bound: LXMF's reports on one message
          MaxRequests   \* bound: deletions and read marks

ASSUME MessagingAssumption ==
    /\ NoMessage \notin Message
    /\ MaxCrashes \in Nat /\ MaxErrors \in Nat /\ MaxRequests \in Nat
    /\ MaxReports \in Nat \ {0}

VARIABLES
    phase,    \* how far the handling of each message has come
    sending,  \* the message each thread is running _send for
    crashes,  \* restarts so far
    errors,   \* failed writes, reads and evictions so far
    reports,  \* LXMF's reports on each message so far
    requests  \* deletions and read marks so far

counters == <<crashes, errors, reports, requests>>
vars == <<storeVars, phase, sending, counters>>

(* new: not begun.  attached, bare: its blobs are (not) written.  saved:   *)
(* save_sent or save_received was called.  started: the delivery thread    *)
(* runs.  handed: the router has it as its sender gave it.  stripped,      *)
(* unread: the router has it without its attachments, because they were    *)
(* not there or because reading them failed.  over: it was given up before.*)
(* stuck: evicting the blobs of this received message failed.  lost: a     *)
(* crash ended its handling.                                               *)
Out == {"handed", "stripped", "unread"}
Phase == {"new", "attached", "bare", "saved", "started",
          "over", "stuck", "lost"} \cup Out

TypeOK ==
    /\ StoreTypeOK
    /\ \A box \in {Outbound, Inbound} :
         Cardinality(listed \cap box) <= MaxMessages
    /\ phase \in [Message -> Phase]
    /\ sending \in [Thread -> Outbound \cup {NoMessage}]
    /\ crashes \in 0..MaxCrashes
    /\ errors \in 0..MaxErrors
    /\ reports \in [Outbound -> 0..MaxReports]
    /\ requests \in 0..MaxRequests

Init ==
    /\ StoreInit
    /\ phase = [m \in Message |-> "new"]
    /\ sending = [t \in Thread |-> NoMessage]
    /\ crashes = 0
    /\ errors = 0
    /\ reports = [m \in Outbound |-> 0]
    /\ requests = 0

Become(m, p) == phase' = [phase EXCEPT ![m] = p]

-----------------------------------------------------------------------------
(* _send and _on_delivery, up to the call of save_sent or save_received.   *)

Attach(m) ==
    /\ phase[m] = "new"
    /\ \/ WriteBlob(m) /\ Become(m, "attached")
       \/ UNCHANGED storeVars /\ Become(m, "bare")
    /\ UNCHANGED <<sending, counters>>

SendSave(t, m) ==
    /\ phase[m] \in {"attached", "bare"}
    /\ SaveSent(t, m, phase[m] = "attached")
    /\ Become(m, "saved")
    /\ sending' = [sending EXCEPT ![t] = m]
    /\ UNCHANGED counters

OnDeliverySave(t, m) ==
    /\ phase[m] \in {"attached", "bare"}
    /\ SaveReceived(t, m, phase[m] = "attached")
    /\ Become(m, "saved")
    /\ UNCHANGED <<sending, counters>>

(* The last step of a store call.  If the caller is _send, it goes on to   *)
(* start the delivery thread.                                              *)
Return(t) ==
    /\ \/ PersistReplace(t) /\ UNCHANGED errors
       \/ errors < MaxErrors /\ PersistError(t) /\ errors' = errors + 1
    /\ phase' = [m \in Message |->
                   IF m = sending[t] THEN "started" ELSE phase[m]]
    /\ sending' = [sending EXCEPT ![t] = NoMessage]
    /\ UNCHANGED <<crashes, reports, requests>>

-----------------------------------------------------------------------------
(* The delivery thread, and the router's callbacks.                        *)

(* update_sent returns at once when no sent message has that id.           *)
Report(t, m, state, realId) ==
    \/ UpdateSent(t, FirstId(m), state, realId)
    \/ WithId(FirstId(m)) = {} /\ UNCHANGED storeVars

(* PATH_WAIT passes without the recipient's identity, or building the      *)
(* message raises: the thread reports "failed" and ends.                   *)
GiveUpSilently(t, m) ==
    /\ phase[m] = "started"
    /\ UNCHANGED storeVars
    /\ Become(m, "over")
    /\ UNCHANGED <<sending, counters>>
GiveUp(t, m) ==
    /\ phase[m] = "started"
    /\ Report(t, m, "failed", FirstId(m))
    /\ Become(m, "over")
    /\ UNCHANGED <<sending, counters>>

(* The blobs the entry lists are read back under the local id.  Those that *)
(* were never written, are no longer there or cannot be read are left out, *)
(* and the message goes all the same.                                      *)
HandOver(m) ==
    /\ phase[m] = "started"
    /\ LET there == msg[m].att /\ FirstId(m) \in blobs
       IN \/ /\ Become(m, IF m \in Attached /\ ~there
                           THEN "stripped" ELSE "handed")
             /\ UNCHANGED errors
          \/ /\ there /\ errors < MaxErrors
             /\ errors' = errors + 1
             /\ Become(m, "unread")
    /\ UNCHANGED <<storeVars, sending, crashes, reports, requests>>

Callback(t, m, state, realId) ==
    /\ phase[m] \in Out
    /\ reports[m] < MaxReports
    /\ reports' = [reports EXCEPT ![m] = @ + 1]
    /\ Report(t, m, state, realId)
    /\ UNCHANGED <<phase, sending, crashes, errors, requests>>

Delivered(t, m) == Callback(t, m, "delivered", <<m, "hash">>)
Failed(t, m) == Callback(t, m, "failed", FirstId(m))

-----------------------------------------------------------------------------
(* The other requests, and the rest of a store call.                       *)

Request ==
    /\ requests < MaxRequests
    /\ requests' = requests + 1
    /\ UNCHANGED <<phase, sending, crashes, errors, reports>>

ConversationDelete(t, m) ==
    Request /\ DeleteConversation(t, PeerOf[m], OwnerOf[m])
MessageMarkRead(t, m) ==
    Request /\ MarkRead(t, FirstId(m), OwnerOf[m])

Continue(t) ==
    /\ Evict(t) \/ PersistOpen(t) \/ PersistWrite(t)
    /\ UNCHANGED <<phase, sending, counters>>

(* A message's blobs cannot be removed.                                    *)
EvictError(t) ==
    /\ errors < MaxErrors
    /\ errors' = errors + 1
    /\ \E id \in Id :
         /\ EvictFails(t, id)
         /\ IF id[1] \in Inbound THEN Become(id[1], "stuck")
                                 ELSE UNCHANGED phase
    /\ UNCHANGED <<sending, crashes, reports, requests>>

Crash ==
    /\ crashes < MaxCrashes
    /\ Restart
    /\ phase' = [m \in Message |-> IF phase[m] = "new" THEN "new" ELSE "lost"]
    /\ sending' = [t \in Thread |-> NoMessage]
    /\ crashes' = crashes + 1
    /\ UNCHANGED <<errors, reports, requests>>

Next ==
    \/ \E m \in Message : Attach(m)
    \/ \E m \in Outbound : HandOver(m)
    \/ \E t \in Thread, m \in Outbound :
         SendSave(t, m) \/ GiveUp(t, m) \/ Delivered(t, m) \/ Failed(t, m)
    \/ \E t \in Thread, m \in Inbound :
         OnDeliverySave(t, m) \/ MessageMarkRead(t, m)
    \/ \E t \in Thread, m \in Message : ConversationDelete(t, m)
    \/ \E t \in Thread : Continue(t) \/ EvictError(t) \/ Return(t)
    \/ Crash

(* A thread inside the store keeps running, whether the disk fails or not. *)
(* A delivery thread and an LXMF callback run on threads of their own, so  *)
(* others cannot keep them out of the store for ever: strong fairness,     *)
(* because Thread bounds how many calls run at once here and not in the    *)
(* code.                                                                   *)
Fairness ==
    /\ \A t \in Thread : WF_vars(Continue(t) \/ EvictError(t) \/ Return(t))
    /\ \A m \in Outbound :
         /\ SF_vars(\E t \in Thread : SendSave(t, m))
         /\ SF_vars(HandOver(m) \/ \E t \in Thread : GiveUp(t, m))
         /\ SF_vars(\E t \in Thread : Delivered(t, m) \/ Failed(t, m))

Spec == Init /\ [][Next]_vars /\ Fairness

-----------------------------------------------------------------------------
(* Properties.                                                             *)

(* What a user observes of each message.                                   *)
Status(m) ==
    IF born[m] = 0 THEN "none"
    ELSE IF m \in listed THEN msg[m].state
    ELSE "gone"

(* The threads, the shared dicts, the ids that change and the crashes       *)
(* implement the life of a message stated in MessageLifecycle: a late       *)
(* "failed" never overwrites "delivered", an update never brings a deleted  *)
(* message back, and only a full list pushes a message out.                 *)
Lifecycle == INSTANCE MessageLifecycle
                 WITH status <- [m \in Message |-> Status(m)],
                      restarts <- crashes
ImplementsLifecycle == Lifecycle!Spec

(* A blob directory is never removed while a message in the lists still    *)
(* names it, whichever threads evict, rename, save and delete meanwhile.   *)
BlobsOfListedKept ==
    [][\A m \in listed : msg[m].id \in blobs => msg[m].id \in blobs']_vars

(* Blobs are never missing under a message that shows them: when one goes  *)
(* out without the attachments its sender gave it, and reading them did    *)
(* not fail, then either its entry lists none, because writing them had    *)
(* failed, or it had been deleted or pushed out of the list before.        *)
AttachmentsTravel ==
    \A m \in Outbound :
      phase[m] = "stripped" => m \notin listed \/ ~msg[m].att

(* Received blobs are not orphaned: while the process has not crashed and  *)
(* no eviction is under way, each belongs to a listed message, to one      *)
(* about to be saved, or to one whose eviction failed                      *)
(* (message_store.py:29-33, "leaks attachment bytes").                     *)
NoInboundOrphans ==
    crashes = 0 =>
      \A m \in Inbound :
        <<m, "hash">> \in blobs =>
          \/ m \in listed
          \/ phase[m] \in {"attached", "stuck"}
          \/ \E t \in Thread : <<m, "hash">> \in call[t].todo

(* Every queued message is eventually reported delivered or failed, or is  *)
(* deleted, unless the process crashes: a "queued" bubble does not hang.   *)
QueuedSettles ==
    \A m \in Outbound :
      (m \in listed /\ msg[m].state = "queued")
        ~> (m \notin listed \/ msg[m].state # "queued" \/ crashes > 0)

(* message_store.py:1, "Persistent": when no call is under way and none    *)
(* has failed, messages.json holds the lists as they are in memory.  Two   *)
(* calls that share messages.json.tmp, or that write in another order than *)
(* they took the lock, break it.                                           *)
FileIsCurrent ==
    errors = 0 /\ crashes = 0 /\ (\A t \in Thread : call[t] = Idle) =>
      \/ file = Json([m \in listed |-> msg[m]])
      \/ listed = {} /\ file.form = "absent"

=============================================================================
