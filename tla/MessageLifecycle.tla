-------------------------- MODULE MessageLifecycle --------------------------
(***************************************************************************)
(* What a user of the portal may observe of a message, with no threads,    *)
(* locks, files or blobs: the promise that MessageStore is shown to keep.  *)
(*                                                                         *)
(* An outbound message is queued, then failed or delivered; a delivered    *)
(* one never changes again, while a failed one may still turn out to have  *)
(* been delivered (the proof came late).  An inbound message is unread,    *)
(* then read.  A message disappears when its conversation is deleted or    *)
(* when a newer one pushes it out of a FULL list, never otherwise.  Only a *)
(* restart may undo anything: it goes back to what messages.json held,     *)
(* which is never ahead of what the user saw, and restarts are counted, so *)
(* that no other step may pass for one.                                    *)
(***************************************************************************)
EXTENDS Naturals, FiniteSets

CONSTANTS Outbound,     \* messages sent by a user of the portal
          Inbound,      \* messages received for a user of the portal
          PeerOf,       \* the counterparty of each message
          OwnerOf,      \* the user each message belongs to
          MaxMessages   \* the length both lists are cut to

VARIABLES
    status,     \* what the user sees of each message
    restarts    \* how often the process has restarted

lifecycleVars == <<status, restarts>>

Message == Outbound \cup Inbound

OutStatus == {"queued", "failed", "delivered"}
InStatus  == {"unread", "read"}
Listed    == {m \in Message : status[m] \in OutStatus \cup InStatus}

BoxOf(m)   == IF m \in Outbound THEN Outbound ELSE Inbound
Statuses(m) == IF m \in Outbound THEN OutStatus ELSE InStatus

TypeOK ==
    /\ status \in [Message -> {"none", "gone"} \cup OutStatus \cup InStatus]
    /\ restarts \in Nat

Init == status = [m \in Message |-> "none"] /\ restarts = 0

(* A new message enters its list; K is what it pushes out of a full list.  *)
Arrive(m) ==
    /\ status[m] = "none"
    /\ \E K \in SUBSET (Listed \cap BoxOf(m)) :
         /\ K # {} => Cardinality(Listed \cap BoxOf(m)) >= MaxMessages
         /\ status' = [k \in Message |->
                         IF k \in K THEN "gone"
                         ELSE IF k # m THEN status[k]
                         ELSE IF m \in Outbound THEN "queued" ELSE "unread"]

Settle(m) ==
    \/ /\ status[m] \in {"queued", "failed"}
       /\ status' = [status EXCEPT ![m] = "delivered"]
    \/ /\ status[m] = "queued"
       /\ status' = [status EXCEPT ![m] = "failed"]

Read(m) ==
    /\ status[m] = "unread"
    /\ status' = [status EXCEPT ![m] = "read"]

(* Deleting a conversation takes away the deleting user's messages with    *)
(* that peer, all of them, and nobody else's.                              *)
Delete(p, o) ==
    status' = [m \in Message |->
                 IF m \in Listed /\ PeerOf[m] = p /\ OwnerOf[m] = o
                 THEN "gone" ELSE status[m]]

(* What a message with status s was before, or still is.                   *)
Earlier(s) ==
    CASE s = "failed"    -> {"queued", "failed"}
      [] s = "delivered" -> OutStatus
      [] s = "read"      -> InStatus
      [] OTHER           -> {s}

(* A message that arrived may be gone, or back at an earlier status; one   *)
(* that was gone may be back if its deletion had not reached the file.     *)
Restart ==
    /\ restarts' = restarts + 1
    /\ status' \in [Message -> {"none", "gone"} \cup OutStatus \cup InStatus]
    /\ \A m \in Message :
         CASE status[m] = "none" -> status'[m] = "none"
           [] status[m] = "gone" -> status'[m] \in Statuses(m) \cup {"gone"}
           [] OTHER -> status'[m] \in Earlier(status[m]) \cup {"gone"}

(* A repeated report, or one on a message that is gone, changes nothing.   *)
Ignore == UNCHANGED status

Next ==
    \/ /\ \/ Ignore
          \/ \E m \in Message : Arrive(m)
          \/ \E m \in Outbound : Settle(m)
          \/ \E m \in Inbound : Read(m)
          \/ \E m \in Message : Delete(PeerOf[m], OwnerOf[m])
       /\ UNCHANGED restarts
    \/ Restart

Spec == Init /\ [][Next]_lifecycleVars

=============================================================================
