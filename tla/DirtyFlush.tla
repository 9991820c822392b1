----------------------------- MODULE DirtyFlush -----------------------------
(***************************************************************************)
(* A table of records that is written to disk in the background: the peers *)
(* of lxmf_tracker.py, and in the same form the nodes of browser.py.  A    *)
(* thread changes a record under the lock of the table, and marks the      *)
(* table dirty afterwards.  Two may flush it: the persist loop, and the    *)
(* exit handler while the loop may still be running.  A flush clears the   *)
(* mark, copies the dict, writes a temporary file of its own and renames   *)
(* it; it does not put the mark back when the write fails.                 *)
(*                                                                         *)
(* A record is its version: 0 is no record.                                *)
(***************************************************************************)
EXTENDS Naturals

CONSTANTS Key, Thread,
          Loop, Exit,   \* who flushes: the persist loop, the exit handler
          MaxVersion    \* bound: the changes of a record

VARIABLES
    mem,      \* the records
    dirty,    \* the mark
    marking,  \* threads that have changed a record and not marked it yet
    flush,    \* what each flush is at
    disk,     \* the file, as renamed last
    failed    \* history: the flush that cleared the mark last has failed

flushVars == <<mem, dirty, marking, flush, disk, failed>>

Version == 0..MaxVersion
Flusher == {Loop, Exit}
NoRecords == [k \in Key |-> 0]
Idle == [at |-> "idle", keys |-> {}, text |-> NoRecords]

TypeOK ==
    /\ mem \in [Key -> Version] /\ disk \in [Key -> Version]
    /\ dirty \in BOOLEAN /\ failed \in BOOLEAN
    /\ marking \subseteq Thread
    /\ flush \in [Flusher -> [at : {"idle", "copy", "write", "rename"},
                              keys : SUBSET Key, text : [Key -> Version]]]
    /\ \A k \in Key : disk[k] <= mem[k] /\ (\A w \in Flusher : flush[w].text[k] <= mem[k])

(* What the process starts with: _load. *)
LoadedEmpty(file) ==
    /\ mem' = NoRecords /\ disk' = file
    /\ dirty' = FALSE /\ failed' = FALSE /\ marking' = {}
    /\ flush' = [w \in Flusher |-> Idle]
Loaded(file) ==
    /\ mem' = file /\ disk' = file
    /\ dirty' = FALSE /\ failed' = FALSE /\ marking' = {}
    /\ flush' = [w \in Flusher |-> Idle]

Init ==
    /\ mem = NoRecords /\ disk = NoRecords
    /\ dirty = FALSE /\ failed = FALSE /\ marking = {}
    /\ flush = [w \in Flusher |-> Idle]

(* A change of record k under the lock; the mark comes in a later step. *)
ChangeUnmarked(t, k) ==
    /\ t \notin marking
    /\ mem[k] < MaxVersion
    /\ mem' = [mem EXCEPT ![k] = @ + 1]
    /\ UNCHANGED <<dirty, marking, flush, disk, failed>>
Change(t, k) ==
    /\ t \notin marking
    /\ mem[k] < MaxVersion
    /\ mem' = [mem EXCEPT ![k] = @ + 1]
    /\ marking' = marking \cup {t}
    /\ UNCHANGED <<dirty, flush, disk, failed>>

Mark(t) ==
    /\ t \in marking
    /\ dirty' = TRUE
    /\ marking' = marking \ {t}
    /\ UNCHANGED <<mem, flush, disk, failed>>

Clear(w) ==
    /\ flush[w] = Idle /\ dirty
    /\ dirty' = FALSE /\ failed' = FALSE
    /\ flush' = [flush EXCEPT ![w].at = "copy"]
    /\ UNCHANGED <<mem, marking, disk>>

(* dict(self._peers): the keys are copied, the records are shared. *)
Copy(w) ==
    /\ flush[w].at = "copy"
    /\ flush' = [flush EXCEPT ![w].at = "write", ![w].keys = {k \in Key : mem[k] > 0}]
    /\ UNCHANGED <<mem, dirty, marking, disk, failed>>

Write(w) ==
    /\ flush[w].at = "write"
    /\ flush' = [flush EXCEPT ![w] =
                   [at |-> "rename", keys |-> {},
                    text |-> [k \in Key |-> IF k \in @.keys THEN mem[k] ELSE 0]]]
    /\ UNCHANGED <<mem, dirty, marking, disk, failed>>

RenameAndClear(w) ==
    /\ flush[w].at = "rename"
    /\ disk' = flush[w].text
    /\ dirty' = FALSE
    /\ flush' = [flush EXCEPT ![w] = Idle]
    /\ UNCHANGED <<mem, marking, failed>>
Rename(w) ==
    /\ flush[w].at = "rename"
    /\ disk' = flush[w].text
    /\ flush' = [flush EXCEPT ![w] = Idle]
    /\ UNCHANGED <<mem, dirty, marking, failed>>

(* The disk is full, or a record grows while json.dump goes through it;    *)
(* _persist logs the exception and returns.                                *)
Fail(w) ==
    /\ flush[w].at \in {"write", "rename"}
    /\ failed' = TRUE
    /\ flush' = [flush EXCEPT ![w] = Idle]
    /\ UNCHANGED <<mem, dirty, marking, disk>>

FlushIfDirty(w) == Clear(w) \/ Copy(w) \/ Write(w) \/ Rename(w) \/ Fail(w)

Quiet == ~dirty /\ marking = {} /\ flush[Loop] = Idle

(* A table that is not marked, being marked or being flushed is on disk,   *)
(* unless its last flush failed: no change falls between the clearing of   *)
(* the mark and the copy.                                                  *)
CleanIsSaved == Quiet /\ ~failed => disk = mem
=============================================================================
