-------------------------- MODULE DirtyFlushProofs --------------------------
(***************************************************************************)
(* Lemmas about one table with its mark and its flushes, for any records   *)
(* and threads.  RecordsProofs uses them twice, for peers and for nodes.   *)
(***************************************************************************)
EXTENDS DirtyFlush, TLAPS

FlushAssumption == MaxVersion \in Nat \ {0} /\ Loop # Exit

-----------------------------------------------------------------------------
(* The invariant while the loop alone flushes.                             *)

Unmarked == ~dirty /\ marking = {}

(* What a flush of an unmarked table is about to write is the table.       *)
CleanInv ==
    /\ CleanIsSaved
    /\ flush[Loop].at = "write" /\ Unmarked =>
         \A k \in Key : mem[k] > 0 => k \in flush[Loop].keys
    /\ flush[Loop].at = "rename" /\ Unmarked => flush[Loop].text = mem

(* What it is about to write is not older than the file.                   *)
ForwardInv ==
    /\ flush[Loop].at = "write" =>
         \A k \in Key : disk[k] > 0 => k \in flush[Loop].keys
    /\ flush[Loop].at = "rename" =>
         \A k \in Key : disk[k] <= flush[Loop].text[k]

LoopInv == CleanInv /\ ForwardInv /\ flush[Exit] = Idle

-----------------------------------------------------------------------------
LEMMA NoRecordsType ==
  ASSUME FlushAssumption
  PROVE  /\ NoRecords \in [Key -> Version]
         /\ Idle \in [at : {"idle", "copy", "write", "rename"},
                      keys : SUBSET Key, text : [Key -> Version]]
         /\ \A k \in Key : Idle.text[k] = 0
         /\ Idle.at = "idle"
BY DEF NoRecords, Idle, Version, FlushAssumption

(* A table just loaded, or empty at the first start, is on disk.           *)
LEMMA InitTable ==
  ASSUME FlushAssumption, Init
  PROVE  TypeOK /\ LoopInv
<1>1. flush = [w \in Flusher |-> Idle] /\ Loop \in Flusher /\ Exit \in Flusher
  BY DEF Init, Flusher
<1>2. TypeOK
  <2>1. dirty \in BOOLEAN /\ failed \in BOOLEAN /\ marking \subseteq Thread
    BY DEF Init
  <2>2. mem \in [Key -> Version] /\ disk \in [Key -> Version] /\ mem = NoRecords
    BY NoRecordsType DEF Init
  <2>3. \A k \in Key : mem[k] = 0 /\ disk[k] = 0
    BY DEF Init, NoRecords
  <2>4. flush \in [Flusher -> [at : {"idle", "copy", "write", "rename"},
                              keys : SUBSET Key, text : [Key -> Version]]]
    BY <1>1, NoRecordsType
  <2>5. \A k \in Key, w \in Flusher : flush[w].text[k] = 0
    BY <1>1, NoRecordsType
  <2>6. \A k \in Key : disk[k] <= mem[k] /\ (\A w \in Flusher : flush[w].text[k] <= mem[k])
    <3>1. ASSUME NEW k \in Key PROVE disk[k] <= mem[k]
      BY <2>3
    <3>2. ASSUME NEW k \in Key, NEW w \in Flusher PROVE flush[w].text[k] <= mem[k]
      BY <2>3, <2>5
    <3>. QED  BY <3>1, <3>2
  <2>. QED  BY <2>1, <2>2, <2>4, <2>6 DEF TypeOK
<1>. QED
  BY <1>1, <1>2, NoRecordsType DEF Init, LoopInv, CleanInv, ForwardInv, CleanIsSaved

LEMMA LoadedTable ==
  ASSUME FlushAssumption, TypeOK, Loaded(disk)
  PROVE  TypeOK' /\ LoopInv' /\ disk' = disk
<1>1. flush' = [w \in Flusher |-> Idle] /\ Loop \in Flusher /\ Exit \in Flusher
  BY DEF Loaded, Flusher
<1>2. TypeOK'
  <2>1. /\ dirty' \in BOOLEAN /\ failed' \in BOOLEAN
        /\ marking' \subseteq Thread
    <3>1. dirty' = FALSE /\ failed' = FALSE /\ marking' = {}
      BY DEF Loaded
    <3>. QED  BY <3>1
  <2>2. mem' \in [Key -> Version] /\ disk' \in [Key -> Version] /\ mem' = disk'
    BY DEF Loaded, TypeOK
  <2>3. flush' \in [Flusher -> [at : {"idle", "copy", "write", "rename"},
                               keys : SUBSET Key, text : [Key -> Version]]]
    BY <1>1, NoRecordsType
  <2>4. \A k \in Key, w \in Flusher : flush'[w].text[k] = 0
    BY <1>1, NoRecordsType
  <2>5. \A k \in Key : /\ disk'[k] <= mem'[k]
                       /\ \A w \in Flusher : flush'[w].text[k] <= mem'[k]
    BY <2>2, <2>4 DEF Version
  <2>. QED  BY <2>1, <2>2, <2>3, <2>5 DEF TypeOK
<1>. QED
  BY <1>1, <1>2, NoRecordsType DEF Loaded, LoopInv, CleanInv, ForwardInv, CleanIsSaved

-----------------------------------------------------------------------------
(* Changes.  The thread's mark is on its way, or set already.              *)
LEMMA ChangeTable ==
  ASSUME FlushAssumption, TypeOK, NEW t \in Thread, NEW k \in Key, Change(t, k)
  PROVE  TypeOK' /\ (LoopInv => LoopInv') /\ disk' = disk
<1>1. TypeOK'
  <2>1. mem' \in [Key -> Version] /\ \A j \in Key : mem[j] <= mem'[j]
    BY DEF Change, TypeOK, Version, FlushAssumption
  <2>2. \A j \in Key, w \in Flusher : flush[w].text[j] \in Nat /\ disk[j] \in Nat
    BY DEF TypeOK, Version
  <2>3. dirty' \in BOOLEAN /\ failed' \in BOOLEAN
    BY DEF Change, TypeOK
  <2>4. flush' = flush /\ disk' = disk /\ marking' \subseteq Thread
    BY DEF Change, TypeOK
  <2>5. /\ mem' \in [Key -> Version] /\ disk' \in [Key -> Version]
        /\ flush' \in [Flusher -> [at : {"idle", "copy", "write", "rename"},
                                  keys : SUBSET Key, text : [Key -> Version]]]
    BY <2>1, <2>4 DEF TypeOK
  <2>6. \A j \in Key : /\ disk'[j] <= mem'[j]
                       /\ \A w \in Flusher : flush'[w].text[j] <= mem'[j]
    BY <2>1, <2>2, <2>4 DEF TypeOK, Version, FlushAssumption
  <2>. QED  BY <2>3, <2>4, <2>5, <2>6 DEF TypeOK
<1>. QED
  BY <1>1 DEF Change, LoopInv, CleanInv, ForwardInv, CleanIsSaved, Quiet, Unmarked

(* AddFavorite: a record that is made and marked in one step.              *)
Made(k) ==
    /\ mem' = [mem EXCEPT ![k] = IF @ = 0 THEN 1 ELSE @]
    /\ dirty' = (dirty \/ mem[k] = 0)
    /\ UNCHANGED <<marking, flush, disk, failed>>

LEMMA MadeTable ==
  ASSUME FlushAssumption, TypeOK, NEW k \in Key, Made(k)
  PROVE  TypeOK' /\ (LoopInv => LoopInv') /\ disk' = disk
<1>. USE DEF Made
<1>1. TypeOK'
  <2>1. mem' \in [Key -> Version] /\ \A j \in Key : mem[j] <= mem'[j]
    BY DEF TypeOK, Version, FlushAssumption
  <2>2. \A j \in Key, w \in Flusher : flush[w].text[j] \in Nat /\ disk[j] \in Nat
    BY DEF TypeOK, Version
  <2>3. dirty' \in BOOLEAN /\ failed' \in BOOLEAN
    BY DEF TypeOK
  <2>4. flush' = flush /\ disk' = disk /\ marking' \subseteq Thread
    BY DEF TypeOK
  <2>5. /\ mem' \in [Key -> Version] /\ disk' \in [Key -> Version]
        /\ flush' \in [Flusher -> [at : {"idle", "copy", "write", "rename"},
                                  keys : SUBSET Key, text : [Key -> Version]]]
    BY <2>1, <2>4 DEF TypeOK
  <2>6. \A j \in Key : /\ disk'[j] <= mem'[j]
                       /\ \A w \in Flusher : flush'[w].text[j] <= mem'[j]
    BY <2>1, <2>2, <2>4 DEF TypeOK, Version, FlushAssumption
  <2>. QED  BY <2>3, <2>4, <2>5, <2>6 DEF TypeOK
<1>2. CASE mem[k] = 0
  BY <1>1, <1>2 DEF LoopInv, CleanInv, ForwardInv, CleanIsSaved, Quiet, Unmarked
<1>3. CASE mem[k] # 0
  <2>1. mem' = mem /\ dirty' = dirty
    BY <1>3 DEF TypeOK
  <2>. QED
    BY <1>1, <2>1
       DEF LoopInv, CleanInv, ForwardInv, CleanIsSaved, Quiet, Unmarked
<1>. QED  BY <1>2, <1>3

LEMMA MarkTable ==
  ASSUME FlushAssumption, TypeOK, NEW t \in Thread, Mark(t)
  PROVE  TypeOK' /\ (LoopInv => LoopInv') /\ disk' = disk
BY DEF TypeOK, Mark, LoopInv, CleanInv, ForwardInv, CleanIsSaved, Quiet, Unmarked

-----------------------------------------------------------------------------
(* Flushes, by the loop or at the exit.                                    *)
LEMMA FlushType ==
  ASSUME FlushAssumption, TypeOK, NEW w \in Flusher, FlushIfDirty(w)
  PROVE  TypeOK'
<1>1. CASE Clear(w)
  BY <1>1 DEF Clear, TypeOK
<1>2. CASE Copy(w)
  BY ZenonT(30), <1>2 DEF Copy, TypeOK
<1>3. CASE Write(w)
  <2>. DEFINE text == [k \in Key |-> IF k \in flush[w].keys THEN mem[k] ELSE 0]
  <2>1. text \in [Key -> Version] /\ \A k \in Key : text[k] <= mem[k]
    BY DEF TypeOK, Version, FlushAssumption
  <2>2. flush' = [flush EXCEPT ![w] = [at |-> "rename", keys |-> {}, text |-> text]]
    BY <1>3 DEF Write
  <2>. HIDE DEF text
  <2>. QED  BY <1>3, <2>1, <2>2 DEF Write, TypeOK
<1>4. CASE Rename(w)
  <2>1. disk' \in [Key -> Version] /\ \A k \in Key : disk'[k] <= mem[k]
    BY <1>4 DEF Rename, TypeOK
  <2>2. \A k \in Key, v \in Flusher : flush'[v].text[k] <= mem[k]
    BY <1>4, NoRecordsType DEF Rename, TypeOK, Version
  <2>. QED  BY <1>4, <2>1, <2>2, NoRecordsType DEF Rename, TypeOK
<1>5. CASE Fail(w)
  <2>1. \A k \in Key, v \in Flusher : flush'[v].text[k] <= mem[k]
    BY <1>5, NoRecordsType DEF Fail, TypeOK, Version
  <2>. QED  BY <1>5, <2>1, NoRecordsType DEF Fail, TypeOK
<1>. QED  BY <1>1, <1>2, <1>3, <1>4, <1>5 DEF FlushIfDirty

(* The loop keeps the invariant, and writes nothing older than the file.   *)
LEMMA LoopFlushes ==
  ASSUME FlushAssumption, TypeOK, LoopInv, FlushIfDirty(Loop)
  PROVE  LoopInv' /\ \A k \in Key : disk[k] <= disk'[k]
<1>. Loop \in Flusher /\ Exit \in Flusher /\ Loop # Exit
  BY DEF Flusher, FlushAssumption
<1>0. flush[Loop] \in [at : {"idle", "copy", "write", "rename"},
                       keys : SUBSET Key, text : [Key -> Version]]
  BY DEF TypeOK
<1>1. CASE Clear(Loop)
  <2>1. flush'[Loop].at = "copy" /\ flush'[Exit] = flush[Exit]
    BY <1>1 DEF Clear, TypeOK
  <2>2. flush'[Loop] # Idle
    BY <2>1 DEF Idle
  <2>3. disk' = disk /\ \A k \in Key : disk[k] <= disk[k]
    BY <1>1 DEF Clear, TypeOK, Version, FlushAssumption
  <2>. QED
    BY <2>1, <2>2, <2>3 DEF LoopInv, CleanInv, ForwardInv, CleanIsSaved, Quiet
<1>2. CASE Copy(Loop)
  <2>1. flush'[Loop].at = "write" /\ flush'[Loop].keys = {k \in Key : mem[k] > 0}
    BY <1>2 DEF Copy, TypeOK
  <2>2. flush'[Loop] # Idle
    BY <2>1 DEF Idle
  <2>3. \A k \in Key : disk[k] > 0 => mem[k] > 0
    BY DEF TypeOK, Version, FlushAssumption
  <2>. QED
    BY <1>2, <2>1, <2>2, <2>3
       DEF Copy, TypeOK, Version, LoopInv, CleanInv, ForwardInv, CleanIsSaved, Quiet,
           FlushAssumption
<1>3. CASE Write(Loop)
  <2>. DEFINE text == [k \in Key |-> IF k \in flush[Loop].keys THEN mem[k] ELSE 0]
  <2>1. flush'[Loop] = [at |-> "rename", keys |-> {}, text |-> text]
    BY <1>3 DEF Write, TypeOK
  <2>2. flush'[Loop] # Idle /\ flush'[Loop].at = "rename" /\ flush'[Loop].text = text
    BY <2>1 DEF Idle
  <2>3. Unmarked => text = mem
    <3>1. ASSUME Unmarked, NEW k \in Key PROVE text[k] = mem[k]
      BY <1>3, <3>1 DEF Write, LoopInv, CleanInv, TypeOK, Version, FlushAssumption
    <3>. QED  BY <3>1 DEF TypeOK
  <2>4. \A k \in Key : disk[k] <= text[k]
    BY <1>3 DEF Write, LoopInv, ForwardInv, TypeOK, Version, FlushAssumption
  <2>. HIDE DEF text
  <2>. QED
    BY <1>3, <2>2, <2>3, <2>4
       DEF Write, TypeOK, Version, LoopInv, CleanInv, ForwardInv, CleanIsSaved, Quiet,
           Unmarked, FlushAssumption
<1>4. CASE Rename(Loop)
  <2>1. flush'[Loop] = Idle
    BY <1>4 DEF Rename, TypeOK
  <2>2. \A k \in Key : disk[k] <= disk'[k]
    BY <1>4 DEF Rename, LoopInv, ForwardInv
  <2>. QED
    BY <1>4, <2>1, <2>2, NoRecordsType
       DEF Rename, LoopInv, CleanInv, ForwardInv, CleanIsSaved, Quiet, Unmarked
<1>5. CASE Fail(Loop)
  <2>1. flush'[Loop] = Idle
    BY <1>5 DEF Fail, TypeOK
  <2>2. \A k \in Key : disk[k] <= disk'[k]
    BY <1>5 DEF Fail, TypeOK, Version, FlushAssumption
  <2>. QED
    BY <1>5, <2>1, <2>2, NoRecordsType
       DEF Fail, LoopInv, CleanInv, ForwardInv, CleanIsSaved
<1>. QED  BY <1>1, <1>2, <1>3, <1>4, <1>5 DEF FlushIfDirty

LEMMA UnchangedTable ==
  ASSUME TypeOK, UNCHANGED flushVars
  PROVE  TypeOK' /\ (LoopInv => LoopInv') /\ disk' = disk
BY DEF flushVars, TypeOK, LoopInv, CleanInv, ForwardInv, CleanIsSaved, Quiet, Unmarked

-----------------------------------------------------------------------------
(* Whatever happens to the table while no exit handler flushes it.         *)
TableStep ==
    \/ \E t \in Thread, k \in Key : Change(t, k)
    \/ \E k \in Key : Made(k)
    \/ \E t \in Thread : Mark(t)
    \/ FlushIfDirty(Loop)
    \/ UNCHANGED flushVars

LEMMA TableSteps ==
  ASSUME FlushAssumption, TypeOK, TableStep
  PROVE  /\ TypeOK'
         /\ LoopInv => LoopInv' /\ \A k \in Key : disk[k] <= disk'[k]
<1>. Loop \in Flusher
  BY DEF Flusher
<1>. \A k \in Key : disk[k] <= disk[k]
  <2>. SUFFICES ASSUME NEW k \in Key PROVE disk[k] <= disk[k]
    OBVIOUS
  <2>1. disk[k] \in Nat
    BY DEF TypeOK, Version
  <2>. QED  BY <2>1
<1>1. CASE \E t \in Thread, k \in Key : Change(t, k)
  BY <1>1, ChangeTable
<1>2. CASE \E k \in Key : Made(k)
  BY <1>2, MadeTable
<1>3. CASE \E t \in Thread : Mark(t)
  BY <1>3, MarkTable
<1>4. CASE FlushIfDirty(Loop)
  BY <1>4, FlushType, LoopFlushes
<1>5. CASE UNCHANGED flushVars
  BY <1>5, UnchangedTable
<1>. QED  BY <1>1, <1>2, <1>3, <1>4, <1>5 DEF TableStep
=============================================================================
