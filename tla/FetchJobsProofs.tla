-------------------------- MODULE FetchJobsProofs ---------------------------
(***************************************************************************)
(* Theorems about FetchJobs, for any requests, users, forms, files and     *)
(* polls, and any setting of the scanner.                                  *)
(***************************************************************************)
EXTENDS FetchJobs, TLAPS

-----------------------------------------------------------------------------
(* The invariant.                                                          *)

(* A verdict under which the content may go out.                           *)
Ok(r) == verdict[r] # "none" /\ ~Blocked(verdict[r]) /\ verdict[r] # "infected"

(* Which requests come to which point; no job before its thread has ended, *)
(* unless a worker was started with it.                                    *)
PcInv ==
    \A r \in Request :
      /\ pc[r] \in {"new", "run", "store"} => job[r].status = "none"
      /\ pc[r] = "run" => r \in Local \ File
      /\ pc[r] = "store" => r \in Local \ (File \cup Direct)
      /\ pc[r] = "fetch" => r \notin Local \cup (Direct \cap Form)
      /\ pc[r] = "scan" => r \in Inspected
      /\ pc[r] = "after" => r \in Local \ File
      /\ verdict[r] # "none" => pc[r] = "over" /\ r \in ToScan

(* What a job holds, and that its entry is final once it is finished.      *)
JobInv ==
    \A r \in Request :
      /\ job[r].status \in Finished => pc[r] = "over"
      /\ job[r].status = "none" => job[r].content = None
      /\ job[r].status = "scanning" => r \in Inspected
      /\ r \in ToScan /\ job[r].status = "done" => Ok(r)
      /\ r \in Local /\ job[r].content \in Request =>
           UserOf[job[r].content] = UserOf[r]
      /\ job[r].age \in {"grace", "over"} => shown[r] # {}

(* Under the key of a user, the page cache has that user's renderings.     *)
CacheInv ==
    \A k \in User : cache[k] # None =>
      /\ cache[k] \in Local \ (File \cup Form \cup Direct)
      /\ UserOf[cache[k]] = k /\ pc[cache[k]] = "over"

OlderInv ==
    \A q \in Request :
      /\ older[q] # {} => pc[q] = "over"
      /\ \A f \in older[q] : f \in Form \cap Local /\ pc[f] # "new"

(* A form of the polled kind has emptied its keys before it is run, one by *)
(* /api/page after it; what is stored there later is not older than it.    *)
FormInv ==
    \A f \in Form \cap Local :
      pc[f] = "over" \/ (f \notin Direct /\ pc[f] # "new") =>
        \A k \in {UserOf[f], Anon} : cache[k] # None => f \notin older[cache[k]]

(* The copy of a poll is what its job still says, unless the job is gone;  *)
(* one polled as a page may have been copied while it was scanned.         *)
PollOk(p, r) ==
    /\ r \in Request
    /\ poll[p].at = "cache" => r \notin Local
    /\ r \in ToScan /\ poll[p].content \in Request => Ok(r)
    /\ r \in Local /\ poll[p].content \in Request => UserOf[poll[p].content] = UserOf[r]
    /\ r \notin Inspected \cap PagePolled =>
         job[r].status = "gone" \/ (job[r].status \in Finished /\ Tells(p, r))
PollInv == \A p \in Poller : poll[p].at # "idle" => PollOk(p, poll[p].job)

Inv ==
    /\ TypeOK /\ PcInv /\ JobInv /\ CacheInv /\ OlderInv /\ FormInv /\ PollInv
    /\ ServedScanned /\ OwnRendering

USE JobsAssumption DEF JobsAssumption, Unknown, Finished

LEMMA WhoIsScanned ==
  /\ Inspected \subseteq ToScan /\ ToScan \subseteq Request
  /\ Inspected \cap (Local \cup Direct) = {} /\ ToScan \cap Local \subseteq File
  /\ ToScan \ Local \subseteq Inspected /\ Local \cap File \subseteq ToScan
BY DEF Inspected, ToScan

LEMMA PathKey ==
  ASSUME NEW r \in Request \ Local
  PROVE  PathOf[r] \in Key /\ PathOf[r] \notin User
BY DEF Path, Key

USE WhoIsScanned

-----------------------------------------------------------------------------
(* Entries of jobs.                                                        *)

Written(e) == e.status \in {"fetching", "scanning"} => e.content = None

JobsOK == job \in [Request -> Job] /\ \A r \in Request : Written(job[r])

(* The rest of TypeOK.                                                     *)
RestOK ==
    /\ scan \in Settings
    /\ pc \in [Request -> {"new", "run", "store", "after", "fetch", "scan", "over"}]
    /\ verdict \in [Request -> Verdict]
    /\ older \in [Request -> SUBSET Form]
    /\ saved \subseteq Form
    /\ cache \in [Key -> Content]
    /\ poll \in [Poller -> Poll]
    /\ shown \in [Request -> SUBSET Content]

LEMMA TypeParts == /\ TypeOK <=> JobsOK /\ RestOK
                   /\ TypeOK' <=> JobsOK' /\ RestOK'
BY DEF TypeOK, JobsOK, RestOK, Written

LEMMA EndedEntry ==
  ASSUME NEW c \in Request \cup {None}, NEW ok \in BOOLEAN
  PROVE  /\ Ended(c, ok) \in Job /\ Written(Ended(c, ok))
         /\ Ended(c, ok).status = IF ok THEN "done" ELSE "error"
         /\ Ended(c, ok).content = c /\ Ended(c, ok).age = "new"
BY DEF Ended, NewJob, Job, Written

LEMMA ScannedEntry ==
  ASSUME NEW r \in Request, NEW v \in Verdict
  PROVE  /\ Scanned(r, v) \in Job /\ Written(Scanned(r, v))
         /\ Scanned(r, v).status \in Finished
         /\ Scanned(r, v).status = "done" <=> ~Blocked(v)
         /\ Scanned(r, v).content \in {r, None} /\ Scanned(r, v).age = "new"
BY EndedEntry DEF Scanned

LEMMA ScanningEntry ==
  ASSUME NEW r \in Request
  PROVE  /\ Scanning(r) \in Job /\ Written(Scanning(r))
         /\ Scanning(r).status = "scanning" /\ Scanning(r).content = None
         /\ Scanning(r).age = "new"
BY DEF Scanning, NewJob, Job, Written

LEMMA GoneEntry ==
  LET gone == [NewJob EXCEPT !.status = "gone"]
  IN  /\ gone \in Job /\ Written(gone)
      /\ gone.status = "gone" /\ gone.content = None /\ gone.age = "new"
BY DEF NewJob, Job, Written

(* A finished or scanning entry that replaces one, and a sweep.            *)
LEMMA JobWritten ==
  ASSUME JobsOK, NEW r \in Request, NEW e \in Job, Written(e),
         job' = job \/ job' = [job EXCEPT ![r] = e]
  PROVE  JobsOK'
BY DEF JobsOK

LEMMA JobsDropped ==
  ASSUME JobsOK, NEW J
  PROVE  /\ Drop(J) \in [Request -> Job] /\ \A r \in Request : Written(Drop(J)[r])
         /\ \A r \in Request : Drop(J)[r] = job[r] \/ Drop(J)[r] = [NewJob EXCEPT !.status = "gone"]
BY GoneEntry DEF JobsOK, Drop

(* A page of the portal's site starts, or is answered from the cache.      *)
LEMMA StartLocalKeeps ==
  ASSUME Inv, NEW r \in Request, StartLocal(r)
  PROVE  Inv'
<1>. /\ UNCHANGED <<scan, verdict, saved, poll, shown>>
     /\ r \in Local /\ r \notin File /\ r \notin Direct
     /\ pc[r] = "new" /\ job[r].status = "none"
     /\ UserOf[r] \in User /\ Anon \in User
  BY DEF StartLocal, CanStart, Inv, PcInv, User
<1>1. CASE r \in Form
  <2>1. /\ cache' = Invalidated(r) /\ Submit(r)
        /\ pc' = [pc EXCEPT ![r] = "run"] /\ job' = job
    BY <1>1 DEF StartLocal, Go
  <2>2. older' \in [Request -> SUBSET Form] /\ \A q \in Request : pc[q] # "over" => older'[q] = older[q]
    BY <1>1, <2>1 DEF Submit, Inv, TypeOK
  <2>3. TypeOK'
    BY <2>1, <2>2 DEF Invalidated, KeyOf, Inv, TypeOK, Key, Content
  <2>4. PcInv' /\ JobInv' /\ PollInv' /\ ServedScanned' /\ OwnRendering'
    BY <2>1 DEF Inv, TypeOK, PcInv, JobInv, PollInv, PollOk, Tells, Ok, Blocked,
                ServedScanned, OwnRendering
  <2>5. CacheInv'
    BY <2>1 DEF Invalidated, KeyOf, Inv, TypeOK, CacheInv, Key
  <2>6. OlderInv'
    BY <1>1, <2>1 DEF Submit, Inv, TypeOK, OlderInv
  <2>7. FormInv'
    BY <1>1, <2>1 DEF Submit, Invalidated, KeyOf, Inv, TypeOK, FormInv, CacheInv, Key, User
  <2>. QED  BY <2>3, <2>4, <2>5, <2>6, <2>7 DEF Inv
<1>2. CASE r \notin Form /\ cache[KeyOf(r)] = None
  <2>1. pc' = [pc EXCEPT ![r] = "run"] /\ UNCHANGED <<job, cache, older>>
    BY <1>2 DEF StartLocal, Go
  <2>2. TypeOK'
    BY <2>1 DEF Inv, TypeOK
  <2>3. PcInv' /\ JobInv' /\ PollInv' /\ ServedScanned' /\ OwnRendering'
    BY <2>1 DEF Inv, TypeOK, PcInv, JobInv, PollInv, PollOk, Tells, Ok, Blocked,
                ServedScanned, OwnRendering
  <2>4. CacheInv' /\ OlderInv' /\ FormInv'
    BY <1>2, <2>1 DEF Inv, TypeOK, CacheInv, OlderInv, FormInv
  <2>. QED  BY <2>2, <2>3, <2>4 DEF Inv
<1>3. CASE r \notin Form /\ cache[KeyOf(r)] # None
  <2>. DEFINE q == cache[KeyOf(r)]
  <2>1. /\ job' = [job EXCEPT ![r] = Ended(q, TRUE)]
        /\ pc' = [pc EXCEPT ![r] = "over"] /\ UNCHANGED <<cache, older>>
    BY <1>3 DEF StartLocal, Go
  <2>2. q \in Request /\ UserOf[q] = UserOf[r]
    BY <1>3 DEF Inv, CacheInv, KeyOf
  <2>. HIDE DEF q
  <2>3. /\ Ended(q, TRUE) \in Job /\ Written(Ended(q, TRUE))
        /\ Ended(q, TRUE).status = "done" /\ Ended(q, TRUE).content = q
        /\ Ended(q, TRUE).age = "new"
    BY <2>2, EndedEntry
  <2>4. TypeOK'
    BY <2>1, <2>3 DEF Inv, TypeOK, Written
  <2>5. PcInv' /\ ServedScanned' /\ OwnRendering'
    BY <2>1, <2>3 DEF Inv, TypeOK, PcInv, Blocked, ServedScanned, OwnRendering
  <2>6. JobInv'
    <3>1. job'[r] = Ended(q, TRUE) /\ \A x \in Request \ {r} : job'[x] = job[x]
      BY <2>1 DEF Inv, TypeOK
    <3>2. pc'[r] = "over" /\ \A x \in Request \ {r} : pc'[x] = pc[x]
      BY <2>1 DEF Inv, TypeOK
    <3>3. \A x \in Request : verdict'[x] = verdict[x] /\ shown'[x] = shown[x]
      OBVIOUS
    <3>4. ASSUME NEW x \in Request \ {r}
          PROVE  /\ job'[x].status \in Finished => pc'[x] = "over"
                 /\ job'[x].status = "none" => job'[x].content = None
                 /\ job'[x].status = "scanning" => x \in Inspected
                 /\ x \in ToScan /\ job'[x].status = "done" => Ok(x)'
                 /\ x \in Local /\ job'[x].content \in Request =>
                      UserOf[job'[x].content] = UserOf[x]
                 /\ job'[x].age \in {"grace", "over"} => shown'[x] # {}
      BY <3>1, <3>2, <3>3 DEF Inv, JobInv, Ok, Blocked
    <3>. QED
      BY <2>2, <2>3, <3>1, <3>2, <3>4 DEF JobInv
  <2>7. PollInv'
    BY <2>1, <2>3 DEF Inv, TypeOK, PollInv, PollOk, Tells, Ok, Blocked
  <2>8. CacheInv' /\ OlderInv' /\ FormInv'
    BY <1>3, <2>1 DEF Inv, TypeOK, CacheInv, OlderInv, FormInv
  <2>. QED  BY <2>4, <2>5, <2>6, <2>7, <2>8 DEF Inv
<1>. QED  BY <1>1, <1>2, <1>3

LEMMA RunLocalKeeps ==
  ASSUME Inv, NEW r \in Request, RunLocal(r)
  PROVE  Inv'
<1>1. TypeOK'
  BY SMTT(30) DEF RunLocal, Render, Go, Inv, TypeOK, Job, Poll, Content, Verdict,
     NewJob, Key, User
<1>2. PcInv'
  BY DEF RunLocal, Render, Go, Inv, TypeOK, Job, PcInv, NewJob
<1>3. JobInv'
  BY DEF RunLocal, Render, Go, Inv, TypeOK, Job, Verdict, NewJob, JobInv,
     PcInv, Ok, Blocked, CacheInv
<1>4. CacheInv' /\ OlderInv' /\ FormInv'
  BY DEF RunLocal, Render, Go, Inv, TypeOK, Key, User, CacheInv, PcInv,
     OlderInv, FormInv
<1>5. PollInv' /\ ServedScanned' /\ OwnRendering'
  BY DEF RunLocal, Inv, PollInv, PollOk, Ok, Blocked, Tells, ServedScanned,
     OwnRendering
<1>. QED  BY <1>1, <1>2, <1>3, <1>4, <1>5 DEF Inv

LEMMA StoreLocalKeeps ==
  ASSUME Inv, NEW r \in Request, StoreLocal(r)
  PROVE  Inv'
<1>1. TypeOK'
  BY DEF StoreLocal, Go, KeyOf, Ended, Inv, TypeOK, Job, Poll, Content,
     Verdict, NewJob, Key, User
<1>2. PcInv'
  BY DEF StoreLocal, Go, KeyOf, Ended, Inv, TypeOK, Job, PcInv, NewJob
<1>3. JobInv'
  BY DEF StoreLocal, Go, KeyOf, Ended, Inv, TypeOK, Job, Verdict, NewJob,
     JobInv, PcInv, Ok, Blocked, CacheInv
<1>4. CacheInv' /\ OlderInv' /\ FormInv'
  BY DEF StoreLocal, Go, KeyOf, Ended, Inv, TypeOK, Key, User, CacheInv,
     PcInv, OlderInv, FormInv
<1>5. PollInv'
  BY DEF StoreLocal, Go, KeyOf, Ended, Inv, TypeOK, Job, Poll, Content,
     NewJob, PollInv, PollOk, Tells, Ok, Blocked, Verdict, JobInv, PcInv,
     OrBlank
<1>6. ServedScanned' /\ OwnRendering'
  BY DEF StoreLocal, Inv, ServedScanned, Blocked, OwnRendering
<1>. QED  BY <1>1, <1>2, <1>3, <1>4, <1>5, <1>6 DEF Inv

LEMMA LocalFileKeeps ==
  ASSUME Inv, NEW r \in Request, LocalFile(r)
  PROVE  Inv'
<1>1. TypeOK'
  <2>1. JobsOK'
    <3>1. verdict'[r] \in Verdict
      BY TypeParts DEF LocalFile, Verdicts, Inv, RestOK, Verdict
    <3>. QED
      BY <3>1, JobWritten, ScannedEntry, TypeParts DEF LocalFile, Inv
  <2>2. RestOK'
    BY TypeParts DEF LocalFile, CanStart, Go, Verdicts, Inv, RestOK, Verdict
  <2>. QED  BY <2>1, <2>2, TypeParts
<1>2. PcInv'
  BY DEF LocalFile, CanStart, Go, Verdicts, Scanned, Ended, Blocked, Inv,
     TypeOK, Job, PcInv, NewJob
<1>3. JobInv'
  BY DEF LocalFile, CanStart, Go, Verdicts, Scanned, Ended, Blocked, Inv,
     TypeOK, Job, Verdict, NewJob, JobInv, PcInv, Ok, CacheInv
<1>4. CacheInv' /\ OlderInv' /\ FormInv'
  BY DEF LocalFile, CanStart, Go, Verdicts, Scanned, Ended, Blocked, Inv,
     TypeOK, Key, User, CacheInv, PcInv, OlderInv, FormInv
<1>5. PollInv'
  BY DEF LocalFile, CanStart, Go, Verdicts, Scanned, Ended, Blocked, Inv,
     TypeOK, Job, Poll, Content, NewJob, PollInv, PollOk, Tells, Ok, Verdict,
     JobInv, PcInv, OrBlank
<1>6. ServedScanned'
  BY DEF LocalFile, CanStart, Go, Verdicts, Scanned, Ended, Blocked, Inv,
     TypeOK, ServedScanned, Ok, Verdict, PcInv, PollInv, PollOk
<1>7. OwnRendering'
  BY DEF LocalFile, Inv, OwnRendering
<1>. QED  BY <1>1, <1>2, <1>3, <1>4, <1>5, <1>6, <1>7 DEF Inv

(* A worker starts; stale jobs are swept.                                  *)
LEMMA StartRemoteKeeps ==
  ASSUME Inv, NEW r \in Request, StartRemote(r)
  PROVE  Inv'
<1>1. TypeOK'
  <2>1. JobsOK'
    <3>1. JobsOK /\ job[r].status = "none" /\ job[r].content = None
      BY TypeParts DEF StartRemote, CanStart, Inv, PcInv, JobInv
    <3>2. Drop({q \in Request : Stale(q)})[r] = job[r]
      BY <3>1 DEF Drop
    <3>3. LET e == [job[r] EXCEPT !.status = "fetching"]
          IN  e \in Job /\ Written(e)
      BY <3>1 DEF JobsOK, Job, Written
    <3>4. \A q \in Request : q # r => job'[q] = Drop({x \in Request : Stale(x)})[q]
      BY <3>1, JobsDropped DEF StartRemote
    <3>5. job'[r] = [job[r] EXCEPT !.status = "fetching"]
      BY <3>1, <3>2, JobsDropped DEF StartRemote
    <3>6. job' \in [Request -> Job]
      BY <3>1, <3>2, <3>3, JobsDropped DEF StartRemote
    <3>. QED
      BY <3>1, <3>3, <3>4, <3>5, <3>6, JobsDropped DEF JobsOK
  <2>2. RestOK'
    BY TypeParts DEF StartRemote, CanStart, Go, Inv, RestOK
  <2>. QED  BY <2>1, <2>2, TypeParts
<1>2. PcInv'
  BY DEF StartRemote, CanStart, Go, Drop, Stale, Inv, TypeOK, Job, PcInv,
     NewJob
<1>3. JobInv'
  <2>1. /\ job[r].status = "none" /\ job[r].content = None
        /\ pc[r] = "new" /\ pc' = [pc EXCEPT ![r] = "fetch"]
        /\ UNCHANGED <<scan, verdict, shown>>
    BY DEF StartRemote, CanStart, Go, Inv, PcInv, JobInv
  <2>2. /\ job'[r].status = "fetching" /\ job'[r].content = None
        /\ job'[r].age = job[r].age
    <3>1. JobsOK
      BY TypeParts DEF Inv
    <3>2. Drop({q \in Request : Stale(q)})[r] = job[r]
      BY <2>1 DEF Drop
    <3>3. job'[r] = [job[r] EXCEPT !.status = "fetching"]
      BY <3>1, <3>2, JobsDropped DEF StartRemote
    <3>. QED  BY <2>1, <3>1, <3>3 DEF JobsOK, Job
  <2>3. ASSUME NEW q \in Request \ {r}
        PROVE  job'[q] = job[q] \/ job'[q] = [NewJob EXCEPT !.status = "gone"]
    BY JobsDropped, TypeParts DEF StartRemote, Inv
  <2>4. \A q \in Request \ {r} : pc'[q] = pc[q]
    BY <2>1 DEF Inv, TypeOK
  <2>5. ASSUME NEW q \in Request
        PROVE  /\ job'[q].status \in Finished => pc'[q] = "over"
               /\ job'[q].status = "none" => job'[q].content = None
               /\ job'[q].status = "scanning" => q \in Inspected
               /\ q \in ToScan /\ job'[q].status = "done" => Ok(q)'
               /\ q \in Local /\ job'[q].content \in Request =>
                    UserOf[job'[q].content] = UserOf[q]
               /\ job'[q].age \in {"grace", "over"} => shown'[q] # {}
    <3>1. CASE q = r
      BY <2>1, <2>2, <3>1 DEF Inv, JobInv
    <3>2. CASE q # r /\ job'[q] = job[q]
      BY <2>1, <2>4, <3>2 DEF Inv, JobInv, Ok, Blocked
    <3>3. CASE q # r /\ job'[q] # job[q]
      BY <2>3, <3>3, GoneEntry
    <3>. QED  BY <3>1, <3>2, <3>3
  <2>. QED  BY <2>5 DEF JobInv
<1>4. CacheInv' /\ OlderInv' /\ FormInv'
  BY DEF StartRemote, CanStart, Go, Drop, Stale, Inv, TypeOK, Key, User,
     CacheInv, PcInv, OlderInv, FormInv
<1>5. PollInv'
  BY ZenonT(30) DEF StartRemote, CanStart, Go, Drop, Stale, Inv, TypeOK, Job, Poll,
     Content, NewJob, PollInv, PollOk, Tells, Ok, Blocked, Verdict, JobInv,
     PcInv, OrBlank
<1>6. ServedScanned' /\ OwnRendering'
  BY DEF StartRemote, Inv, ServedScanned, Blocked, OwnRendering
<1>. QED  BY <1>1, <1>2, <1>3, <1>4, <1>5, <1>6 DEF Inv

LEMMA FetchReturnsKeeps ==
  ASSUME Inv, NEW r \in Request, FetchReturns(r)
  PROVE  Inv'
<1>. DEFINE Fetched(e) ==
       /\ Write(r, e) /\ Written(e)
       /\ e.content \in {r, None} /\ e.age = "new"
       /\ \/ e.status = "scanning" /\ r \in Inspected /\ pc' = [pc EXCEPT ![r] = "scan"]
          \/ e.status = "done" /\ r \notin Inspected /\ pc' = [pc EXCEPT ![r] = "over"]
          \/ e.status = "error" /\ pc' = [pc EXCEPT ![r] = "over"]
<1>. PICK e \in Job : Fetched(e)
  <2>1. CASE r \in Inspected /\ Write(r, Scanning(r)) /\ Go(r, "scan")
    <3>1. Fetched(Scanning(r)) /\ Scanning(r) \in Job
      BY <2>1, ScanningEntry DEF Go
    <3>. QED  BY <3>1
  <2>2. CASE r \notin Inspected /\ Write(r, Ended(r, TRUE)) /\ Go(r, "over")
    <3>1. Fetched(Ended(r, TRUE)) /\ Ended(r, TRUE) \in Job
      BY <2>2, EndedEntry DEF Go
    <3>. QED  BY <3>1
  <2>3. ASSUME NEW c \in {r, None}, Write(r, Ended(c, FALSE)), Go(r, "over")
        PROVE  \E e \in Job : Fetched(e)
    <3>1. Fetched(Ended(c, FALSE)) /\ Ended(c, FALSE) \in Job
      <4>1. c \in Request \cup {None} /\ FALSE \in BOOLEAN
        OBVIOUS
      <4>2. /\ Ended(c, FALSE) \in Job /\ Written(Ended(c, FALSE))
            /\ Ended(c, FALSE).status = "error" /\ Ended(c, FALSE).content = c
            /\ Ended(c, FALSE).age = "new"
        BY <4>1, EndedEntry
      <4>. QED  BY <2>3, <4>2 DEF Go
    <3>. QED  BY <3>1
  <2>. QED  BY <2>1, <2>2, <2>3 DEF FetchReturns
<1>1. TypeOK'
  <2>1. JobsOK'
    BY JobWritten, TypeParts DEF Write, Inv
  <2>2. RestOK'
    BY TypeParts DEF FetchReturns, Go, Inv, RestOK
  <2>. QED  BY <2>1, <2>2, TypeParts
<1>2. PcInv'
  BY DEF FetchReturns, Write, Inv, TypeOK, PcInv
<1>3. JobInv'
  BY DEF FetchReturns, Write, Inv, TypeOK, JobInv, PcInv, Ok, Blocked
<1>4. CacheInv' /\ OlderInv' /\ FormInv'
  BY SMTT(30) DEF FetchReturns, Write, Scanning, Go, Ended, Inv, TypeOK, Key, User,
     CacheInv, PcInv, OlderInv, FormInv
<1>5. PollInv'
  <2>1. job[r].status \notin Finished
    BY DEF FetchReturns, Inv, JobInv
  <2>2. \A q \in Request : job'[q] # job[q] => q = r /\ job[r].status \notin Unknown
    BY DEF Write, Inv, TypeOK
  <2>. QED
    BY <2>1, <2>2 DEF FetchReturns, Inv, PollInv, PollOk, Tells, Ok, Blocked
<1>6. ServedScanned' /\ OwnRendering'
  BY DEF FetchReturns, Inv, ServedScanned, Blocked, OwnRendering
<1>. QED  BY <1>1, <1>2, <1>3, <1>4, <1>5, <1>6 DEF Inv

LEMMA ScanReturnsKeeps ==
  ASSUME Inv, NEW r \in Request, ScanReturns(r)
  PROVE  Inv'
<1>1. TypeOK'
  <2>1. JobsOK'
    <3>1. verdict'[r] \in Verdict
      BY TypeParts DEF ScanReturns, Verdicts, Inv, RestOK, Verdict
    <3>. QED
      BY <3>1, JobWritten, ScannedEntry, TypeParts DEF ScanReturns, Write, Inv
  <2>2. RestOK'
    BY TypeParts DEF ScanReturns, Go, Verdicts, Inv, RestOK, Verdict
  <2>. QED  BY <2>1, <2>2, TypeParts
<1>2. PcInv'
  BY DEF ScanReturns, Verdicts, Write, Scanned, Ended, Go, Blocked, Inv,
     TypeOK, Job, PcInv, NewJob
<1>3. JobInv'
  BY DEF ScanReturns, Verdicts, Write, Scanned, Ended, Go, Blocked, Inv,
     TypeOK, Job, Verdict, NewJob, JobInv, PcInv, Ok, CacheInv
<1>4. CacheInv' /\ OlderInv' /\ FormInv'
  BY DEF ScanReturns, Verdicts, Write, Scanned, Ended, Go, Blocked, Inv,
     TypeOK, Key, User, CacheInv, PcInv, OlderInv, FormInv
<1>5. PollInv'
  BY DEF ScanReturns, Verdicts, Write, Scanned, Ended, Go, Blocked, Inv,
     TypeOK, Job, Poll, Content, NewJob, PollInv, PollOk, Tells, Ok, Verdict,
     JobInv, PcInv, OrBlank
<1>6. ServedScanned'
  BY DEF ScanReturns, Verdicts, Write, Scanned, Ended, Go, Blocked, Inv,
     TypeOK, ServedScanned, Ok, Verdict, PcInv, PollInv, PollOk
<1>7. OwnRendering'
  BY DEF ScanReturns, Inv, OwnRendering
<1>. QED  BY <1>1, <1>2, <1>3, <1>4, <1>5, <1>6, <1>7 DEF Inv

(* /api/page.                                                              *)
LEMMA DirectGetKeeps ==
  ASSUME Inv, NEW r \in Request, DirectGet(r)
  PROVE  Inv'
<1>1. TypeOK'
  BY SMTT(30) DEF DirectGet, CanStart, Show, Go, Inv, TypeOK, Job, Poll, Content,
     Verdict, NewJob, Key, User
<1>2. PcInv'
  BY DEF DirectGet, CanStart, Show, Go, Inv, TypeOK, Job, PcInv, NewJob
<1>3. JobInv'
  BY DEF DirectGet, CanStart, Show, Go, Inv, TypeOK, Job, Verdict, NewJob,
     JobInv, PcInv, Ok, Blocked, CacheInv
<1>4. CacheInv' /\ OlderInv' /\ FormInv'
  BY DEF DirectGet, CanStart, Show, Go, Inv, TypeOK, Key, User, CacheInv,
     PcInv, OlderInv, FormInv
<1>5. ServedScanned' /\ OwnRendering'
  BY DEF DirectGet, CanStart, Show, Go, Inv, TypeOK, ServedScanned, Ok,
     Blocked, Verdict, PcInv, PollInv, PollOk, OwnRendering
<1>6. PollInv'
  BY DEF DirectGet, Inv, PollInv, PollOk, Ok, Blocked, Tells
<1>. QED  BY <1>1, <1>2, <1>3, <1>4, <1>5, <1>6 DEF Inv

LEMMA DirectReturnsKeeps ==
  ASSUME Inv, NEW r \in Request, DirectReturns(r)
  PROVE  Inv'
<1>. PathOf[r] \in Key /\ PathOf[r] \notin User
  BY PathKey DEF DirectReturns, Inv, PcInv
<1>1. TypeOK'
  <2>1. JobsOK'
    BY TypeParts DEF DirectReturns, Inv, JobsOK
  <2>2. RestOK'
    BY TypeParts DEF DirectReturns, Show, Go, Inv, RestOK, Key, Content
  <2>. QED  BY <2>1, <2>2, TypeParts
<1>2. PcInv'
  BY DEF DirectReturns, Show, Go, Inv, TypeOK, Job, PcInv, NewJob
<1>3. JobInv'
  BY DEF DirectReturns, Show, Go, Inv, TypeOK, Job, Verdict, NewJob, JobInv,
     PcInv, Ok, Blocked, CacheInv
<1>4. CacheInv' /\ OlderInv' /\ FormInv'
  BY DEF DirectReturns, Show, Go, Inv, TypeOK, Key, User, CacheInv, PcInv,
     OlderInv, FormInv
<1>5. ServedScanned' /\ OwnRendering'
  BY DEF DirectReturns, Show, Go, Inv, TypeOK, ServedScanned, Ok, Blocked,
     Verdict, PcInv, PollInv, PollOk, OwnRendering
<1>6. PollInv'
  BY DEF DirectReturns, Inv, PollInv, PollOk, Ok, Blocked, Tells
<1>. QED  BY <1>1, <1>2, <1>3, <1>4, <1>5, <1>6 DEF Inv

LEMMA DirectPostKeeps ==
  ASSUME Inv, NEW r \in Request, DirectPost(r)
  PROVE  Inv'
<1>1. TypeOK'
  BY DEF DirectPost, CanStart, Submit, Go, Inv, TypeOK, Job, Poll, Content,
     Verdict, NewJob, Key, User
<1>2. PcInv'
  BY DEF DirectPost, CanStart, Submit, Go, Inv, TypeOK, Job, PcInv, NewJob
<1>3. JobInv'
  BY DEF DirectPost, CanStart, Submit, Go, Inv, TypeOK, Job, Verdict, NewJob,
     JobInv, PcInv, Ok, Blocked, CacheInv
<1>4. CacheInv' /\ OlderInv' /\ FormInv'
  BY DEF DirectPost, CanStart, Submit, Go, Inv, TypeOK, Key, User, CacheInv,
     PcInv, OlderInv, FormInv
<1>5. PollInv' /\ ServedScanned' /\ OwnRendering'
  BY DEF DirectPost, Inv, PollInv, PollOk, Ok, Blocked, Tells, ServedScanned,
     OwnRendering
<1>. QED  BY <1>1, <1>2, <1>3, <1>4, <1>5 DEF Inv

LEMMA DirectSavedKeeps ==
  ASSUME Inv, NEW r \in Request, DirectSaved(r)
  PROVE  Inv'
<1>1. TypeOK'
  <2>1. JobsOK'
    BY TypeParts DEF DirectSaved, Inv, JobsOK
  <2>2. RestOK'
    BY TypeParts DEF DirectSaved, Invalidated, KeyOf, Show, Go, User, Inv, RestOK, Key, Content
  <2>. QED  BY <2>1, <2>2, TypeParts
<1>2. PcInv'
  BY DEF DirectSaved, Invalidated, KeyOf, Show, Go, Inv, TypeOK, Job, PcInv,
     NewJob
<1>3. JobInv'
  BY DEF DirectSaved, Invalidated, KeyOf, Show, Go, Inv, TypeOK, Job,
     Verdict, NewJob, JobInv, PcInv, Ok, Blocked, CacheInv
<1>4. CacheInv' /\ OlderInv'
  BY DEF DirectSaved, Invalidated, KeyOf, Go, Inv, TypeOK, CacheInv, OlderInv, Key
<1>5. FormInv'
  BY SMTT(30) DEF DirectSaved, Invalidated, KeyOf, Go, Inv, TypeOK, FormInv, CacheInv, Key, User
<1>6. ServedScanned' /\ OwnRendering'
  BY DEF DirectSaved, Invalidated, KeyOf, Show, Go, Inv, TypeOK,
     ServedScanned, Ok, Blocked, Verdict, PcInv, PollInv, PollOk,
     OwnRendering
<1>7. PollInv'
  BY DEF DirectSaved, Inv, PollInv, PollOk, Ok, Blocked, Tells
<1>. QED  BY <1>1, <1>2, <1>3, <1>4, <1>5, <1>6, <1>7 DEF Inv

(* Polls copy a job, answer, and drop it.                                  *)
LEMMA PagePollKeeps ==
  ASSUME Inv, NEW p \in Poller, NEW r \in Request, PagePoll(p, r)
  PROVE  Inv'
<1>1. TypeOK'
  <2>1. job[r].content \in Request \cup {None}
    BY TypeParts DEF Inv, JobsOK, Job
  <2>2. \E x \in Poll : poll' = [poll EXCEPT ![p] = x]
    BY <2>1 DEF PagePoll, Begin, OrBlank, Poll, Content
  <2>3. JobsOK'
    BY TypeParts DEF PagePoll, Inv, JobsOK, Written
  <2>4. RestOK'
    BY <2>2, TypeParts DEF PagePoll, Inv, RestOK
  <2>. QED  BY <2>3, <2>4, TypeParts
<1>2. PollInv'
  <2>1. \A x \in Poller \ {p} : poll'[x] = poll[x]
    BY DEF PagePoll, Begin, Inv, TypeOK
  <2>2. poll'[p].job = r /\ (poll'[p].at = "cache" => r \notin Local)
    BY DEF PagePoll, Begin, Inv, TypeOK
  <2>3. \/ /\ job[r].status = "error" /\ poll'[p].content = None
        \/ /\ job[r].status \in {"scanning", "done"}
           /\ poll'[p].content = OrBlank(job[r].content)
    BY DEF PagePoll, Begin, Inv, TypeOK, JobInv, Ok
  <2>4. r \notin Inspected \cap PagePolled => job[r].status # "scanning"
    BY DEF PagePoll, Inv, JobInv
  <2>5. job[r].status = "scanning" => job[r].content = None
    BY DEF Inv, TypeOK
  <2>6. OrBlank(job[r].content) \in Request =>
          OrBlank(job[r].content) = job[r].content /\ job[r].content \in Request
    BY DEF OrBlank
  <2>7. PollOk(p, r)'
    BY <2>2, <2>3, <2>4, <2>5, <2>6
       DEF PagePoll, Inv, TypeOK, PollOk, Tells, Ok, Blocked, JobInv, OrBlank
  <2>. QED
    BY <2>1, <2>2, <2>7 DEF PagePoll, Inv, PollInv, PollOk, Tells, Ok, Blocked
<1>3. PcInv' /\ JobInv' /\ CacheInv' /\ OlderInv' /\ FormInv' /\ ServedScanned' /\ OwnRendering'
  BY DEF PagePoll, Inv, PcInv, JobInv, Ok, Blocked, CacheInv, OlderInv,
     FormInv, ServedScanned, OwnRendering
<1>. QED  BY <1>1, <1>2, <1>3 DEF Inv

LEMMA FilePollKeeps ==
  ASSUME Inv, NEW p \in Poller, NEW r \in Request, FilePoll(p, r)
  PROVE  Inv'
<1>1. TypeOK'
  BY DEF FilePoll, Begin, Idle, Inv, TypeOK, Job, Poll, Content, Verdict,
     NewJob, Key, User
<1>2. PollInv'
  BY DEF FilePoll, Begin, Idle, Inv, TypeOK, Job, Poll, Content, NewJob,
     PollInv, PollOk, Tells, Ok, Blocked, Verdict, JobInv, PcInv, OrBlank
<1>3. PcInv' /\ JobInv' /\ CacheInv' /\ OlderInv' /\ FormInv' /\ ServedScanned' /\ OwnRendering'
  BY DEF FilePoll, Inv, PcInv, JobInv, Ok, Blocked, CacheInv, OlderInv,
     FormInv, ServedScanned, OwnRendering
<1>. QED  BY <1>1, <1>2, <1>3 DEF Inv

LEMMA DownloadKeeps ==
  ASSUME Inv, NEW p \in Poller, NEW r \in Request, Download(p, r)
  PROVE  Inv'
<1>1. TypeOK'
  <2>1. job[r].content \in Request \cup {None}
    BY TypeParts DEF Inv, JobsOK, Job
  <2>2. \E x \in Poll : poll' = [poll EXCEPT ![p] = x]
    BY <2>1 DEF Download, Begin, OrBlank, Poll, Content
  <2>3. JobsOK'
    BY TypeParts DEF Download, Inv, JobsOK, Written
  <2>4. RestOK'
    BY <2>2, TypeParts DEF Download, Inv, RestOK
  <2>. QED  BY <2>3, <2>4, TypeParts
<1>2. PollInv'
  <2>1. \A x \in Poller \ {p} : poll'[x] = poll[x]
    BY DEF Download, Begin, Inv, TypeOK
  <2>2. poll'[p].job = r /\ (poll'[p].at = "cache" => r \notin Local)
    BY DEF Download, Begin, Inv, TypeOK
  <2>3. job[r].status = "done" /\ (r \in ToScan => Ok(r)) /\ verdict[r] # "infected"
    BY DEF Download, Inv, JobInv, PcInv, Ok
  <2>4. poll'[p].content = OrBlank(job[r].content)
    BY <2>3 DEF Download, Begin, Inv, TypeOK
  <2>5. job[r].status = "scanning" => job[r].content = None
    BY DEF Inv, TypeOK
  <2>6. OrBlank(job[r].content) \in Request =>
          OrBlank(job[r].content) = job[r].content /\ job[r].content \in Request
    BY DEF OrBlank
  <2>7. PollOk(p, r)'
    BY <2>2, <2>3, <2>4, <2>5, <2>6
       DEF Download, Inv, TypeOK, PollOk, Tells, Ok, Blocked, JobInv, OrBlank
  <2>. QED
    BY <2>1, <2>2, <2>7 DEF Download, Inv, PollInv, PollOk, Tells, Ok, Blocked
<1>3. PcInv' /\ JobInv' /\ CacheInv' /\ OlderInv' /\ FormInv' /\ ServedScanned' /\ OwnRendering'
  BY DEF Download, Inv, PcInv, JobInv, Ok, Blocked, CacheInv, OlderInv,
     FormInv, ServedScanned, OwnRendering
<1>. QED  BY <1>1, <1>2, <1>3 DEF Inv

LEMMA PollCacheKeeps ==
  ASSUME Inv, NEW p \in Poller, PollCache(p)
  PROVE  Inv'
<1>. PathOf[poll[p].job] \in Key /\ PathOf[poll[p].job] \notin User
  BY PathKey DEF PollCache, Inv, PollInv, PollOk
<1>1. TypeOK'
  <2>1. JobsOK'
    BY TypeParts DEF PollCache, Inv, JobsOK
  <2>2. RestOK'
    BY TypeParts DEF PollCache, Poll, Inv, RestOK, Key, Content
  <2>. QED  BY <2>1, <2>2, TypeParts
<1>2. CacheInv' /\ FormInv'
  BY DEF PollCache, Inv, TypeOK, Key, User, CacheInv, PcInv, FormInv,
     OlderInv
<1>3. PollInv'
  BY DEF PollCache, Inv, TypeOK, Job, Poll, Content, NewJob, PollInv, PollOk,
     Tells, Ok, Blocked, Verdict, JobInv, PcInv, OrBlank
<1>4. PcInv' /\ JobInv' /\ OlderInv' /\ ServedScanned' /\ OwnRendering'
  BY DEF PollCache, Inv, PcInv, JobInv, Ok, Blocked, OlderInv, ServedScanned,
     OwnRendering
<1>. QED  BY <1>1, <1>2, <1>3, <1>4 DEF Inv

LEMMA PollDropKeeps ==
  ASSUME Inv, NEW p \in Poller, PollDrop(p)
  PROVE  Inv'
<1>1. TypeOK'
  <2>1. JobsOK'
    BY JobsDropped, TypeParts DEF PollDrop, Inv, JobsOK
  <2>2. RestOK'
    BY TypeParts DEF PollDrop, Show, Idle, Inv, RestOK, PollInv, PollOk, Poll, Content
  <2>. QED  BY <2>1, <2>2, TypeParts
<1>2. PcInv'
  BY DEF PollDrop, Drop, Show, Idle, Inv, TypeOK, Job, PcInv, NewJob
<1>3. JobInv'
  BY DEF PollDrop, Drop, Show, Idle, Inv, TypeOK, Job, Verdict, NewJob,
     JobInv, PcInv, Ok, Blocked, CacheInv
<1>4. PollInv'
  BY DEF PollDrop, Drop, Show, Idle, Inv, TypeOK, Job, Poll, Content, NewJob,
     PollInv, PollOk, Tells, Ok, Blocked, Verdict, JobInv, PcInv, OrBlank
<1>5. ServedScanned' /\ OwnRendering'
  BY DEF PollDrop, Drop, Show, Idle, Inv, TypeOK, ServedScanned, Ok, Blocked,
     Verdict, PcInv, PollInv, PollOk, OwnRendering
<1>6. CacheInv' /\ OlderInv' /\ FormInv'
  BY DEF PollDrop, Inv, CacheInv, OlderInv, FormInv
<1>. QED  BY <1>1, <1>2, <1>3, <1>4, <1>5, <1>6 DEF Inv

LEMMA SendKeeps ==
  ASSUME Inv, NEW p \in Poller, Send(p)
  PROVE  Inv'
<1>1. TypeOK'
  <2>1. JobsOK'
    <3>1. poll[p].job \in Request
      BY DEF Send, Inv, PollInv, PollOk
    <3>2. /\ \A q \in Request \ {poll[p].job} : job'[q] = job[q]
          /\ \/ job'[poll[p].job] = job[poll[p].job]
             \/ job'[poll[p].job] = [job[poll[p].job] EXCEPT !.age = "grace"]
          /\ job' = [q \in Request |-> job'[q]]
      BY <3>1 DEF Send, Inv, TypeOK, Job
    <3>. QED  BY <3>1, <3>2, TypeParts DEF Inv, JobsOK, Job, Written
  <2>2. RestOK'
    BY TypeParts DEF Send, Show, Idle, Inv, RestOK, PollInv, PollOk, Poll, Content
  <2>. QED  BY <2>1, <2>2, TypeParts
<1>2. PcInv'
  BY DEF Send, Show, Idle, Inv, TypeOK, Job, PcInv, NewJob
<1>3. JobInv'
  <2>1. \A q \in Request : /\ job'[q].status = job[q].status
                           /\ job'[q].content = job[q].content
                           /\ job'[q].age = job[q].age \/ q = poll[p].job
    BY DEF Send, Inv, TypeOK, Job
  <2>2. \A q \in Request : shown[q] \subseteq shown'[q]
    BY DEF Send, Show, Inv, TypeOK
  <2>3. poll[p].job \in Request => shown'[poll[p].job] # {}
    BY DEF Send, Show, Inv, TypeOK
  <2>. QED
    BY <2>1, <2>2, <2>3 DEF Send, Inv, JobInv, Ok, Blocked
<1>4. PollInv'
  BY DEF Send, Show, Idle, Inv, TypeOK, Job, Poll, Content, NewJob, PollInv,
     PollOk, Tells, Ok, Blocked, Verdict, JobInv, PcInv, OrBlank
<1>5. ServedScanned' /\ OwnRendering'
  BY DEF Send, Show, Idle, Inv, TypeOK, ServedScanned, Ok, Blocked, Verdict,
     PcInv, PollInv, PollOk, OwnRendering
<1>6. CacheInv' /\ OlderInv' /\ FormInv'
  BY DEF Send, Inv, CacheInv, OlderInv, FormInv
<1>. QED  BY <1>1, <1>2, <1>3, <1>4, <1>5, <1>6 DEF Inv

(* Time.                                                                   *)
LEMMA GrowsOldKeeps ==
  ASSUME Inv, NEW r \in Request, GrowsOld(r)
  PROVE  Inv'
<1>1. TypeOK'
  <2>1. JobsOK'
    <3>. DEFINE e == [job[r] EXCEPT !.age = "old"]
    <3>1. JobsOK /\ e \in Job /\ Written(e)
      BY TypeParts DEF Inv, JobsOK, Job, Written
    <3>2. job' = [job EXCEPT ![r] = e]
      BY <3>1 DEF GrowsOld, JobsOK
    <3>. HIDE DEF e
    <3>. QED  BY <3>1, <3>2, JobWritten
  <2>2. RestOK'
    BY TypeParts DEF GrowsOld, Inv, RestOK
  <2>. QED  BY <2>1, <2>2, TypeParts
<1>2. PcInv'
  BY DEF GrowsOld, Inv, TypeOK, Job, PcInv, NewJob
<1>3. JobInv'
  BY DEF GrowsOld, Inv, TypeOK, Job, Verdict, NewJob, JobInv, PcInv, Ok,
     Blocked, CacheInv
<1>4. PollInv'
  BY DEF GrowsOld, Inv, TypeOK, Job, Poll, Content, NewJob, PollInv, PollOk,
     Tells, Ok, Blocked, Verdict, JobInv, PcInv, OrBlank
<1>5. CacheInv' /\ OlderInv' /\ FormInv' /\ ServedScanned' /\ OwnRendering'
  BY DEF GrowsOld, Inv, CacheInv, OlderInv, FormInv, ServedScanned, Blocked,
     OwnRendering
<1>. QED  BY <1>1, <1>2, <1>3, <1>4, <1>5 DEF Inv

LEMMA GraceEndsKeeps ==
  ASSUME Inv, NEW r \in Request, GraceEnds(r)
  PROVE  Inv'
<1>1. TypeOK'
  BY DEF GraceEnds, Inv, TypeOK, Job, Poll, Content, Verdict, NewJob, Key,
     User
<1>2. PcInv'
  BY DEF GraceEnds, Inv, TypeOK, Job, PcInv, NewJob
<1>3. JobInv'
  BY DEF GraceEnds, Inv, TypeOK, Job, Verdict, NewJob, JobInv, PcInv, Ok,
     Blocked, CacheInv
<1>4. PollInv'
  BY DEF GraceEnds, Inv, TypeOK, Job, Poll, Content, NewJob, PollInv, PollOk,
     Tells, Ok, Blocked, Verdict, JobInv, PcInv, OrBlank
<1>5. CacheInv' /\ OlderInv' /\ FormInv' /\ ServedScanned' /\ OwnRendering'
  BY DEF GraceEnds, Inv, CacheInv, OlderInv, FormInv, ServedScanned, Blocked,
     OwnRendering
<1>. QED  BY <1>1, <1>2, <1>3, <1>4, <1>5 DEF Inv

LEMMA ExpireKeeps ==
  ASSUME Inv, NEW k \in Key, Expire(k)
  PROVE  Inv'
<1>1. TypeOK'
  BY DEF Expire, Inv, TypeOK, Job, Poll, Content, Verdict, NewJob, Key, User
<1>2. CacheInv' /\ FormInv'
  BY DEF Expire, Inv, TypeOK, Key, User, CacheInv, PcInv, FormInv, OlderInv
<1>3. PcInv' /\ JobInv' /\ OlderInv' /\ PollInv' /\ ServedScanned' /\ OwnRendering'
  BY DEF Expire, Inv, PcInv, JobInv, Ok, Blocked, OlderInv, PollInv, PollOk,
     Tells, ServedScanned, OwnRendering
<1>. QED  BY <1>1, <1>2, <1>3 DEF Inv

-----------------------------------------------------------------------------
LEMMA InitInv == Init => Inv
<1>. SUFFICES ASSUME Init PROVE Inv
  OBVIOUS
<1>1. TypeOK
  BY DEF Init, TypeOK, NewJob, Job, Idle, Poll, Content, Verdict
<1>2. PcInv /\ JobInv /\ CacheInv /\ OlderInv /\ FormInv
  BY DEF Init, NewJob, PcInv, JobInv, CacheInv, OlderInv, FormInv, Key
<1>3. PollInv /\ ServedScanned /\ OwnRendering
  BY DEF Init, Idle, PollInv, ServedScanned, OwnRendering
<1>. QED  BY <1>1, <1>2, <1>3 DEF Inv

LEMMA NextKeepsInv == Inv /\ [Next]_vars => Inv'
<1>. SUFFICES ASSUME Inv, [Next]_vars PROVE Inv'
  OBVIOUS
<1>1. ASSUME NEW r \in Request, StartLocal(r) \/ LocalFile(r) \/ StartRemote(r)
      PROVE  Inv'
  BY <1>1, StartLocalKeeps, LocalFileKeeps, StartRemoteKeeps
<1>2. ASSUME NEW r \in Request, DirectGet(r) \/ DirectPost(r)
      PROVE  Inv'
  BY <1>2, DirectGetKeeps, DirectPostKeeps
<1>3. ASSUME NEW r \in Request, Thread(r)
      PROVE  Inv'
  BY <1>3, RunLocalKeeps, StoreLocalKeeps, FetchReturnsKeeps, ScanReturnsKeeps,
     DirectReturnsKeeps, DirectSavedKeeps DEF Thread
<1>4. ASSUME NEW r \in Request, GrowsOld(r) \/ GraceEnds(r)
      PROVE  Inv'
  BY <1>4, GrowsOldKeeps, GraceEndsKeeps
<1>5. ASSUME NEW p \in Poller, NEW r \in Request,
             PagePoll(p, r) \/ FilePoll(p, r) \/ Download(p, r)
      PROVE  Inv'
  BY <1>5, PagePollKeeps, FilePollKeeps, DownloadKeeps
<1>6. ASSUME NEW p \in Poller, PollCache(p) \/ PollDrop(p) \/ Send(p)
      PROVE  Inv'
  BY <1>6, PollCacheKeeps, PollDropKeeps, SendKeeps
<1>7. ASSUME NEW k \in Key, Expire(k)
      PROVE  Inv'
  BY <1>7, ExpireKeeps
<1>8. CASE UNCHANGED vars
  BY <1>8 DEF vars, Inv, TypeOK, PcInv, JobInv, CacheInv, OlderInv, FormInv, PollInv,
              PollOk, Tells, Ok, Blocked, ServedScanned, OwnRendering
<1>. QED  BY <1>1, <1>2, <1>3, <1>4, <1>5, <1>6, <1>7, <1>8 DEF Next

(* Threads, jobs, polls and the page cache keep the invariant: what a job  *)
(* says, what a poll copied of it and what the cache has of whom agree.    *)
THEOREM Invariance == Spec => []Inv
BY InitInv, NextKeepsInv, PTL DEF Spec

-----------------------------------------------------------------------------
(* Threads, jobs, cache and polls keep their types, and a job that is      *)
(* fetched or scanned has no content to give away.                         *)
THEOREM TypeCorrect == Spec => []TypeOK
<1>1. Inv => TypeOK
  BY DEF Inv
<1>. QED  BY <1>1, Invariance, PTL

(* However polls, downloads and the worker overlap, a client gets what a   *)
(* job fetched from a path that begins with /file/, or read from the local *)
(* site's files, only after the scanner let it through (fetch_page_async,  *)
(* api_file_fetch_start, api_file_download).  Nothing is claimed of other  *)
(* paths, which the worker does not have scanned.                          *)
THEOREM OnlyScannedServed == Spec => []ServedScanned
<1>1. Inv => ServedScanned
  BY DEF Inv
<1>. QED  BY <1>1, Invariance, PTL

(* A user of the local site is only ever given that user's rendering.      *)
THEOREM OwnRenderingOnly == Spec => []OwnRendering
<1>1. Inv => OwnRendering
  BY DEF Inv
<1>. QED  BY <1>1, Invariance, PTL

-----------------------------------------------------------------------------
(* What a step may do to a job.                                            *)

(* An entry is made once, is written only by its thread or worker while it *)
(* is there, and goes only by a sweep or by the poll that tells it.        *)
JobStep(r) ==
    /\ job[r].status = "gone" => job'[r].status = "gone"
    /\ job[r].status \in Finished /\ job'[r].status = "gone" =>
         \/ Stale(r)
         \/ \E p \in Poller : poll[p].at = "drop" /\ poll[p].job = r
    /\ pc[r] = "new" /\ job'[r].status = "done" => StartLocal(r) \/ r \in File

LEMMA JobSteps ==
  ASSUME Inv, Next, NEW r \in Request
  PROVE  JobStep(r)
<1>. USE DEF JobStep
<1>. TypeOK /\ PcInv /\ JobInv
  BY DEF Inv
<1>1. ASSUME NEW q \in Request, StartLocal(q) \/ StoreLocal(q) \/ LocalFile(q)
      PROVE  JobStep(r)
  <2>1. job[q].status = "none" /\ (StoreLocal(q) => pc[q] # "new") /\ (LocalFile(q) => q \in File)
    BY <1>1 DEF StartLocal, StoreLocal, LocalFile, CanStart, PcInv
  <2>2. r # q => job'[r] = job[r]
    BY <1>1 DEF StartLocal, StoreLocal, LocalFile, TypeOK
  <2>. QED  BY <1>1, <2>1, <2>2 DEF PcInv
<1>2. ASSUME NEW q \in Request, StartRemote(q)
      PROVE  JobStep(r)
  <2>1. job[q].status = "none"
    BY <1>2 DEF StartRemote, CanStart, PcInv
  <2>2. job'[r].status = IF r = q THEN "fetching"
                         ELSE Drop({x \in Request : Stale(x)})[r].status
    BY <1>2, JobsDropped, TypeParts DEF StartRemote, Job, JobsOK
  <2>3. \/ Drop({x \in Request : Stale(x)})[r] = job[r]
        \/ /\ Stale(r)
           /\ Drop({x \in Request : Stale(x)})[r] = [NewJob EXCEPT !.status = "gone"]
    BY DEF Drop
  <2>. QED  BY <2>1, <2>2, <2>3, GoneEntry DEF Stale, PcInv
<1>3. ASSUME NEW q \in Request, FetchReturns(q) \/ ScanReturns(q)
      PROVE  JobStep(r)
  <2>1. pc[q] \notin {"new", "over"}
    BY <1>3 DEF FetchReturns, ScanReturns
  <2>2. job[q].status \notin Finished
    BY <2>1 DEF JobInv
  <2>3. job'[r] = job[r] \/ (r = q /\ job[r].status \notin Unknown)
    BY <1>3 DEF FetchReturns, ScanReturns, Write, TypeOK
  <2>. QED  BY <2>1, <2>2, <2>3 DEF PcInv
<1>4. ASSUME NEW p \in Poller, PollDrop(p)
      PROVE  JobStep(r)
  <2>1. \/ job'[r] = job[r]
        \/ /\ poll[p].at = "drop" /\ poll[p].job = r /\ job[r].status \notin Unknown
           /\ job'[r] = [NewJob EXCEPT !.status = "gone"]
    BY <1>4 DEF PollDrop, Drop
  <2>. QED  BY <1>4, <2>1, GoneEntry DEF PcInv
<1>5. CASE \/ \E q \in Request : GrowsOld(q) \/ GraceEnds(q)
           \/ \E p \in Poller : Send(p)
  <2>1. job'[r].status = job[r].status
    <3>1. ASSUME NEW q \in Request, GrowsOld(q)
          PROVE  job'[r].status = job[r].status
      BY <3>1 DEF GrowsOld, TypeOK, Job
    <3>2. ASSUME NEW q \in Request, GraceEnds(q)
          PROVE  job'[r].status = job[r].status
      BY <3>2 DEF GraceEnds, TypeOK, Job
    <3>3. ASSUME NEW p \in Poller, Send(p)
          PROVE  job'[r].status = job[r].status
      BY <3>3 DEF Send, TypeOK, Job
    <3>. QED  BY <1>5, <3>1, <3>2, <3>3
  <2>. QED  BY <2>1 DEF PcInv
<1>6. CASE UNCHANGED job
  BY <1>6 DEF PcInv
<1>. QED
  BY <1>1, <1>2, <1>3, <1>4, <1>5, <1>6
     DEF Next, Thread, RunLocal, DirectGet, DirectReturns, DirectPost, DirectSaved,
         PagePoll, FilePoll, Download, PollCache, Expire

(* A job that a poll has dropped, or a sweep, does not come back when its  *)
(* worker ends (_update of a job that is not there).                       *)
THEOREM GoneForGood == Spec => GoneStaysGone
<1>1. Inv /\ [Next]_vars =>
        [\A r \in Request : job[r].status = "gone" => job'[r].status = "gone"]_vars
  BY JobSteps DEF JobStep
<1>. QED  BY <1>1, Invariance, PTL DEF Spec, GoneStaysGone

(* No sweep and no poll takes a result away before a client has been told, *)
(* or it is old (cleanup_jobs, drop_job).                                  *)
THEOREM ResultsKept == Spec => ResultKept
<1>1. Inv /\ [Next]_vars =>
        [\A r \in Request \ (Inspected \cap PagePolled) :
           job[r].status \in Finished /\ job'[r].status = "gone" =>
              \/ job[r].age = "old" \/ shown[r] # {}
              \/ \E p \in Poller : poll[p].job = r /\ Tells(p, r)]_vars
  <2>. SUFFICES ASSUME Inv, Next, NEW r \in Request, r \notin Inspected \cap PagePolled,
                       job[r].status \in Finished, job'[r].status = "gone",
                       job[r].age # "old", shown[r] = {}
                PROVE  \E p \in Poller : poll[p].job = r /\ Tells(p, r)
    OBVIOUS
  <2>1. ~Stale(r)
    BY DEF Stale, Inv, JobInv
  <2>2. PICK p \in Poller : poll[p].at = "drop" /\ poll[p].job = r
    BY <2>1, JobSteps DEF JobStep
  <2>. QED  BY <2>2 DEF Inv, PollInv, PollOk
<1>. QED  BY <1>1, Invariance, PTL DEF Spec, ResultKept

(* Once a form has been answered, its user and guests get no page that was *)
(* stored before it was submitted (api_page_fetch_start, api_page_post).   *)
THEOREM FormsSeen == Spec => NotOlderThanForm
<1>1. Inv /\ [Next]_vars =>
        [\A r \in Local \ File, f \in Form :
           /\ pc[r] = "new" /\ job'[r].status = "done"
           /\ pc[f] = "over" /\ KeyOf(r) \in {UserOf[f], Anon}
           => f \notin older[job'[r].content]]_vars
  <2>. SUFFICES ASSUME Inv, Next, NEW r \in Local \ File, NEW f \in Form,
                       pc[r] = "new", job'[r].status = "done",
                       pc[f] = "over", KeyOf(r) \in {UserOf[f], Anon},
                       f \in older[job'[r].content]
                PROVE  FALSE
    OBVIOUS
  <2>1. StartLocal(r)
    BY JobSteps DEF JobStep
  <2>2. job[r].status = "none"
    BY DEF Inv, PcInv
  <2>3. /\ cache[KeyOf(r)] # None
        /\ job' = [job EXCEPT ![r] = Ended(cache[KeyOf(r)], TRUE)]
    BY <2>1, <2>2 DEF StartLocal
  <2>4. cache[KeyOf(r)] \in Request
    BY <2>3 DEF Inv, CacheInv, KeyOf, User
  <2>5. job'[r].content = cache[KeyOf(r)]
    BY <2>3, <2>4, EndedEntry DEF Inv, TypeOK
  <2>6. f \in Local
    BY <2>4, <2>5 DEF Inv, OlderInv
  <2>. QED  BY <2>3, <2>5, <2>6 DEF Inv, FormInv
<1>. QED  BY <1>1, Invariance, PTL DEF Spec, NotOlderThanForm
=============================================================================
