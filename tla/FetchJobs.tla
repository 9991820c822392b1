----------------------------- MODULE FetchJobs ------------------------------
(***************************************************************************)
(* The background fetch jobs of browser.py with the routes that start,     *)
(* poll and download them, and the page cache those routes fill.           *)
(*                                                                         *)
(* A request thread starts a job.  For a remote node a worker thread       *)
(* fetches and, if the path begins with /file/, has the content scanned;   *)
(* for the portal's own site the request thread does it and leaves a       *)
(* finished job.  Clients poll and download by job id, any job by any of   *)
(* the routes: a poll copies the job, answers from its copy, and drops the *)
(* job in a step of its own, so that the worker and other polls come       *)
(* between.                                                                *)
(*                                                                         *)
(* Requests are for paths of one remote node or, if they are in Local, for *)
(* one page and the files of the portal's own site; a form there is saved  *)
(* by the script behind the page.  Content is named by the request whose   *)
(* fetch produced it.  Clock and expiry are steps that may come any time.  *)
(***************************************************************************)
EXTENDS Naturals, FiniteSets

CONSTANTS Request,    \* calls that start a fetch; also the job ids
          Local,      \* those to the portal's own site
          File,       \* those by /api/file/fetch: "/file/" is in the path
          PathOf,     \* the path of each to the remote node
          FilePath,   \* the paths that begin with "/file/"
          Form,       \* those that submit a form
          Direct,     \* those by /api/page, which answers without a job
          UserOf,     \* the identity each shows the site; Anon if none
          Anon,
          PagePolled, \* the jobs polled by /api/page/poll; any job may be
                      \* polled and downloaded by the file routes
          Poller,     \* polls and downloads going on at the same time
          Settings,   \* how VIRUS_SCAN may be set: "off", "clamd", "required"
          None,       \* no content
          Blank,      \* the content b""
          MaxStarted  \* bound: how many of the requests are made

(* The keys of the page cache: "node:path" of the remote page, and         *)
(* "node:path:id=user" or "node:path:anon" of the local one.               *)
User == {UserOf[r] : r \in Request} \cup {Anon}
Path == {PathOf[r] : r \in Request \ Local}
Key == User \cup Path

(* The requests whose worker has the content scanned, and those with the   *)
(* ones to the local site whose content is scanned.                        *)
Inspected == {r \in Request \ (Local \cup Direct) : PathOf[r] \in FilePath}
ToScan == Inspected \cup (Local \cap File)

ASSUME JobsAssumption ==
    /\ Local \subseteq Request /\ File \subseteq Request /\ Direct \subseteq Request
    /\ PagePolled \subseteq Request
    /\ Settings \subseteq {"off", "clamd", "required"}
    /\ Form \subseteq Request \ File
    /\ Direct \cap File = {}
    /\ None \notin Request /\ Blank \notin Request \cup {None}
    /\ Path \cap User = {}
    /\ IsFiniteSet(Request) /\ MaxStarted \in Nat

VARIABLES
    scan,    \* how VIRUS_SCAN is set
    pc,      \* how far the thread of each request or its worker is
    job,     \* _jobs
    verdict, \* its scan_result
    older,   \* the forms submitted after a local page was rendered and stored
    saved,   \* the forms the site's script has saved
    cache,   \* the page cache
    poll,    \* what each poll is at
    shown    \* the contents the clients got, by request

vars == <<scan, pc, job, verdict, older, saved, cache, poll, shown>>

Content == Request \cup {None, Blank}
Verdict == {"none", "clean", "infected", "unavailable", "skipped"}
Job == [status : {"none", "fetching", "scanning", "done", "error", "gone"},
        content : Request \cup {None},
        age : {"new", "grace", "over", "old"}]
NewJob == [status |-> "none", content |-> None, age |-> "new"]
Unknown == {"none", "gone"}
Finished == {"done", "error"}

Poll == [at : {"idle", "cache", "drop", "send"}, job : Request \cup {None},
         content : Content]
Idle == [at |-> "idle", job |-> None, content |-> None]

TypeOK ==
    /\ scan \in Settings
    /\ pc \in [Request -> {"new", "run", "store", "after", "fetch", "scan", "over"}]
    /\ job \in [Request -> Job]
    /\ verdict \in [Request -> Verdict]
    /\ older \in [Request -> SUBSET Form]
    /\ saved \subseteq Form
    /\ cache \in [Key -> Content]
    /\ poll \in [Poller -> Poll]
    /\ shown \in [Request -> SUBSET Content]
    /\ \A r \in Request :
         job[r].status \in {"fetching", "scanning"} => job[r].content = None

Init ==
    /\ scan \in Settings
    /\ pc = [r \in Request |-> "new"]
    /\ job = [r \in Request |-> NewJob]
    /\ verdict = [r \in Request |-> "none"]
    /\ older = [r \in Request |-> {}]
    /\ saved = {}
    /\ cache = [k \in Key |-> None]
    /\ poll = [p \in Poller |-> Idle]
    /\ shown = [r \in Request |-> {}]

CanStart(r) ==
    pc[r] = "new" /\ Cardinality({q \in Request : pc[q] # "new"}) < MaxStarted
Go(r, p) == pc' = [pc EXCEPT ![r] = p]
Show(r, c) == shown' = [shown EXCEPT ![r] = @ \cup {c}]

-----------------------------------------------------------------------------
(* The scanner.                                                            *)

(* NullScanner if VIRUS_SCAN is off, else clamd; an exception counts as    *)
(* "unavailable", and "too-large" lets the content through as "clean" does. *)
Verdicts == IF scan = "off" THEN {"skipped"}
            ELSE {"clean", "infected", "unavailable"}

(* The verdicts that take the content away.                                *)
Blocked(v) == v = "infected" \/ (v = "unavailable" /\ scan = "required")

(* The entry of a fetch that has ended.                                    *)
Ended(c, ok) == [NewJob EXCEPT !.status = IF ok THEN "done" ELSE "error",
                               !.content = c]
Scanned(r, v) == IF Blocked(v) THEN Ended(None, FALSE) ELSE Ended(r, TRUE)

-----------------------------------------------------------------------------
(* Requests to the portal's own site.                                      *)

KeyWithoutUser(r) == Anon
KeyOf(r) == UserOf[r]

(* A form drops the page cached for its user and for guests.               *)
InvalidatedForGuests(r) == [cache EXCEPT ![Anon] = None]
Invalidated(r) == [cache EXCEPT ![KeyOf(r)] = None, ![Anon] = None]

Submit(r) ==
    older' = [q \in Request |->
                IF q \in Local \ (File \cup Form) /\ pc[q] = "over"
                THEN older[q] \cup {r} ELSE older[q]]

(* A form does so before its script runs; any other request is answered    *)
(* from the cache if it can be.                                            *)
StartLocal(r) ==
    /\ r \in Local \ (File \cup Direct)
    /\ CanStart(r)
    /\ IF r \in Form
       THEN cache' = Invalidated(r) /\ Submit(r) /\ Go(r, "run") /\ UNCHANGED job
       ELSE /\ IF cache[KeyOf(r)] = None THEN Go(r, "run") /\ UNCHANGED job
               ELSE /\ Go(r, "over")
                    /\ job' = [job EXCEPT ![r] = Ended(cache[KeyOf(r)], TRUE)]
            /\ UNCHANGED <<cache, older>>
    /\ UNCHANGED <<scan, verdict, saved, poll, shown>>

(* SiteServer.fetch_page runs the page's script or reads the page.         *)
Render(r) == saved' = IF r \in Form THEN saved \cup {r} ELSE saved

(* On an error the request is answered at once, and there is no job.       *)
RunLocal(r) ==
    /\ pc[r] = "run"
    /\ \/ Render(r) /\ Go(r, IF r \in Direct THEN "after" ELSE "store")
       \/ /\ Go(r, IF r \in Direct THEN "after" ELSE "over")
          /\ UNCHANGED saved
    /\ UNCHANGED <<scan, job, verdict, older, cache, poll, shown>>

(* The output of a form is not cached.                                     *)
StoreLocal(r) ==
    /\ pc[r] = "store"
    /\ cache' = IF r \in Form THEN cache ELSE [cache EXCEPT ![KeyOf(r)] = r]
    /\ job' = [job EXCEPT ![r] = Ended(r, TRUE)]
    /\ Go(r, "over")
    /\ UNCHANGED <<scan, verdict, older, saved, poll, shown>>

(* A file is read and scanned by the request's thread.                     *)
LocalFile(r) ==
    /\ r \in Local \cap File
    /\ CanStart(r)
    /\ verdict' \in {[verdict EXCEPT ![r] = v] : v \in Verdicts}
    /\ job' = [job EXCEPT ![r] = Scanned(r, verdict'[r])]
    /\ Go(r, "over")
    /\ UNCHANGED <<scan, older, saved, cache, poll, shown>>

-----------------------------------------------------------------------------
(* Requests to the remote node.                                            *)

(* cleanup_jobs: finished more than max_age ago, or past the grace that a  *)
(* download gave the job.                                                  *)
AnyFinished(r) == job[r].status \in Finished
Stale(r) == job[r].status \notin Unknown /\ job[r].age \in {"over", "old"}
Drop(J) == [r \in Request |->
              IF r \in J /\ job[r].status \notin Unknown
              THEN [NewJob EXCEPT !.status = "gone"] ELSE job[r]]

StartRemote(r) ==
    /\ r \notin Local \cup Direct
    /\ CanStart(r)
    /\ job' = [Drop({q \in Request : Stale(q)}) EXCEPT ![r].status = "fetching"]
    /\ Go(r, "fetch")
    /\ UNCHANGED <<scan, verdict, older, saved, cache, poll, shown>>

(* The worker writes to the job only if it is still there.                 *)
WriteAnyway(r, entry) == job' = [job EXCEPT ![r] = entry]
Write(r, entry) ==
    job' = IF job[r].status \in Unknown THEN job ELSE [job EXCEPT ![r] = entry]

(* While a file is scanned, the worker alone has its content.              *)
ScanningInPlace(r) == [NewJob EXCEPT !.status = "scanning", !.content = r]
Scanning(r) == [NewJob EXCEPT !.status = "scanning"]

(* fetch_page returns content, or an error and possibly content beside it, *)
(* or raises.  A path with "/file/" further inside is not scanned.         *)
FetchReturns(r) ==
    /\ r \notin Direct /\ pc[r] = "fetch"
    /\ \/ /\ r \in Inspected
          /\ Write(r, Scanning(r))
          /\ Go(r, "scan")
       \/ /\ \/ r \notin Inspected /\ Write(r, Ended(r, TRUE))
             \/ \E c \in {r, None} : Write(r, Ended(c, FALSE))
          /\ Go(r, "over")
    /\ UNCHANGED <<scan, verdict, older, saved, cache, poll, shown>>

ScanReturns(r) ==
    /\ pc[r] = "scan"
    /\ verdict' \in {[verdict EXCEPT ![r] = v] : v \in Verdicts}
    /\ Write(r, Scanned(r, verdict'[r]))
    /\ Go(r, "over")
    /\ UNCHANGED <<scan, older, saved, cache, poll, shown>>

-----------------------------------------------------------------------------
(* /api/page: no job.                                                      *)

(* A GET of a remote path tries the cache first; b"" counts as a miss.     *)
(* Nothing is scanned.                                                     *)
DirectGet(r) ==
    /\ r \in Direct \ (Local \cup Form)
    /\ CanStart(r)
    /\ IF cache[PathOf[r]] \in Request
       THEN Show(r, cache[PathOf[r]]) /\ Go(r, "over")
       ELSE Go(r, "fetch") /\ UNCHANGED shown
    /\ UNCHANGED <<scan, job, verdict, older, saved, cache, poll>>

DirectReturns(r) ==
    /\ r \in Direct /\ pc[r] = "fetch"
    /\ \/ cache' = [cache EXCEPT ![PathOf[r]] = r] /\ Show(r, r)
       \/ UNCHANGED <<cache, shown>>
    /\ Go(r, "over")
    /\ UNCHANGED <<scan, job, verdict, older, saved, poll>>

(* A POST to the local page drops the cached page after the script ran.    *)
DirectPost(r) ==
    /\ r \in Direct \cap Local \cap Form
    /\ CanStart(r)
    /\ Submit(r) /\ Go(r, "run")
    /\ UNCHANGED <<scan, job, verdict, saved, cache, poll, shown>>

DirectSaved(r) ==
    /\ pc[r] = "after"
    /\ cache' = Invalidated(r)
    /\ IF r \in saved THEN Show(r, r) ELSE UNCHANGED shown
    /\ Go(r, "over")
    /\ UNCHANGED <<scan, job, verdict, older, saved, poll>>

-----------------------------------------------------------------------------
(* Polls and downloads.                                                    *)

Begin(p, at, r, c) ==
    poll' = [poll EXCEPT ![p] = [at |-> at, job |-> r, content |-> c]]
OrBlank(c) == IF c = None THEN Blank ELSE c

(* /api/page/poll takes every job that is neither fetching nor failed for  *)
(* a finished one, and a missing content for b"".                          *)
PagePoll(p, r) ==
    /\ poll[p] = Idle /\ r \in PagePolled
    /\ \/ /\ job[r].status = "error"
          /\ Begin(p, "drop", r, None)
       \/ /\ job[r].status \in {"scanning", "done"}
          /\ Begin(p, IF r \in Local THEN "drop" ELSE "cache", r,
                   OrBlank(job[r].content))
    /\ UNCHANGED <<scan, pc, job, verdict, older, saved, cache, shown>>

PollCache(p) ==
    /\ poll[p].at = "cache"
    /\ cache' = [cache EXCEPT ![PathOf[poll[p].job]] = poll[p].content]
    /\ poll' = [poll EXCEPT ![p].at = "drop"]
    /\ UNCHANGED <<scan, pc, job, verdict, older, saved, shown>>

(* drop_job, and the answer.                                               *)
PollDrop(p) ==
    /\ poll[p].at = "drop"
    /\ job' = Drop({poll[p].job})
    /\ IF poll[p].content = None THEN UNCHANGED shown
       ELSE Show(poll[p].job, poll[p].content)
    /\ poll' = [poll EXCEPT ![p] = Idle]
    /\ UNCHANGED <<scan, pc, verdict, older, saved, cache>>

(* /api/file/poll only drops failed jobs.                                  *)
FilePoll(p, r) ==
    /\ poll[p] = Idle /\ job[r].status = "error"
    /\ Begin(p, "drop", r, None)
    /\ UNCHANGED <<scan, pc, job, verdict, older, saved, cache, shown>>

(* /api/file/download: the copy of a finished job is sent, and the job is  *)
(* kept for a second request of it, for 60 s from then.                    *)
Download(p, r) ==
    /\ poll[p] = Idle /\ job[r].status = "done"
    /\ IF verdict[r] = "infected" THEN Begin(p, "drop", r, None)
       ELSE Begin(p, "send", r, OrBlank(job[r].content))
    /\ UNCHANGED <<scan, pc, job, verdict, older, saved, cache, shown>>

Send(p) ==
    /\ poll[p].at = "send"
    /\ job' = [job EXCEPT ![poll[p].job].age =
                 IF job[poll[p].job].status \in Unknown \/ @ = "old" THEN @
                 ELSE "grace"]
    /\ Show(poll[p].job, poll[p].content)
    /\ poll' = [poll EXCEPT ![p] = Idle]
    /\ UNCHANGED <<scan, pc, verdict, older, saved, cache>>

-----------------------------------------------------------------------------
(* Time.                                                                   *)

GrowsOld(r) ==
    /\ job[r].status \in Finished /\ job[r].age # "old"
    /\ job' = [job EXCEPT ![r].age = "old"]
    /\ UNCHANGED <<scan, pc, verdict, older, saved, cache, poll, shown>>

GraceEnds(r) ==
    /\ job[r].age = "grace"
    /\ job' = [job EXCEPT ![r].age = "over"]
    /\ UNCHANGED <<scan, pc, verdict, older, saved, cache, poll, shown>>

(* The entry's time is up, another entry pushes it out, or an              *)
(* administrator clears the cache.                                         *)
Expire(k) ==
    /\ cache[k] # None
    /\ cache' = [cache EXCEPT ![k] = None]
    /\ UNCHANGED <<scan, pc, job, verdict, older, saved, poll, shown>>

Thread(r) ==
    \/ RunLocal(r) \/ StoreLocal(r) \/ FetchReturns(r) \/ ScanReturns(r)
    \/ DirectReturns(r) \/ DirectSaved(r)

Next ==
    \/ \E r \in Request :
         \/ StartLocal(r) \/ LocalFile(r) \/ StartRemote(r)
         \/ DirectGet(r) \/ DirectPost(r)
         \/ Thread(r) \/ GrowsOld(r) \/ GraceEnds(r)
    \/ \E p \in Poller, r \in Request :
         PagePoll(p, r) \/ FilePoll(p, r) \/ Download(p, r)
    \/ \E p \in Poller : PollCache(p) \/ PollDrop(p) \/ Send(p)
    \/ \E k \in Key : Expire(k)

Spec == Init /\ [][Next]_vars

-----------------------------------------------------------------------------
(* Properties.                                                             *)

(* However polls, downloads and the worker overlap, no client gets the     *)
(* content of a job for a path that begins with /file/, or of a file of    *)
(* the local site, unless the scanner was asked and did not find it        *)
(* infected or, if scanning is required, out of reach.  (Other paths, and  *)
(* /api/page, have no scan: the README names them.)                        *)
ServedScanned ==
    \A r \in ToScan : shown[r] \cap Request # {} =>
        verdict[r] # "none" /\ ~Blocked(verdict[r]) /\ verdict[r] # "infected"

(* Two users of the local site never see each other's rendering of a page, *)
(* although both are answered from one cache.                              *)
OwnRendering ==
    \A r \in Local : \A q \in shown[r] \cap Request : UserOf[q] = UserOf[r]

(* A job that was dropped does not come back when its worker ends.         *)
GoneStaysGone ==
    [][\A r \in Request : job[r].status = "gone" => job'[r].status = "gone"]_vars

(* The result of a fetch stays until it is old, or a client has been told  *)
(* it or is being told it by the poll that drops it; only a job polled as  *)
(* a page's while it is scanned may go before (cleanup_jobs, drop_job).    *)
Tells(p, r) ==
    poll[p].content = IF job[r].status = "error" THEN None
                                                 ELSE OrBlank(job[r].content)
ResultKept ==
    [][\A r \in Request \ (Inspected \cap PagePolled) :
         job[r].status \in Finished /\ job'[r].status = "gone" =>
            \/ job[r].age = "old" \/ shown[r] # {}
            \/ \E p \in Poller : poll[p].job = r /\ Tells(p, r)]_vars

(* routes.py, api_page_fetch_start and api_page_post: once a form has been *)
(* answered, its user and guests get no page that was stored before it was *)
(* submitted.  (A page under way beside the form may be stored after it.)  *)
NotOlderThanForm ==
    [][\A r \in Local \ File, f \in Form :
         /\ pc[r] = "new" /\ job'[r].status = "done"
         /\ pc[f] = "over" /\ KeyOf(r) \in {UserOf[f], Anon}
         => f \notin older[job'[r].content]]_vars

=============================================================================
