# NomadPortal in TLA+

NomadPortal is a web portal to the NomadNet mesh: a Flask application (one
gunicorn worker, eight request threads) beside the Reticulum stack (RNS) and its
message layer (LXMF), which call back on threads of their own.  It browses remote
NomadNet nodes, serves its own site to its users, and sends and receives LXMF
messages for them.  Its state is Python dicts under per-object locks, copied to
JSON files and attachment directories by whichever thread changed them.

These modules state what the code promises about that state when requests,
worker threads, LXMF's and Reticulum's callbacks, expiring entries, failing
writes and crashes come in any order.  TLC checks the modules on small
instances; TLAPS proves the theorems for every value of the constants.
`PROJECT.json` lists the components, the runs, the source lines behind every
definition, the findings, the hazards and the theorems.

- [1 Inventory](#1-inventory) - [2 Modules and code](#2-modules-and-code) -
  [3 Runs](#3-runs) - [4 Fairness](#4-fairness) -
  [5 Proofs](#5-proofs) - [6 Assumptions](#6-assumptions) -
  [7 Findings](#7-findings) - [8 Not modelled](#8-not-modelled) - [9 Plan](#9-plan)

## 1 Inventory

All paths are under `src/nomadnet_web/`.  "Correct" names what a reviewer of the
component would insist on.

| component | state | operations | hard behaviour | correct means |
|---|---|---|---|---|
| **Message store** `message_store.py`, `attachment_store.py` | `_sent`, `_received` (lists of shared dicts, newest first, cut to `MAX_MESSAGES`), `messages.json` and one temporary file, one blob directory per message id | save_sent, save_received, update_sent, delete_conversation, mark_read; write, read, evict blobs; load | evictions and file writes run after the lock is released; delivery changes a message's id; crash between any two steps | a full list loses only its oldest; blobs live as long as their message; no status goes backwards; the file is current |
| **Messaging** `messaging.py` | delivery threads, per-user LXMF routers | send, deliver, LXMF callbacks, receive, announce, set up or reset a router | late or repeated reports; blobs read back long after the save; router built outside the lock | every queued message settles; attachments travel; one live router per user |
| **Page fetch** `browser.py` 513-615, 720-864, 990-1582 | link cache with its order, one lock per destination, one result dict and event per attempt | fetch a page, reuse/open/cache/evict a link, time out, retry, salvage, keepalive reset | callbacks after the time-out; links evicted by fetches of other nodes; a link closing between check and use | no link shared or leaked; every fetch returns and explains itself |
| **Fetch jobs** `browser.py` 1587-1744, `routes.py` 560-1148 | jobs by id, page cache | start, worker, poll, download, drop, clean up | job copied, answered from the copy, dropped later; rendering cached after an invalidation | nothing unscanned is handed out; no user sees another's page; results are kept until told |
| **Page cache** `cache.py` | entries with expiry, at most `max_entries` | get, set, invalidate, clear, evict | entries vanish at any time | bound kept; no stale render after a save |
| **Site server** `site_server.py` | registered pages | fetch_page, announce, background jobs | script runs for seconds while others read its page | - |
| **Scanner** `scanner.py` | - | scan | size limit, clamd down | blocked content never leaves |
| **Identities and routers** `identity_store.py`, `messaging.py` 243-451 | identities by user, announce cooldown, routers by user | create on first use, reset, rename, announce | check-then-create without a lock, in-place rewrite of the file | a user with an identity has a router and keeps the identity until it is reset; a reset leaves no old router |
| **Nodes, favourites, blocklist** `browser.py` 870-969, 1834-2310 | node records, dirty flag, two more files | record, register, flush | dirty cleared before a write that may fail; exit handler beside the flusher | what was recorded is eventually on disk |
| **LXMF peer tracker** `lxmf_tracker.py` | peers, dirty flag | record, flush | as above | as above |
| **Pings, announce waiter** `browser.py` 102-138, 1746-1832 | one event per destination, one result per ping | wait, ping | announce between wait and clear; callbacks against the time-out | a waiter does not miss an announce that arrived while it waited |
| **Propagation sync** `lxmf_sync.py` | nodes heard, last results, next run | announce, tick, sync one, pick | choice from stale records | a node is left only with cause; every router is synced again and again |
| **Contacts** `contact_store.py` | contacts per user, one file each | upsert, delete, icon, favourite | two store objects for one file | an update is not lost |
| **Users, sessions, lockout** `auth.py`, `user_store.py`, `admin_routes.py` | users, live sessions, failure counters | log in, out, revoke, enable, admin | admin flag frozen in the session | a revoked or disabled user is out |
| **Access rules, rate limit, UI settings, CSRF** | settings, sliding windows | check, update | - | the limit holds per window |
| **Start-up, configuration, log buffer, front end, scripts** | - | - | once, or presentation only | - |

How they interact: the routes call every other part from request threads.
A message route calls messaging, which calls the message store, which calls the
attachment store; LXMF calls messaging back.  A page route starts a fetch job,
whose worker calls page fetch and the scanner; Reticulum calls page fetch back.
The page cache is shared by the routes.  Page fetch, pings and the tracker update
node and peer records, which flusher threads write to disk.  Messaging takes
identities from the identity store, which an administrator may reset.  The
hazards this gives rise to are in `PROJECT.json`, each with the properties that
would catch it.

## 2 Modules and code

| module | models | extends |
|---|---|---|
| `MessageLifecycle` | the abstract promise: what a user sees of each message | |
| `MessageStore` | message and attachment store | |
| `Messaging` | `_send`, the delivery thread, LXMF's callbacks, `_on_delivery`, two routes, crashes | `MessageStore` |
| `MCMessaging` | constants for TLC | `Messaging` |
| `MessagingProofs` | theorems of the store and of messaging; the refinement | `Messaging` |
| `PageFetch` | `fetch_page`, link cache, keepalive reset | |
| `MCPageFetch` | constants for TLC | `PageFetch` |
| `PageFetchProofs` | theorems | `PageFetch` |
| `FetchJobs` | jobs, page and file routes, page cache | |
| `MCFetchJobs` | constants for TLC | `FetchJobs` |
| `FetchJobsProofs` | theorems | `FetchJobs` |
| `Accounts` | login, sessions, lockout, user registry, the administrator's actions, `users.yml` | |
| `MCAccounts` | symmetry; a history variable | `Accounts` |
| `AccountsProofs` | theorems | `MCAccounts` |
| `UserRouters` | identities, announce cooldown, per-user routers, `store.yml` | |
| `MCUserRouters` | symmetry for TLC | `UserRouters` |
| `UserRoutersProofs` | theorems | `UserRouters` |
| `DirtyFlush` | one table with its mark, its flusher and its exit handler | |
| `Records` | peers, nodes, favourites and the exit | `DirtyFlush`, twice by `INSTANCE` |
| `DirtyFlushProofs`, `RecordsProofs` | theorems | `DirtyFlush`, `Records` |
| `PropagationSync` | the loop that keeps the routers in touch with a propagation node | |
| `PropagationSyncProofs` | theorems | `PropagationSync` |

**MessageStore.**  `listed` is the set of messages in `_sent` and `_received`,
`born` their order, `msg` the dicts.  The dicts are shared by the lists and by
every snapshot, as in Python, where `_snapshot` copies the lists and not the
dicts.  One action per method for its half under the lock (`Save`, `UpdateSent`,
`DeleteConversation`, `MarkRead`), which leaves the rest of the call in `call[t]`: the ids
to evict, one `Evict` step each, then `PersistOpen`, `PersistWrite` and
`PersistReplace` on the one `messages.json.tmp`.  The file a thread has open
follows the inode: another thread's rename turns its descriptor from the
temporary name to `messages.json`, and a second rename unlinks it.  Two writers of
one file may leave text that does not parse.  `Restart` is `_load`.

**Messaging.**  `phase[m]` is how far `_send` and its delivery thread, or
`_on_delivery`, have come with a message.  `Attach` writes the blobs, `SendSave`
calls the store and, when that call returns, the delivery thread starts; it ends
in `GiveUp` or `HandOver`, and LXMF then calls `Delivered` or `Failed`, again and
late if it likes.  The phase after `HandOver` says how the message went out: as its
sender gave it (`handed`), without its attachments because they were not there
(`stripped`), or without them because reading them failed (`unread`).  `Attach`,
`HandOver`, the eviction of an id (`EvictError`) and the file's two steps
(`PersistError`) may fail; no failure is reported to anybody, as in the code, which
logs it.  `Crash` composes with the store's `Restart`.

**MessageLifecycle.**  Statuses, arrivals that push only out of a full list,
deletions by owner and peer, restarts that never invent a status, reports that come
too late and change nothing (`Ignore`).  `Messaging`
implements it with `status[m]` mapped to `Status(m)` and `restarts` to `crashes`.

**PageFetch.**  `pc[f]` walks through `_fetch_page_locked`; `link[f]` is the
link of the current attempt, and the `result` dict with its event belongs to the
link, since each attempt makes a new one with its link.  Reticulum's steps
(`Established`, `Response`, `RequestFailed`, `PeerCloses`, the closed callback in
its two forms) need no permission from the fetch.  A stall leaves the event
unset, as the code does.  The cache is `cache` with `before` for the order.

**FetchJobs.**  `pc[r]` is the thread behind a request: the route itself for the
portal's own site, a worker for a remote node.  `poll[p]` holds the copy that
`get_job` returned; answering, caching and dropping are steps after it.  Two tests of
a path decide separately, as in the code: `File` are the requests of
`/api/file/fetch`, which asks for `/file/` anywhere in the path, and `Inspected` those
whose worker scans, which asks for it at the start (`PathOf`, `FilePath`).  Every
route takes the id of any job.  Content is named by the request whose fetch produced it, and `older` says which forms
were submitted after a page was rendered and stored.

**Accounts.**  `pc[c]` is how far the login request of browser `c` has come:
look at the failed attempts, read the record under the store's lock, check the
password, record the session, register the user, answer.  Records are shared dicts in
the code; `held[c] = Live` says that a login holds the dict that is still in the
store, and a deletion turns it into the value it had.  `session` is by user
and `cookie` by browser, as there is one entry of `_user_cache` for all
of a user's browsers, and a request acts with the rights of that entry.  `Saved` and
`SaveFails` end the save that every change of the registry begins under the lock; a
failed one leaves `file = None`.  `Restart` loads what is there, and of a
file cut short any subset of the users.

**UserRouters.**  Identities are numbers, the order of their hashes, since
`yaml.dump` sorts a dict that was loaded and `get_for_user` takes the first.  A
request thread walks through `ensure_for_user`, `create`, `_save` and
`_init_user_router` (`pc`, with `then` for what follows the save); `Deferred` is
the thread that sets up delivery once Reticulum is ready.  A router is named by its
identity.  Any of the file operations, the search of a dict that another thread
resizes meanwhile (`stirred`) and making a router's directory may raise; nothing on
the way catches that, so it ends the request, or the start of delivery, where it
stands (`Abort`).  `unbuilt` and `told` are history.

**DirtyFlush, Records.**  A record is its version.  `DirtyFlush` has one action for each
place where another thread may come in between: change, mark, clear, copy, write,
rename, fail.  `Copy` copies the keys and `Write` reads the records, because the
snapshot shares them.  `Records` instantiates it for peers and nodes and runs the
exit handlers (`stage`) beside the loops, in the reverse order of their registration,
as `atexit` does.  Favourites are written by the request that changed them.  It takes
its snapshot under the lock: `dict(self._favorites)` fixes which users are in it and
shares their lists, which `DumpFavorites` reads later.  Open, dump and rename are
steps of their own, through one temporary file, and each may fail (`FavoritesFail`).

**PropagationSync.**  A tick is `Tick` (does the pick have to change?), `KeepPick` or
`Switch`, `ListRouters`, one `Sync` a router, `TickEnds`; announces, ageing, logins
and resets come in between.  The routers are those of `UserRouters`, seen
only as users that have one.  `against`, `cause` and `after` are history.

Definitions that no other definition uses, such as `UpdateSentKeepsId` or
`KeyWithoutUser`, are plausible mistakes in the definition after them;
`PROJECT.json` "mutants" says which property must notice which.

## 3 Runs

| run | instance | what it shows |
|---|---|---|
| `messaging_sent` | 2 threads, 2 sent messages of two users to one peer, one with attachments, lists of 1, 1 crash, 1 failed read, write or eviction, 2 reports a message, 1 deletion | types and the length of the lists, `AttachmentsTravel`, `BlobsOfListedKept`, refinement of `MessageLifecycle` |
| `messaging_mixed` | 1 sent and 2 received messages of different owners, 1 crash, 1 failed write or eviction, 1 deletion or read mark | `NoInboundOrphans`, `BlobsOfListedKept`, refinement |
| `messaging_settles` | 2 sent messages, a write error, no crash | `QueuedSettles` |
| `messaging_file` | 2 sent messages, no error, no crash | `FileIsCurrent` is **violated** |
| `fetch_links` | 3 fetches, two of one node, one of them the keepalive's, a cache of 1 link, 2 links | the cache bound, `ExclusiveUse`, `NoLeak`, `Explained` |
| `fetch_ends` | 2 fetches of one node, 2 links | `FetchEnds` |
| `fetch_jobs` | any 3 of 9 requests (a remote path that begins with `/file/` and one that has it further inside, a user's local page twice and another user's, local form and file, direct GET and POST), 1 poller | `ServedScanned`, `OwnRendering`, `GoneStaysGone`, `ResultKept`, `NotOlderThanForm` |
| `accounts` | 2 browsers; a local user, an OIDC user named in the settings, the super administrator; 3 logins, 2 changes, 1 failed save or restart, a lockout after 1 failure | `LockoutHolds` (how far the count of failed logins can get), `FileFollows`, `OutStaysOut`, `RightsWereTrue` |
| `routers` | 1 user, 2 request threads and the start of delivery, 3 key pairs, 3 requests, 1 crash or failure; with and without an identity on disk | `EveryUserReachable`, `IdentityKept`, `KeyBeforeEntry`, `AnnouncesSpaced` |
| `routers_reset` | the same | `ResetTakesEffect` is **violated** |
| `records` | 1 peer, 1 node, favourites of 2 users, announces and 2 requests, 2 versions of a record, 3 changes, 1 restart | `CleanIsSaved`, `FavoritesSaved`, `DiskGoesForward`, `EventuallySaved` |
| `propagation` | 2 nodes at 1 or 2 hops, 2 users, failures counted up to 3 as in the code | `OnceMore`, `SwitchedWithCause`, `KeptWarm` |

Why the bounds are enough.  Every race in the store is between two calls: two
threads inside it give a shared temporary file, an eviction against a save, and
all three places a descriptor can point to.  Lists of one message make every
second save evict.  One crash may come at every step, and what is loaded no
longer depends on how the file came about.  Two reports give "failed" after
"delivered" and the reverse.  With a cache of one link every fetch of another
node evicts; two fetches of one node contend for its lock, and the third with
the keepalive makes both ways in which a link disappears without that lock.
`MaxLinks = 2` allows a cached link to be reused and a new one opened after
it.  Three requests suffice for the properties of `fetch_jobs`, which relate two
requests through the cache or a job to the one start that cleans up, with one
more beside them; each kind of request is among the nine to choose from.
Two browsers give a login beside an administrator and beside another login of the
same user, and three logins let one of them come after the change; two changes are
a disabling and what might undo it.  Two requests and the start of delivery give
every overlap of building, dropping and inserting a router, and two key pairs for
one user with a third after a reset; one crash or failure may come at any step of
any of them, and the proofs allow any number.  A table needs one record for its races, which
are between the mark, the copy and a second flush; two versions tell an old file
from a new one.  Two users and two requests give the snapshot that lacks the other
user's list, and three changes a request that makes good what two have spoilt.
Two nodes and two users suffice for a switch and for one router
failing beside another.
Time only ever makes a job, a session or an announce old, ends its grace or an entry's life, so that
unordered steps cover every clock.  The proofs of section 5 have no bounds.

`CHECK_DEADLOCK FALSE` is set in every cfg: a system whose bounded requests have
all been served has nothing left to do.  TLC checks `ImplementsLifecycle`, which
`MessagingProofs` proves, in the first two runs.  Symmetry is used only where
safety properties alone are checked.

## 4 Fairness

- `Messaging`: weak fairness of each thread inside the store, as it only ever waits
  for the lock or the disk, and strong fairness of `SendSave`, of the end of a
  delivery thread and of LXMF's reports.  Strong, because `Thread` bounds the
  number of calls at a time in the model only: in the code these run on threads of
  their own that nobody keeps out.  Nothing is asked of deletions, received
  messages or crashes.
- `PageFetch`: weak fairness of each fetch's own steps.  Every wait in
  `_fetch_page_locked` has a time-out, so the thread goes on by itself; Reticulum
  owes nothing, not even the closed callback.  Weak fairness is enough for the lock of
  a destination too: each call of `fetch_page` in the model takes it once, so that
  whoever waits for it finds it free for good in the end.
- `Records`: weak fairness of the two loops, which wake up every minute, and of the
  mark that follows a change in the same method.  Nobody has to change anything,
  and writes may fail: `EventuallySaved` excuses a flush that failed.
- `PropagationSync`: weak fairness of `Start` and of the loop, which catches every
  exception of a tick.  Announces and logins need not come: `KeptWarm` speaks of
  users that keep their router while some node stays fresh.
- `FetchJobs`, `Accounts`, `UserRouters`: none; only safety is stated.

## 5 Proofs

Every theorem holds for any number of threads, users, messages, links and so on,
and for any value of the bounds, from the named assumption of its module alone
(finite sets where something is counted, distinct markers, positive bounds).  In
each module the properties of section 3 are not inductive by themselves; `Inv` is
the strengthening that is, `Invariance` (`StoreInvariant` for the store) says that
it always holds, and what follows it takes the properties from it.

**MessagingProofs** first proves `StoreInv` of the store on its own:

- `EntryInv`: a dict carries the id that goes with its state, so that an update or
  an eviction meant for one message cannot reach another;
- `OrderInv`: saving orders messages strictly, hence the cut to the newest drops
  only from a full list and never the message just inserted;
- `ListsInv`: the lists, every snapshot and whatever the two files hold are within
  the bound and name saved messages only;
- `PendingInv`: what a thread has yet to evict belongs to messages that have left
  the lists, which they never enter again;
- `FileInv`: a file may be behind a dict, never ahead of it.

It then adds how each phase of a message relates to the store
(`HandlingInv`): blobs exist before the message is saved, and until LXMF has a
listed message the blobs its entry lists are where the delivery thread will look.  From `Inv`
follow `TypeCorrect`, `ReceivedBlobsOwned`, `AttachmentsGoOut` and, as an action
property, `BlobsOfListedStay`.  `UsesTheStore` shows that the callers only ever
take the store's own steps, so `StoreInvariant` carries over.  `Refinement`: every
step of the detailed system is a step of `MessageLifecycle` under the mapping, or
a stutter.  `FileInv` is what maps a crash to `Restart`; `EntryInv` maps an update
to `Settle` of the right message.

**PageFetchProofs.**  `TypeCorrect` with the bound of the cache needs `OrderInv`:
`before` is transitive and without cycles, so that a full cache has an oldest
entry.  `OneUser` rests on `LockInv` (a fetch inside holds the lock of its
destination) and `OwnInv` (whoever refers to a link, fetch or cache, is of the
link's one destination), which needs `NewInv`, as a link is taken when nobody
knows it.  `NoLinkLeaked` needs `LeakInv`, which is stronger than `NoLeak`: it
names the points at which a fetch, rather than the cache or an evicting thread,
answers for an open link.  `AlwaysExplained` needs `ResultInv`: an answer that
comes late goes to the result of its own attempt, and a settled result stays
settled.

**FetchJobsProofs.**  `OnlyScannedServed` and `OwnRenderingOnly` are about what is
sent; the invariant follows the content back through the poll's copy (`PollInv`),
the job (`JobInv`), the page cache (`CacheInv`) and the thread (`PcInv`).
`PollInv` says that the copy is what the job still says unless the job is gone,
which is true but for a file that is polled as a page; `ResultsKept` rests on it:
the only results that disappear before a client was told are old ones, and files
that a page poll answered with "scanning".  `FormsSeen` needs `FormInv` and
`OlderInv`: what is under a key when a form is through was stored after the form
began.  `GoneForGood` needs that a thread that is still at work has an unfinished
job or none.  What is claimed of scans is claimed of the jobs in `ToScan` alone:
`Inspected`, of remote paths that begin with `/file/`, and the local site's files;
`PathOf` and `FilePath` are arbitrary, so that paths of every other kind are there too.

**AccountsProofs.**  `FileKeepsUp` needs `WhoInv`, since a login changes the
registry through a record it has held since before; with it go `ShutOutForGood`
and `RightsAreTrue`, the latter about `MCSpec`, whose history variable keeps what
the store granted during each login.  `LockedOutInTime` has an invariant of its
own, `LockInv`: with one or two browsers, whoever may still fail, is about to
count or is about to write back the old count bounds the count.  The proof for any
number of browsers failed for a good reason: an earlier version of the model
claimed `failed <= LoginMax + browsers - 1`, and three overlapping requests refute
it. `_is_locked_out` reads the list of failures and writes a filtered copy back
(`auth.py:152`).  Of three requests in flight one may write back a list from
before the limit was reached, which lets the second try, then the third one from
after it, on top of which the second counts its failure; and so on, one higher
each time.  `LockoutHolds` is therefore stated for one browser, where the limit is
exact, and two, where it is one off; `CountInv` bounds the count by the number of
logins for any.

**UserRoutersProofs.**  `AllReachable` needs `ReachInv`, which says who is on the way
while a user has no router: `Deferred` before it has listed the identities, a
listed one still to do, a request thread that will look for the router once
more, or an error that ended one of them since (`unbuilt`).  It holds because
`create` enters the identity before it looks and `setup_delivery` sets `_identity_store` before it lists, so that one of the two
sees the other.  `KeysFirst` and `IdentityStays` need `NewInv` (until it is entered,
a new identity is known to the thread that generated it alone) and `RankInv` (an identity is entered behind all others, so the first one
stays the first).  `FewAnnounces` needs `ToldInv`: while an identity is not cool,
no announce of it has been let through, and afterwards only threads that had
checked before still get through.

**DirtyFlushProofs, RecordsProofs.**  `LoopInv` of one table: a table with neither
mark nor marking thread is on disk, or in the hands of a flush that will write
exactly it (`CleanInv`), and what a flush is about to write is no older than the
file (`ForwardInv`).  Both hold while the loop alone flushes.  The exit handler
runs beside it, so `RecordsProofs` keeps `LoopInv` of each table while the exit
has not come to it, and types only afterwards; this is what `NoMarkLost` and
`NothingOlder` say too.  `FavoritesKept` needs `FavoritesInv`: while nothing is in
doubt, no two requests have the file open, every snapshot on its way names every user who has a
list, and a text about to be renamed is current unless another request has yet to
open the file, which will then write last.

**PropagationSyncProofs.**  `LeftWithCause` needs `CountersInv`: the counters by
which the loop decides are those of the present node, although a switch resets
them while logins and resets come and go.  `DroppedOnceMore` needs `DroppedInv`: a
router that is still in the copy of a tick has had no sync since it was dropped.

Only model-checked: `QueuedSettles`, `FetchEnds`, `EventuallySaved` and `KeptWarm`
(liveness under fairness is beyond the prover).

## 6 Assumptions

Of the libraries, from how the code uses them: LXMF delivers an inbound message
once, reports on an outbound one only after it was handed over, at least once,
perhaps twice or late, and gives a delivered message a hash; its queue is lost in a
crash.  A link is established at most once, a request is answered or fails at most
once, perhaps after its link closed; the closed callback runs some time after the
close, whichever side closed.

Of the abstraction: the attachments of a message are one blob, so that all are
written, read or evicted or none.  A directory without a blob that an attempt to write
has left behind is no blob.  `os.listdir` of a message's directory does not raise in
an eviction (`attachment_store.py:173`, where it would end the call before the file is
written); in a read it may, which ends the delivery thread with a report of failure (`GiveUp`).
`json.dump` reads the dicts in one step; what a crash leaves of the
temporary file is never read before it is truncated, so `Restart` has it absent;
delete and mark-read come with an owner, as the routes give one; a message
between two users of one portal is not modelled as two entries.  The keepalive's
three failures before a reset count as one.  A local page's key names its
user only: one page per site stands for the cache of each.  An exception in a
worker is an error result.  The verdict "too-large" is "clean" (`scanner.py:18`).  A
local GET by `/api/page` renders its page and touches no
state modelled here.  Starting a remote job does the clean-up and the insert
in one step, since both only concern jobs that others may drop at any
time.  A browser makes one request at a time, and a request refused by the rate
limit is one that was not made.  A YAML file cut short
loads a subset of the users or identities it was to hold (if it does not parse
at all the portal does not start).  A failed `to_file` of a key is not noticed
(`identity_store.py:77`), and a router that LXMF fails to build is logged; any other
failure in `UserRouters` is an exception that ends the request.
A favourites file that does not parse loads as no favourites.  Two requests that have
it open together may leave the text of either or one that does not parse; a mixture
that does parse is not among the outcomes.  A sync
counts as a success when LXMF takes the request.  The failed logins of a user leave the
window of the lockout together.  A counter of versions reaches at least 1, and no path
is a user's name (`RecordsAssumption`, `JobsAssumption`).

Bounds: `MaxCrashes`, `MaxErrors`, `MaxReports`, `MaxRequests` (Messaging),
`MaxLinks` (PageFetch; `FetchEnds` excuses a fetch that finds none left),
`MaxStarted` (FetchJobs), `MaxLogins`, `MaxChanges`,
`MaxFaults` (Accounts), `MaxIdentity`, `MaxRequests`, `MaxFaults` (UserRouters),
`MaxVersion`, `MaxChanges`, `MaxRestarts` (Records).

## 7 Findings

Two are runs that TLC must find violated; each quotes the text it contradicts.

1. `messaging_file`: overlapping calls share `messages.json.tmp`; without any failed
   write the file ends up stale or unparseable (`message_store.py:135`).
2. `routers_reset`: a router under construction for the old key pair is put into
   the table after the reset has removed it, and is used from then on; the
   docstring has the new address take effect immediately (`messaging.py:314`).

Observed while modelling, stated here without a run.  The properties above allow
exactly this much and say so where they do.

- Delivery renames a sent message's id but not its blob directory; its attachments
  stay on disk for ever (`message_store.py:68`, against `attachment_store.py:19-22`).
- A fetch fails for want of a path while an active link to the node is cached
  (`browser.py:1101`), and tearing a stalled link down runs its closed callback,
  which replaces the watchdog's verdict by a retryable one (`browser.py:1344`).
- A failed write of an attachment is logged and the message goes out without it, and
  so does one whose attachment is there but cannot be read (`messaging.py:734`,
  `attachment_store.py:158`): nobody is told.  `AttachmentsTravel` speaks of
  attachments that an entry lists and that nothing failed to read; it rules out that
  one is evicted under its message.  A failed eviction leaves the blobs of a message
  that is gone on disk (`attachment_store.py:180`), which `NoInboundOrphans` excuses.
- With `VIRUS_SCAN=required` a file above the size limit is handed out unscanned
  (`browser.py:1671`, against `scanner.py:212`).  So is a file whose path has `/file/`
  further inside, like `/x/file/y`: `/api/file/fetch` asks for `/file/` anywhere in the
  path (`routes.py:931`), the worker scans those that begin with it
  (`browser.py:1646`).  `/api/file/download` sends any finished job, a page too
  (`routes.py:1090`), and `/api/page` fetches any path, also one under `/file/`, and
  scans nothing, against `README.md:369`, "before they reach the user".
  `ServedScanned` is about the paths that the worker scans.
- A page rendered while a form's script runs is cached after the invalidation, and
  later requests do not see the save (`routes.py:785`, against the comment above it);
  a form also leaves other users' cached renderings of the page in place.
- A failed flush is not tried again, against the docstring of `_flush_if_dirty`
  (`lxmf_tracker.py:181`, `browser.py:2177`): `_persist` swallows the exception.
- At a clean exit a flush that the loop has begun may be lost, as the exit handler
  finds the mark cleared and the loop is a daemon thread; or the loop may rename its
  older snapshot last (`lxmf_tracker.py:59`).
- An older snapshot of the favourites that is renamed last loses the list of a user
  whose first favourite came meanwhile; two requests that have `favorites.json.tmp` open
  together leave an older, mixed or unparseable file; and a failed write is logged and
  forgotten (`browser.py:2228-2237`).  Only the next request that runs alone makes it
  good, and a restart before that loses what is missing.  `FavoritesSaved` excuses
  exactly these (`doubt`).
- An error while `store.yml` or a key is written, or when the search for a user's
  identity meets an insert by another thread, is caught nowhere on the way
  (`identity_store.py:322`, `auth.py:401`, `routes.py:1427`): the request ends, perhaps
  with a new identity and without a router, until the user's router is next looked for.  If
  the directory of one router cannot be made, which lies outside the `try`
  (`messaging.py:284`), the start of delivery sets up no router after it.
  `EveryUserReachable` excuses users whose request, or start, ended so.
- Two requests may both announce an identity within one cooldown; a restart may put an
  identity without its key into service (`identity_store.py:204`, `323`).
- A favourite of a node that never announced is on disk before its node; after a
  crash in between it can not be removed (`browser.py:1869`).
- With three requests for one user in flight, the count of failed logins may pass the
  limit by more than the requests beside the last: each check of the limit writes back
  the list it read (`auth.py:152`).
- A login under way when its local user is deleted registers the user anew, as a
  record without a password (`auth.py:405`).
- A restart signs everybody out, with a stable `FLASK_SECRET_KEY` too, since sessions are in
  memory (`auth.py:51`, against `README.md:124`).
- Of two identities created for one user by two first requests, a restart may make the
  other the one the user goes by (`identity_store.py:101`).
- A propagation node whose syncs fail is picked again at once if it has the fewest
  hops (`lxmf_sync.py:394`).
- The docstring of `_on_propagation_announce` says that when an announce "makes a
  materially better candidate available, we can re-pick on the next tick"
  (`lxmf_sync.py:201-203`).  `_tick` does not: it picks anew only when the node has gone
  stale or has failed often enough, as the module's docstring says
  (`lxmf_sync.py:25-27`).  `SwitchedWithCause` states the code and the latter, and is
  against the former; a node that is nearer is passed over while the present one works.

## 8 Not modelled

Reticulum's and LXMF's protocols (external); the clamd protocol and the OIDC
exchange; wording, HTML, statistics, sizes and progress; identifying to a node over
a link; the repair of Reticulum's tables and sockets by the keepalive.

Start-up and configuration run before anything is concurrent.  The contact store is one
dict and one file per user with the write of the favourites, which `Records` has.
Rate limit, CSRF token, log buffer, page-cache eviction and UI settings are sequential
code under one lock or on one session, within reach of a unit test.  Access rules
are conditions without state.  Pings and the announce waiter share nothing between
calls.  The front end and the container scripts are clients and start-up.

## 9 Plan

Modelled, in this order: messaging (store, service, abstract life, proofs,
refinement), page fetch, fetch jobs, accounts, identities and routers, background
flush, propagation sync.  The order was by what users lose: messages and attachments
first, then the concurrent core of browsing, then who gets in and under which
identity, then what is learnt and kept.

Proved: the safety properties of every module, and the refinement.
