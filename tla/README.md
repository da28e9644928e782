# scrape-service: TLA+ models, checks and proofs

This directory models the control of the scrape service: the queue that takes
requests and runs them in child processes, the record store and its remote mirror,
the politeness gate inside each child, the batch scan and the crawl that work behind
it, the reading of robots.txt, and the probe that keeps the container awake.  Paths
below are relative to the repository (`src/src/jobs/queue.mjs` is the queue).  `PROJECT.json` maps every
definition to its lines, and lists the runs, the mutants, the hazards, the
disagreements between code and documentation, and the theorems.

## 1. Inventory of the system

One Node process serves HTTP, keeps job records on disk, and spawns a child
process per job.  Node runs one callback at a time, so two activities interleave
only at an `await`, a timer or an event; every model takes one action to be what
one callback does between two of those.

| Component | Source | State | Operations |
|---|---|---|---|
| HTTP API | `src/src/server.mjs` | the submission chain | POST (find a duplicate, create), DELETE (read, cancel, remove), GETs |
| Job queue | `src/src/jobs/queue.mjs` | `running` map, loop, per-job ceilings | poll and claim, launch, close handler, cancel, drain |
| Record store | `src/src/jobs/store.mjs` | record files, `recordChains`, remote mirror and cache | create, update, remove, list, recover, publish |
| Garbage collector | `src/src/jobs/gc.mjs` | none of its own | remove old terminal jobs; under pressure remove or evict more |
| Worker entry | `src/src/workers/run-job.mjs` | AbortController | SIGTERM to abort, exit codes 0/1/3 |
| Politeness gate | `src/src/jobs/politeness.mjs` | per domain `active`, `waiters`, `lastAt` | acquire, release, run |
| Batch scan | `src/src/workers/scan.mjs` | `batch.json`, list and index, write chain | lanes, capture of a site, resume |
| Crawl | `src/src/workers/crawl.mjs` | frontier with tiers and quotas, counters | queue, dequeue, skip reasons, promotion, 429 backoff |
| Robots, URL rules | `src/src/capture/robots.mjs`, `urls.mjs` | none (pure) | parse, decide, normalise |
| Page capture | `src/src/capture/*.mjs`, `src/src/net/*.mjs` | none between pages | drive the browser, guard addresses |
| Keep-awake | `src/deploy/cloudflare/src/index.js` | failure counter | probe health, decide whether the container may sleep |
| Validation, configuration, tools, deployment | `validate.mjs`, `config.mjs`, `tools/`, `Dockerfile` | none | checks of one input; scripts |

How they interact:

* A POST creates a record; the queue's poll finds it by listing records, and
  launches a child that is handed the job's id.  The child reads the record and
  writes an artefact tree; what it returns is an exit code.
* Everybody who changes a record appends to that record's promise chain in the
  store.  Everybody who reads one reads the file as it is at that moment.  All of
  the hard behaviour of the service lies between such a read and what is done
  about it later.
* DELETE, the close handler of a child, the collector and the recovery at boot
  all act on the same records; only the chain orders them.
* Inside a child, the lanes of a scan (or the one loop of a crawl) ask the gate
  before each request; an AbortSignal reaches the gate's sleeps and the loops.

What is hard, component by component, and what makes it correct:

* **Queue, API, collector, recovery** - interleavings of a poll, children that end
  at any time, DELETEs and the collector; crashes and graceful stops between any
  two steps; failing writes.  Correct means: never more than CONCURRENT_JOBS
  children, never two on one domain; a job ends exactly once, for the reason that
  ended it; no record says `running` with nobody to end it; no success without its
  artefacts, no artefacts without a record; identical requests never wait twice;
  attempts only grow; every job ends.
* **Gate** - parked callers, newcomers that overtake them, sleeps cut short by the
  abort.  Correct means: the cap, the interval, no lost wake-up, no leaked slot.
* **Scan** - lanes that share a list; a resume file written while the lanes go on;
  kills in the middle of a write.  Correct means: each site is taken once, a
  success is on disk, a retry skips what was recorded, an aborted run ends.
* **Store with a remote** - mirrored writes that fail or arrive late, a cache filled
  after a removal, an instance lost with its disk.  Correct means: an accepted job is
  durable and gets its outcome; a success stands nowhere without its artefacts in the
  remote; mirrors land in order; what is in flight is on the disk the queue polls.
* **Crawl** - an address may come back (429, promotion) and a page may be reached by
  several addresses.  Correct means: every address met gets one fate for good, within
  the page budget; no page is captured by two redirects; the cap on query variants
  holds; no tier is starved; an entry waits at the best place known; the crawl ends.
* **Robots** - groups widened, repeated and interrupted.  Correct means: the rules in
  force are those RFC 9309 selects, and what they refuse is not visited.
* **Keep-awake** - a health answer put together over several awaits while jobs start
  and end, probes that fail under load.  Correct means: no answer of "no work"
  overlooks a job, and the container sleeps when there is none.

## 2. Plan

In the order of importance; what is done is marked.

| # | Module | Models | State |
|---|---|---|---|
| 1 | `JobQueue` | API, queue, local store, collector, recovery together, since they share every record | done, `JobQueueProofs`, `JobQueueTrackedProofs` |
| 2 | `PolitenessGate` | one gate and its callers; the abstract specification of what a worker may do to it | done, `PolitenessGateProofs` |
| 3 | `ScanBatch` | the scan's lanes, composed with the gate (EXTENDS), implementing `GateSpec` | done, `ScanBatchProofs` |
| 4 | `CrawlFates` | what a crawl promises of the addresses it meets, the abstract specification | done, its implementation proved in `CrawlFrontierProofs` |
| 5 | `CrawlFrontier` | the crawl's loop, composed with the gate (EXTENDS), implementing `CrawlFates` | done, `CrawlFrontierProofs` |
| 6 | `RecordStore` | one job in a service with a remote: mirror chain, cache, removal, publishing, recovery | done, `RecordStoreProofs` |
| 7 | `KeepAwake` | the probe, the health answer, stops and starts | done, `KeepAwakeProofs` |
| 8 | `Robots` | the parser as a machine over lines, against RFC 9309 | done, `RobotsProofs` |

An abstract life of one job with "a terminal record never changes" was planned and
dropped: the code does not implement it (section 7, 2).

Abstract specifications: `GateSpec`, which the scan (checked and proved) and the crawl
(proved) implement, and `CrawlFates`, which the crawl implements (checked and proved).

Every invariant and action property a passing run checks is a theorem, some of them
under a hypothesis that section 6 gives a reason for; liveness stays with TLC.  Left:
what happens beyond the listing limits (section 8), and the ends of jobs in `JobQueue`
with failing writes, of which the theorems now say nothing.  No module uses a RECURSIVE
operator.

## 3. The models

### JobQueue

One process on local disk with everything that touches a record.  What its
variables stand for:

| Variable | In the code |
|---|---|
| `status`, `attempt` | the record file of each job (`store.mjs`); `absent` is no file |
| `tree` | the artefact directory of each job |
| `chain` | `recordChains`: what `#exclusive` has queued for a record, head first |
| `running` | the queue's `running` map, job to run |
| `run` | the closure of each `#launch`: child, ceilings (`watched`, `over`), SIGTERM sent (`term`), where its close handler is, and the outcome it worked out |
| `loop`, `todo`, `listed` | the loop of `start()`, the directory listing it is going through, the queued records read so far |
| `nextJob`, `posting` | submissions, and the one between `findDuplicate` and `create` (`serialiseCreate`) |
| `client` | DELETE requests between their awaits |
| `gcTodo` | the terminal jobs a sweep has listed and has still to remove |
| `mode`, `boot`, `restarts` | recovering, serving, draining; the jobs `recover()` has not reached |

Each handler is cut exactly at its awaits.  `#claimNext` is `StartListing`, one
`ReadNext` per record, then `Launch` or `ClaimNothing`: choosing a job, spawning it
and entering it in the map are one callback.  The close handler is `ChildClose`
(timers off, out of the map, outcome worked out), `CloseRead` (the record read),
`RecordOutcome` (the write queued).  DELETE is `DeleteRead`, then `Cancel` or
`CancelQueued` or neither, then `CancelResumes`/`DeleteResumes`, which queue the
removal.  A change takes effect when the store reaches it: `ApplyUpdate`, or
`RemoveRecord` followed by `RemoveTree`, or `ApplyFails`.  `Create` makes the directory
before it writes the record, and leaves it behind when that write fails.  A sweep lists
its candidates once (`GcFind`, for each of them) and then removes them one after the
other (`GcRemove`), or leaves the rest when there is room again (`GcEnough`).  A
measurement of the artefacts that was under way when the ceilings were taken off may
still come back and terminate the child, or decide the outcome of one that has gone
(`Overrun`).

Abstractions: the sizes, ages and timings that trigger a ceiling, a sweep or a
poll are nondeterministic (`Overrun`, `GcFind`, `GcEnough`, `Wake`); progress flushes write
fields no property sees and are left out; a child is its first read, its directory
and its end.  When a dead child's handlers are all done its number is reused.
The children die with the process, as in a container or a systemd control group.

### PolitenessGate

A gate and its callers.  `at[c]` says where a caller is inside `acquire()`:
`parked` in `waiters`, `woken` but not yet running, `sleeping` out the interval, `in`
(holding its slot), `refused` (the error has not reached the caller yet).  One pass
round the loop of `acquire()` is one of `Park`, `GiveUp`, `Enter`, `Sleep`,
`SleepRejected`; a woken caller takes such a pass again (`Recheck`), so a newcomer
may overtake it.  As in the code, the slot is taken before the sleep, the abort
rejects sleeps without giving slots back, and it wakes nobody who is parked.

Time is only what the interval sees: `quiet[k]` counts the ticks since `lastAt` up to
`MinInterval`, `left[c]` those a sleeper has to go.  A timer never fires early; how
late it fires is open.  `NewGate` is the gate of the next process of the same job.

### ScanBatch

`runScan` as a composition with the gate: a lane is a caller, and its steps
conjoin the gate's.  `Begin` notes the site and calls `acquire()` in one callback;
`Capture` is the end of `scanSite()`, the `finally` that releases, the note of the
outcome and the head of the lane's loop (`Next1`), all before the next await.
`pending`, `writing` and `disk` are the promise chain of `saveBatch()`: a write takes
the batch as it is when the write *starts*, and truncates the file first, so a kill
in between leaves `Torn`.  `saved` and `lost` are history: sites that were on disk as
done, and those of them a torn file took away.  `LaunchFails` is a browser that does not
start: no lane ever runs.

Abstractions: what is found at a site is one of two outcomes, `ok` (a retry skips
it) or `again`; files written for one site are left out; declining a site (address
guard, robots.txt) is one step.  After the first lane's throw nobody awaits the
other lanes' writes, so `Exit` may leave some pending.  A kill may come at any
moment, also after the process ended but before its end was recorded.

### CrawlFates, CrawlFrontier

`CrawlFates` has one variable of substance, the `fate` of each address (unseen,
waiting, captured, skipped, failed), and the `outcome` of the crawl.  `CrawlFrontier`
is `runCrawl` itself; `Promise` is the mapping from its queue and maps to fates, the
one the code's reader has in mind: what is in the queue waits, then `crawled`,
`skipped` and the errors in this order.

| Variable | In the code |
|---|---|
| `pc`, `entry`, `answer` | where the loop is between two awaits, its `{url, depth, tier}`, what the visit found |
| `queue`, `queuedEntry`, `queued`, `tierTaken` | the variables of those names |
| `crawled`, `skipped`, `failed`, `capturedFinal` | the same; `failed` are the entries of `errors` |
| `backoffsDone`, `variantFetches` | the counters of 429s per address and of turns taken per path |
| `web` | the site: per address what a visit may find, per page its links, the sitemap, and what each check refuses |
| `fed`, `refilled`, `visits`, `settled` in `crawled` | history, read by properties only |

One turn of the loop is `Take` (dequeue and all the checks before the first await, in
their order), `GuardRefuses` or `GuardAllows`, `AtGate`, `Open`, then what the visit
leads to: `LandSkipped`, `BackOff` and `Requeue`, `Land` and then `SettleSkipped` or
`Capture`, or `Throws` at any await.  `Follow` is the code's double loop over tiers and
links, stated as what ends up where in the queue: what is not promoted keeps its place,
the promoted move behind it, and the new follow in the order of tiers and links.
`InOrder` enumerates the positions that stay, in their order.

A visit (`Open` to the end of the turn, counted in `visits`) may hold more than one
navigation: the second `goto` after a failed one and the one for the mobile picture
belong to it, and neither the code nor the model counts them.

Abstractions: addresses are normalised and carry the root's scheme; the tier choice
compares exact tenths where the code computes in floating point, so between equal
deficits either tier may be taken; politeness is always given, closing a page
succeeds (a `page.close()` that throws after `skipped.push` would put the address into the
errors as well), and what is captured from a page, its files and `crawl.json` are one
outcome.  Robots rules and sitemaps come with `web`.

### RecordStore

One job; jobs share nothing in the store.  `local` and `tree` are the disk, `remote`
and `arts` the remote's copies, `cache` is `remoteCache`, `mirrors` the job's
`mirrorChains` with the writes whose PUT has not come back, `poll` whether the queue has
listed the job and not launched it yet, `chain`, `opAt` and `opGot`
its `recordChains` and where the first change is.  `worker` follows the child and its
close handler, `remover` and `ahead` a DELETE or the collector's removal (`ahead`
counts the mirrors that were under way when it took the chain), `reader` somebody
whose `get()` waits for the remote, `boot` the recovery.  `seq` numbers the writes of
the record, `gone` that a removal has returned: history.

Publishing stores the files one by one: while it goes on the published copy is `partial`
(`Upload`), and an instance lost or a file that fails leaves it so.  A child that was sent
SIGTERM may end with any outcome, `cancelled` included, and the handler leaves alone a
record that is cancelled already.

A record is its status, its attempt and its `seq`.  A remote operation with the
client's own retries succeeds or fails as one step, and a PUT that failed may have
landed.  The remote's listing gives this job's record or nothing.  `Lost` takes disk,
memory and whatever was in flight; only its first mirror may still have landed.
`CloseReadFails` is the same as a process that dies of an unhandled rejection; the read
asks the remote only when a removal has taken the local record.  A listing that outlives a
whole child, and the second launch it leads to, are in `JobQueue` only.

### KeepAwake

`onActivityExpired` with `probeFailures`, and `/health` behind it as it is put
together: the ids on disk (`Expire`), one record after the other (`Read`), the running
map in the step that answers (`Answer`); the listing stops at `HealthLimit` queued records
(200 in the code).  The queue is reduced to where a job is
counted: `record`, `running`, and `ending` for the time between leaving the map and
the outcome's write; a child may be gone before its `running` is written (`MarkRunning`
comes later, `Outcome` after it).  `Stop` may let children end and be recorded; `Wake` is a request
that finds the container asleep, with recovery, and with the object that counts the
failures kept or made anew by the platform.  Neither DELETE nor a remote is here:
`JobQueue` and `RecordStore` have them.

### Robots

`parseRobots` as a machine that reads one line at a time; a line is one of an agent
line for us, for everybody, for another crawler, `disallow` or `allow` with a value,
`crawl-delay`, `sitemap`, or an unknown one.  Values, and what follows the host in an
address, are sequences of tokens, among them `*`, `$` and the `?` that begins a query.
`Parsed` is what the URL parser makes of a token, `Canon` the form in which RFC 9309
compares it: both encode a letter outside ASCII, and only the second decodes `%61`.
`Disallow`, `Group` and `Blocks` are the result.  `Blocks` compares what the code compares:
the value as it was written with the `Pathname` of the address, encoded and without query.

The reference is stated without state, from the RFC and not from the code: `Governs` says
which rule is for which agent line, where only `allow` and `disallow` are rules and no other
line ends a group; `Refuses` says what the rules decide about an address, query included.
The two differ in three ways (section 7, 9 and 17), so the properties that hold name what
they leave out: `Uninterrupted` (no `crawl-delay` between the agent lines of one group),
`IsPlain` (a value without `*`, `$`, `?` and in canonical form) and `IsCanonical` (an
address the URL parser leaves in that form).

## 4. The runs

`tlc -workers 2 -config <cfg> <MC module>`; the sizes are of the current models.

| Run (cfg) | Instance | Properties | States |
|---|---|---|---|
| `jobqueue_delete` (`JobQueueDelete`) | two jobs of one site, one client deleting at any moment | `TypeOK`, `RunningMapSound`, `UndeletedChildrenWithinLimits`, `CancelledOnlyByRequest` | 0.97 M |
| `jobqueue_restart` (`JobQueueRestart`) | two identical requests, failing writes, the collector, one crash or stop | `OneWaitingPerSpec`, `SuccessHasTree`, `AttemptsOnlyGrow` | 2.6 M |
| `jobqueue_live` (`JobQueueLive`) | two jobs of one site, children that die at once, one restart; fairness | `RunningIsTracked`, `EveryJobEnds` | 0.24 M |
| `scan_batch` (`ScanBatch`) | two lanes, three sites of one domain, one abort per process, one kill; fairness | the gate's and the scan's properties, `GateSpec`, `RunEnds` | 0.64 M |
| `crawl` (`Crawl`) | three sites of nine addresses, budget 6, depth 2, one 429 retry, two query variants; an abort at any moment; fairness | `CrawlTypeOK`, `FrontierBestKnown`, `RedirectCapturedOnce`, `VariantBudget`, `FloorShare`, `KeepsPromise`, `CrawlEnds` | 25 k |
| `record_store` (`RecordStore`) | one restart, one flush, one failing operation, one removal, one attempt; fairness | `StoreTypeOK`, `AcceptedIsDurable`, `SuccessIsServed`, `InFlightIsLocal`, `MirrorsInOrder`, `AcceptedSettles` | 0.86 M |
| `keep_awake` (`KeepAwake`) | two jobs, a listing limit of one, a stop after two misses, two wake-ups; fairness | `KeepAwakeTypeOK`, `IdleAnswerSound`, `EventuallySleeps` | 64 k |
| `robots` (`Robots`) | every text of up to five lines of fourteen kinds | `GroupRules`, `PlainStaysAway` | 0.58 M |
| `jobqueue_exclusive`, `scan_abort`, `record_removed`, `keep_awake_upload` | the same sizes | one statement of the documentation each, which the code violates (section 7) | counterexample within seconds |

What they show:

* The running map never exceeds its slots nor holds two jobs of one domain, though
  the slots were counted several awaits before the launch; the children really
  alive obey the same limits as long as nobody deletes their job.
* Only a DELETE cancels: a ceiling that is hit does not, in whatever order it meets the
  child's end and the request.  (A SIGTERM of the service manager that reaches the
  children does: section 7, 6.)
* Identical requests never wait twice; a success never stands without its
  artefacts; no late write takes an attempt back.
* No record says `running` with nobody to end it, even when a child is gone before
  its `running` record is written; every job ends, across a restart.
* The gate's cap, slots, wake-ups and interval hold under a scan's use of it, and
  the scan uses it as its specification says (`GateSpec` as a property of
  `ScanBatch`); no site is taken twice at once; a success is on disk; a retry
  skips what is on record; a run that is not aborted ends, the resumed ones included.
* A crawl keeps what `CrawlFates` promises through promotions, redirects and 429s, and
  ends; an address waits where the best link to it puts it, whichever pages showed it
  in which order; a tier with links gets its share, but for one entry, unless a tier
  has run dry and come back (section 7, 13).
* With a remote: an accepted job survives the loss of the instance at any moment and
  gets its outcome unless a DELETE asks otherwise; a success is only ever visible with
  a complete published tree.
* A health answer of "no work", though its parts are of different moments, overlooks
  no job but those whose outcome is just being written; misses add up to a stop, and
  the container sleeps in the end.
* For every short text in which no `crawl-delay` splits a group the parser selects the
  groups RFC 9309 selects, and what a plain rule among them refuses is not visited,
  whatever other rules stand beside it and whatever query the address has.

Bounds, and why they are enough.  Two jobs and one client suffice for what is
pairwise: two jobs of one domain, two records of one spec, a request against a
close handler, a sweep or a launch.  `MaxRuns = 2` is the number of handlers alive
at once; a run's number is reused when nobody refers to it, so a job may start more
often than that.  `MaxRestarts = 1` bounds crashes and graceful stops together: one
is enough to lose a child between any two awaits and, with `MaxAttempts = 2`, to
reach the last attempt.  The limits of a poll, of the duplicate look-up and of
recovery (50, 200 and 1000 in the code) are above `MaxJobs` in the runs: what
happens beyond them is a hazard listed without a property.  `SweepLimit = 1` lets a sweep hold one
job at a time that it listed earlier, which is enough to be stale when it is removed; with
two the same properties were checked on 3.5 M states.  Different flags are on
in different runs so that each finishes in minutes; the safety theorems of section 6
have all of them free.  Three sites and two lanes leave one site to be fought over
when both lanes come back; `MaxConcurrent = 1` is the shipped cap; `MinInterval = 1`
is one tick, which tells "at once" from "after the interval".

The three sites of the crawl are chosen so that what is hard happens: promotions of
one address from the sitemap through the body to the navigation, over pages of two
depths, with fewer pages in the budget than addresses (`Broad`); redirects by HTTP and
by script onto one page, onto each other, off the site and onto an excluded path
(`Redirecting`); three variants of one path of which two are rate limited
(`Limiting`).  For `RecordStore` larger instances (two restarts, two flushes, one
removal without faults; one restart with two flushes, one fault and one removal) were
checked too and hold.  `KeepAwake` needs two jobs, one to be read before and one
after a change.  With two jobs a `HealthLimit` of one is
reached by the first queued record.  Five lines make two groups with a rule each and a
line between.

`CHECK_DEADLOCK FALSE` is in the configurations where the system may really stop:
a scan whose process has exited and whose restarts are used up.

Every property of a passing run has a mutant in `PROJECT.json`: a definition of the
model changed the way a plausible bug would change the code, under which the run
finds the property violated.

## 5. Fairness

`JobQueue`'s `LiveSpec` assumes of the code only what its scheduling gives: promises
are resumed and queued changes applied (`WF` of `Create`, of each record's
`StoreStep`, of each client), the poll timer fires (`LoopStep`), recovery goes on
(`BootStep`), and each run ends by its own timers (`EndStep`): the wall clock fires
if the child is still there, and a child that got SIGTERM is gone, by SIGKILL at
the latest.  A child is *not* assumed to finish by itself, nor clients to send
anything.  Weak fairness suffices, since none of these steps is disabled again by
others once it is due.

`ScanFairness`: each lane goes on (captures, probes and look-ups have timeouts),
writes end, timers fire, and the run's own steps happen.  Writes are not assumed to
succeed and nothing is assumed about the abort or a kill.

`LiveCrawlSpec`: the loop takes its steps (look-ups, navigations and delays have
timeouts) and timers fire; nothing is assumed about the site or the abort.
`LiveStoreSpec`: mirrors are settled, changes applied, the queue polls and a child ends
within its wall clock, a removal and a boot go on.  Failures happen or not, and only
`MaxFaults` of them.  `KeepAwake`'s `LiveSpec`: jobs are worked off, and the probe takes
its steps, of which any may be a miss.

## 6. What is proved

All proofs are checked by TLAPS for every value of the constants.  The assumptions
are those named in the modules: `NatAssumption`, `SpecAssumption`, `ClientAssumption`
(clients are not run numbers), `FlagAssumption`; `GateAssumption` (the cap is
positive, the interval a natural number, the callers finite); `ScanAssumption`
(lanes are numbered, every site has a domain); `CrawlAssumption` (one caller, finitely
many addresses, limits that are natural numbers, sites of the right type);
`StoreAssumption`, `NoneAssumption`, `KeepAwakeAssumption` (bounds are naturals, `None`
is no record, the jobs are finite); `RobotsAssumption` (values and addresses
are sequences of tokens; parsing and canonical form make and unmake no `*`, `$` or `?`).

`JobQueueProofs`:

* `Invariant`: `IInv` holds always.  `TypeOK` alone is not inductive: that a launch
  writes an attempt within `MaxAttempts` needs that what is queued may start once
  more (`QueuedMayStart`), hence what `running` and `absent` records say
  (`RunningHasBegun`, `AbsentIsFresh`, `UnbornIsAbsent`); that a close handler writes a
  final status needs that a run past its child has an outcome (`RunSound`), and the
  same for requests (`ClientSound`).
* `TypeCorrect`: its first conjunct.
* `RunningMapSafe`: slots and domains of the running map.  Domains are checked and
  the job entered in one callback; the slot was counted when the listing began, so
  the invariant adds `LoopHasRoom`: while the loop is awake there is room, because
  only the loop adds to the map.
* `DedupeAtomic`: `OneWaitingPerSpec`, provided `DedupeLimit >= MaxJobs`.  The
  invariant adds that between look-up and create there is one submission alone and
  nothing of its spec waits (`PostingAlone`).
* `AttemptsGrow`: `AttemptsOnlyGrow`.  Launches may act on stale listings; the
  invariant says that whatever a listing or a queued change would still write for
  a job in one boot is one and the same number, no less than the record's
  (`AttemptSound`).

`JobQueueTrackedProofs` asks of each record who is responsible for it:

* `SuccessKeepsTree`: `SuccessHasTree`, with no hypothesis.  `succeeded` is written by the
  close handler of a child that had its tree, and a tree is taken away only by a removal
  that took the record first (`TreeKept`, `PurgeFirst`).
* `ChildrenWithinLimits`: `UndeletedChildrenWithinLimits`, provided writes do not fail.  A
  child is in the running map, or over, or a request that cancelled it is still there
  to remove its job (`MapExact`).  When a removal fails the request is answered with an
  error and gone, its record stands, and its child, already out of the map, is alive for up
  to ten seconds more.  (A cancellation whose write fails leaves the entry in the map
  and the child without ceilings: the entry is taken out only after that write.)
* `CancelledByRequest`: `CancelledOnlyByRequest`, provided writes do not fail and the
  service's SIGTERM reaches the service only (section 7, 6).  A handler, or a queued
  change, that would write `cancelled` has its request with it (`CancelSound`).
* `RunningTracked`: `RunningIsTracked`, provided recovery looks at every job, writes do
  not fail, and not both of these are possible: a child that is gone before its `running`
  is written, and a SIGTERM of the service that reaches it.  For then the outcome
  `cancelled` of one child may be on its way while the job, listed earlier, is launched
  once more; the second child is gone at once, its handler finds `cancelled` and leaves
  it, and the `running` of the second launch, still in the chain, comes last.
  TLC finds this with `CgroupStop` and `QuickExit` on.  The invariant (`Tracked`) adds to
  the property that a `running` still to be written has its run with it, alive or with its handler under way, and that recovery has yet to reach
  what a dead process left `running`.

They need an account of every actor between its awaits: who made a change that is still
in a record's chain waits for it, a run's outcome comes after its `running`, and a
request has one change there at a time (`ActorSound`, with `BornSound` for the numbers
not yet used).

`PolitenessGateProofs`:

* `GateTypeCorrect`: types, with the invariant that a domain's list holds exactly
  the callers parked there, each once (without it a release might wake a caller
  that is elsewhere).
* `CapKept`, `SlotsKept`, `WakeupsKept`: cap, slots and wake-ups from one invariant:
  `active` is the number of holders until an abort and no less after it, never more
  than the cap; and where somebody is parked, slots taken and callers woken
  together make up the cap.
* `IntervalKept`: with a cap of one, no two requests to a domain are closer than the
  interval.  The invariant: what a sleeper has to go and what the domain has been
  quiet make up the interval; nobody else can reset the quiet meanwhile, because
  the sleeper holds the only slot.

`ScanBatchProofs`:

* `LanesDistinct`: no two lanes at one candidate, for any number of lanes: a lane's
  candidate was taken from the list below `idx`, and the list has no repetition.
* `ScanImplementsGate`: `ScanSpec => GateSpec`, the mapping being the identity on the
  gate's variables.
* `ScanWithinCap`: hence the lanes together respect the cap.
* `ScanTypeCorrect`: types, with the shape of the write chain (`ChainSound`: what the
  write under way holds is the batch as it is, or another write is queued behind it).
* `SuccessRecorded`: `SuccessIsRecorded`.  Every candidate has its outcome in the batch,
  is in the hands of a lane that will note it, or is still listed (`Accounted`), and what
  `Exit` waits for includes the write of the last note (`EndsDone`).
* `ResumeKept`: `ResumeSound`, after any number of kills, torn files included.  What the
  disk says is done stays done in the batch and in every later write (`KeptSound`), and
  what its lanes hold or have yet to take is not done (`ListOpen`), which begins with a
  fact about `Unscanned`: its increasing enumeration names exactly the open candidates
  (`UnscannedExact`).

`CrawlFrontierProofs`, for any sites, budget, depth, retries and caps:

* `CrawlTypeCorrect`: types.
* `CrawlImplementsGate`: `CrawlSpec => GateSpec`.  Each way out of a visit releases, and
  only after an acquire.
* `CrawlKeepsPromise`: `CrawlSpec => KeepsPromise`, that is `CrawlFates` under the mapping
  `Promise`, step by step.  The mapping decides by an order (waits, then captured, then
  skipped, then failed) that would hide an address with two fates; the invariant
  `CrawlInv` says there is none: the queue has no address twice and `queuedEntry` agrees
  with it (`FrontierSound`), and an address waits, or is in hand, or is decided in one
  way (`OneFate`).
* `RedirectOnce`: `RedirectCapturedOnce`.  Where a capture by redirect settled is noted in
  `capturedFinal` in the step that captures, and looked up after the last await before it.
* `VisitsBounded` and `VariantsWithinBudget`: no address is visited more than
  `RateLimitRetries + 1` times, and `variantFetches` covers the visits of a path and the
  one due in this turn, so `VariantBudget` holds for visits and not only for counts.  A
  visit may hold more than one navigation (section 3).
* `SharesAreFloors`: `FloorShare`.  The tiers' deficits cancel out.  As long as all tiers
  have been fed, the one furthest behind is served, so that none falls behind by more
  than an entry; when one runs dry the bounds on the others have to hold already, which
  is why the invariant `ShareInv` bounds deficits above as well as below.
* `FrontierKeptBest`: `FrontierBestKnown`.  What waits or is in hand has the best tier and
  the least depth that the root, the sitemap and the captured pages give it, and an
  address they name has been queued (`BestInv`).  The root is the exception that the
  proof found: it may be off its own site, but is then taken first.

The queue is rebuilt from positions, so these rest on lemmas about the operators:
`InOrderEnumerates` (the positions of a finite set, each once, increasing) and
`FollowEffect`, `StartEffect` (which entries the queue has afterwards, and with what tier
and depth).  The bounded invariants were checked by TLC before they were proved, on the
run's three sites and one more whose root is off the site.

`RobotsProofs`, for texts of any length:

* `RulesAreOurs`: `GroupRules`, for texts whose groups no `crawl-delay` splits.  The
  parser's five booleans say exactly where in the group
  structure of the text read so far it is (`GroupsRead`), and its lists hold the values
  of the disallow lines of our groups and of the groups of `*`, in their order
  (`ListsRead`).
* `PlainRulesObeyed`: `PlainStaysAway`.  A rule of ours that is plain is in force by
  `RulesAreOurs`; where it matches an address, token by token in canonical form, the
  pathname begins with it as it was written, because the parser leaves the address in that
  form and no token of the rule is the `?` at which the pathname ends.  Without the three
  hypotheses it is false (section 7, 9 and 17).

`KeepAwakeProofs`:

* `KeepAwakeTypeCorrect`, `IdleAnswerCorrect`: types and `IdleAnswerSound`, for any
  number of jobs.  The invariant says what each moment of the probe owes: while the
  listing goes on, an unfinished job that was there at its beginning is still to be
  read, was found waiting, is in the running map, or is ending (`ProbeInv`); a job
  leaves `queued` only through the map, so none falls between the reads and the count.

`RecordStoreProofs`, for any number of instances lost, remote operations failed,
flushes, attempts and removals:

* `StoreInvariant`: `IInv` holds always.  `MirrorsSound`: under way are at most the
  mirror of the submission and, behind it, that of the change at the head of the
  chain.  `OrderSound`: writes are numbered in the order of their mirrors, the remote
  before them all.  `BootSound`: a new instance has nothing but the remote, and
  recovery makes one change, to a job it found there.  `ChainSound`: without a
  removal, the changes that wait are those of the present attempt, its outcome last.
  `SuccessSound`: nobody knows of a success before one is recorded, with the complete
  tree published.  TLC found `IInv` to hold on the run's instance, and with two
  restarts, two attempts and two faults without a removal, before it was proved.
* `StoreTypeCorrect`, `AcceptedStaysDurable`, `SuccessAlwaysServed`,
  `InFlightAlwaysLocal`: its conjuncts and their consequences.
* `MirrorsAlwaysInOrder`: the action property `MirrorsInOrder`; only a mirror that
  lands changes the remote record, and `OrderSound` says it is no older.

Only model-checked: liveness (`EveryJobEnds`, `RunEnds`, `CrawlEnds`, `AcceptedSettles`,
`EventuallySleeps`), since TLAPS has no proof rules for ENABLED and for fairness of the
steps of a model of this size.  What the code violates (section 7) is refuted by TLC, not
proved.  The
bounds of the runs (restarts, runs, faults) are constants, of any value in the theorems.

## 7. Where code and documentation disagree

Four have a run that ends in the counterexample (1, 4, 8 and 10); it is named in brackets.  For the
others the property that fails is named, where the models state it: put it into the
configuration of the component to see the counterexample.

1. *"Two jobs never work the same domain at once"* (`queue.mjs:10`).  `cancel()` takes
   a job out of the map when it sends SIGTERM; its child has up to ten seconds, and
   the next job of the site starts beside it (run `jobqueue_exclusive`).
2. *Terminal records "never change, only disappear"* (`store.mjs:73`).  A queued job
   that was listed, then cancelled, is launched all the same and says `running`
   again (`TerminalNeverChanges`).  The removal that follows a cancellation hides it
   soon; the close handler's read and write have the same gap.
3. *"Job records and their artefacts are always removed together"* (`gc.mjs:9`).  A
   child that outlives the removal creates its directory again, and no record is
   left by which it would be collected (`RemovedTogether`).
4. *A cooperative abort lets the worker close the browser* (`run-job.mjs:44`).  A
   sleeping lane keeps its slot when the abort rejects its sleep; a lane parked for
   that domain is never woken, and the scan hangs until SIGKILL (run `scan_abort`).
5. *A retry "skips sites that already reached a terminal outcome"* (`scan.mjs:511`).
   `batch.json` is rewritten in place; a kill in the middle leaves a file that counts
   as no batch at all (`SavedNotRescanned`).  `ResumeSound` states what does hold.
6. *"Jobs that were running when the process died are all requeued"* (`README.md:173`).
   Where a stop signals the whole control group, a child exits with code 3 and the
   draining server records CANCELLED; the shipped unit sets no KillMode, so systemd
   does signal the group.  `CancelledOnlyByRequest` fails with `CgroupStop = TRUE` and no
   clients.  And if the job, listed earlier, is launched again by the
   draining server and that child is gone at once, `running` is written over the
   cancellation with nobody behind it until the next boot (`RunningIsTracked`, with
   `QuickExit` as well).
7. *Interval and cap "are enforced by the same gate"* (`politeness.mjs:14`).  With a cap
   of two or more, two callers compute their wait from the same `lastAt` and start
   together: `IntervalRespected` fails with `MaxConcurrent = 2`, and `IntervalKept`
   therefore assumes the shipped cap of one.
8. *A removal lets mirrors land "or it would resurrect the record"* (`store.mjs:309`).
   A reader that was answered before the removal fills the cache of terminal records
   after it, and the job goes on answering (run `record_removed`).
9. *Wildcards ignored "can only make the crawler stay away from more"*
   (`robots.mjs:38-40`).  A rule is compared, as written, with the pathname of the
   address.  `Disallow: /*/b` is taken literally, `Disallow: /a?` looks for a query that
   a pathname has not, a rule in raw UTF-8 meets a percent-encoded path, and `/%61` is
   not covered by `Disallow: /a`: what they refuse is visited.  `StaysAway` fails in the
   configuration `Robots` (first for `/%61`), and with `<<"/", "*", "b">>` or
   `<<"/", "raw">>` alone as the `Values`.
10. *"`activeJobs` counts every running job"* (`index.js:65`).  Between leaving the map
    and writing the outcome, uploads included, a job is in neither count, and the
    container may be put to sleep over it (`EveryJobCounted`, run `keep_awake_upload`).
11. *A few missed probes do not kill a job* (`index.js:80`).  The counter is not reset by
    the stop it causes: the next instance has one miss, if the object lives on.
12. *A failed mirror is "carried by the next write"* (`store.mjs:128`).  After a terminal
    record there is none: the next instance finds `running` and works again.
13. *Quotas are floors* (`crawl.mjs:182-191`).  A tier that ran dry and comes back is
    served alone until it has caught up with its share of everything taken before;
    `FloorShare` therefore leaves out what follows such a return.
14. *Under pressure "a terminal job's artefacts are already published"* (`gc.mjs:81`).
    A job that failed because its upload did is evicted like the others.
15. *Exit code 3 when aborted* (`run-job.mjs:12`).  A crawl aborted inside `acquire()`
    exits with 1, and the job is recorded as failed.
16. *A 429 is retried `rateLimitRetries` times* (`crawl.mjs:295`).  Each retry of a query
    variant counts as a fetch of its path, and may itself be refused by the cap.
17. *"Group selection follows RFC 9309"* (`robots.mjs:31`).  A `crawl-delay` between two
    agent lines ends the run of them (`robots.mjs:73`), so the rules after the second do not
    count for the first; by RFC 9309, 2.2.4, no other record interferes with a group.
    `GroupsFollowRFC` fails in the configuration `Robots`.

## 8. What is not modelled, and why

* **Address guard, page capture, URL normalisation**: pure checks, or code that runs
  in a page and keeps no state; callers see a refusal or an outcome, and the models
  have both.
* **Fetching robots.txt and sitemaps**: I/O; the result is the text `Robots` reads and
  the sitemap of a crawl's `web`.
* **The remote's keys, pages and retries** (`remote.mjs`): one operation per call in
  `RecordStore`.
* **Request validation, configuration**: pure, once per request or start; their
  results are the inputs and CONSTANTS of the models.
* **GET handlers, logging**: read only.  Progress flushes are changes of the record in
  `RecordStore`; in `JobQueue` they would write fields no property reads.
* **Tools, fake worker, deployment files**: scripts and configuration.  What the
  deployment decides (who gets SIGTERM, that the children die with the service) is
  in `CgroupStop` and `Boot`.
* **Listing limits**: the runs keep fewer jobs than 50, 200 and 1000.  Beyond them the
  oldest queued jobs wait for newer ones to leave, duplicates may pass, and
  recovery leaves jobs as they were.
