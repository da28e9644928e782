--------------------------- MODULE CrawlFrontier ---------------------------
(***************************************************************************)
(* One crawl (workers/crawl.mjs, runCrawl): a single loop that takes an    *)
(* address from the tiered frontier, checks it, passes the politeness gate,*)
(* visits it and queues the links it shows.  The site is what the crawl    *)
(* meets: `web` is one of the sites Webs, each with                        *)
(*   sitemap  the usable addresses of its sitemap, in order                *)
(*   answers  per address, what a visit may find: [kind, final, settled],  *)
(*            where the HTTP redirects and where the scripts ended up      *)
(*   links    per page, [to, tier] for each internal link, in order        *)
(*   path     per address, the path it is a query variant of, or NoPath    *)
(*   offsite, excluded, disallowed, unsafe   addresses each check refuses  *)
(* Addresses are normalised and carry the root's scheme.                   *)
(***************************************************************************)
EXTENDS PolitenessGate

CONSTANTS
  Urls, Root, Webs,
  MaxPages, CrawlDepth, RateLimitRetries, MaxVariants,  \* the specification
  NoPath

Tiers == 0..2   \* 0 navigation, 1 body links, 2 sitemap
Kinds == {"html", "other", "429"}

ASSUME CrawlAssumption ==
  /\ IsFiniteSet(Urls) /\ Root \in Urls
  /\ {MaxPages, CrawlDepth, RateLimitRetries, MaxVariants} \subseteq Nat
  /\ Cardinality(Callers) = 1
  /\ \A w \in Webs :
       /\ w.sitemap \in Seq(Urls)
       /\ w.answers \in [Urls -> SUBSET [kind : Kinds, final : Urls, settled : Urls]]
       /\ w.links \in [Urls -> Seq([to : Urls, tier : {0, 1}])]

VARIABLES
  web,
  pc,            \* "starting", "head", "vetting", "gating", "fetching", "settling", "backing", "closed"
  exit,          \* exit code of the process: 0, 1 or 3
  entry,         \* the entry of this turn of the loop
  answer,        \* what the visit found
  queue,         \* the frontier, oldest first
  queuedEntry,   \* keys of the map to the entries waiting
  queued,        \* every address ever queued
  tierTaken,     \* entries taken, per tier
  crawled,       \* url -> [final, settled, depth], of the pages captured (settled: history)
  skipped, failed,
  capturedFinal,
  backoffsDone, variantFetches,
  fed, refilled, \* history: tiers not found empty since the root was taken, whether one
                 \* found empty had entries again,
  visits         \* and visits per address

turnVars     == <<pc, exit, entry, answer>>
frontierVars == <<queue, queuedEntry, queued, tierTaken, fed, refilled>>
fateVars     == <<crawled, skipped, failed, capturedFinal>>
countVars    == <<backoffsDone, variantFetches, visits>>
crawlVars    == <<web, gateVars, turnVars, frontierVars, fateVars, countVars>>

Entry   == [url : Urls, depth : Nat, tier : Tiers]
RootEntry == [url |-> Root, depth |-> 0, tier |-> 0]   \* means nothing before the first turn
Page    == [final : Urls, settled : Urls, depth : Nat]
Paths   == UNION {{w.path[u] : u \in Urls} : w \in Webs}
Visiting == pc \in {"fetching", "settling", "backing"}

CrawlTypeOK ==
  /\ GateTypeOK
  /\ web \in Webs
  /\ pc \in {"starting", "head", "vetting", "gating", "fetching", "settling", "backing", "closed"}
  /\ exit \in {0, 1, 3}
  /\ entry \in Entry
  /\ answer \in [kind : Kinds, final : Urls, settled : Urls]
  /\ queue \in Seq(Entry)
  /\ queuedEntry \subseteq Urls /\ queued \subseteq Urls
  /\ tierTaken \in [Tiers -> Nat] /\ fed \subseteq Tiers /\ refilled \in BOOLEAN
  /\ DOMAIN crawled \subseteq Urls /\ \A u \in DOMAIN crawled : crawled[u] \in Page
  /\ skipped \subseteq Urls /\ failed \subseteq Urls /\ capturedFinal \subseteq Urls
  /\ backoffsDone \in [Urls -> 0..RateLimitRetries]
  /\ variantFetches \in [Paths -> Nat]
  /\ visits \in [Urls -> Nat]

CrawlInit ==
  /\ GateInit
  /\ web \in Webs
  /\ pc = "starting" /\ exit = 0 /\ entry = RootEntry
  /\ answer = [kind |-> "html", final |-> Root, settled |-> Root]
  /\ queue = <<>> /\ queuedEntry = {} /\ queued = {}
  /\ tierTaken = [t \in Tiers |-> 0] /\ fed = Tiers /\ refilled = FALSE
  /\ crawled = <<>> /\ skipped = {} /\ failed = {} /\ capturedFinal = {}
  /\ backoffsDone = [u \in Urls |-> 0]
  /\ variantFetches = [p \in Paths |-> 0]
  /\ visits = [u \in Urls |-> 0]

Caller  == CHOOSE c \in Callers : TRUE
Holding == Visiting \/ pc = "gating"
UrlsOf(q) == {q[i].url : i \in DOMAIN q}
\* A finite set of positions, as a sequence.
InOrder(A) == [k \in 1..Cardinality(A) |-> CHOOSE i \in A : Cardinality({j \in A : j <= i}) = k]
Captured  == DOMAIN crawled
Budget    == Cardinality(Captured) < MaxPages

-----------------------------------------------------------------------------
(* Start: the root passes the guard, robots.txt and sitemaps are read *)

Start ==
  /\ pc = "starting"
  /\ LET fit == {i \in DOMAIN web.sitemap : /\ web.sitemap[i] \notin web.offsite \cup {Root}
                                           /\ \A j \in 1..(i - 1) : web.sitemap[j] # web.sitemap[i]}
         order == InOrder(fit) IN
     queue' = <<RootEntry>> \o [k \in DOMAIN order |-> [url |-> web.sitemap[order[k]], depth |-> 1, tier |-> 2]]
  /\ queuedEntry' = UrlsOf(queue') /\ queued' = UrlsOf(queue')
  /\ pc' = "head"
  /\ UNCHANGED <<web, gateVars, exit, entry, answer, tierTaken, fed, refilled, fateVars, countVars>>

Close(c) == pc' = "closed" /\ exit' = c

RootRefused ==
  /\ pc = "starting" /\ Close(1)
  /\ UNCHANGED <<web, gateVars, entry, answer, frontierVars, fateVars, countVars>>

-----------------------------------------------------------------------------
(* The head of the loop, to the first await *)

\* Ten times the quotas of the tiers: floors of their shares of the budget.
TierQuota == [t \in Tiers |-> <<5, 3, 2>>[t + 1]]
Total(taken) == taken[0] + taken[1] + taken[2]
Deficit(taken, t) ==
  10 * taken[t] - TierQuota[t] * (IF Total(taken) = 0 THEN 1 ELSE Total(taken))

\* Mutant: strict priority of the better tier.
ChooseTierStrictly(has, taken) == {t \in has : \A s \in has : t <= s}

\* The tier with links furthest below its share; the code computes in floating point,
\* so between equals either may come out.
ChooseTier(has, taken) == {t \in has : \A s \in has : Deficit(taken, t) <= Deficit(taken, s)}

\* Position of the oldest entry of tier t.
Oldest(t) == CHOOSE i \in DOMAIN queue : queue[i].tier = t /\ \A j \in 1..(i - 1) : queue[j].tier # t
Without(q, i) == [j \in 1..(Len(q) - 1) |-> IF j < i THEN q[j] ELSE q[j + 1]]

Waits == {queue[i].tier : i \in DOMAIN queue}

Dequeue(t) ==
  /\ entry' = queue[Oldest(t)]
  /\ queue' = Without(queue, Oldest(t))
  /\ tierTaken' = [tierTaken EXCEPT ![t] = @ + 1]
  /\ queuedEntry' = queuedEntry \ {entry'.url}
  /\ IF Total(tierTaken) = 0 THEN UNCHANGED <<fed, refilled>>
     ELSE fed' = fed \cap Waits /\ refilled' = (refilled \/ ~(Waits \subseteq fed))
  /\ UNCHANGED queued

\* Mutant: a fetch after a 429 is not a new one.
OverCapFirst(u) ==
  /\ web.path[u] # NoPath /\ MaxVariants > 0
  /\ visits[u] = 0 /\ variantFetches[web.path[u]] >= MaxVariants

OverCap(u) ==
  web.path[u] # NoPath /\ MaxVariants > 0 /\ variantFetches[web.path[u]] >= MaxVariants

\* The checks before the guard, in their order; only the last one counts anything.
Refused(e) ==
  \/ e.url \in web.offsite \cup web.excluded \cup web.disallowed
  \/ e.depth > CrawlDepth
  \/ OverCap(e.url)

Counted(u) ==
  IF web.path[u] = NoPath \/ MaxVariants = 0 THEN variantFetches
  ELSE [variantFetches EXCEPT ![web.path[u]] = @ + 1]

Take ==
  /\ pc = "head" /\ queue # <<>> /\ Budget /\ ~aborted
  /\ \E t \in ChooseTier(Waits, tierTaken) : Dequeue(t)
  /\ IF entry'.url \in Captured
     THEN UNCHANGED <<pc, skipped, variantFetches>>
     ELSE IF Refused(entry')
     THEN /\ skipped' = skipped \cup {entry'.url}
          /\ UNCHANGED <<pc, variantFetches>>
     ELSE /\ pc' = "vetting"
          /\ variantFetches' = Counted(entry'.url)
          /\ UNCHANGED skipped
  /\ UNCHANGED <<web, gateVars, exit, answer, crawled, failed, capturedFinal, backoffsDone, visits>>

AbortedAtHead ==
  /\ pc = "head" /\ queue # <<>> /\ Budget /\ aborted
  /\ Close(3)
  /\ UNCHANGED <<web, gateVars, entry, answer, frontierVars, fateVars, countVars>>

-----------------------------------------------------------------------------
(* The guard and the gate *)

GuardRefuses ==
  /\ pc = "vetting" /\ entry.url \in web.unsafe
  /\ skipped' = skipped \cup {entry.url} /\ pc' = "head"
  /\ UNCHANGED <<web, gateVars, exit, entry, answer, frontierVars, crawled, failed, capturedFinal, countVars>>

GuardAllows ==
  /\ pc = "vetting"
  /\ \E k \in Keys : Acquire(Caller, k)
  /\ pc' = "gating"
  /\ UNCHANGED <<web, exit, entry, answer, frontierVars, fateVars, countVars>>

AtGate ==
  /\ pc = "gating" /\ (Recheck(Caller) \/ WakeUp(Caller))
  /\ UNCHANGED <<web, turnVars, frontierVars, fateVars, countVars>>

\* acquire() threw: no page, no release, and not the error of an aborted crawl.
GateRefuses ==
  /\ pc = "gating" /\ Leave(Caller) /\ Close(1)
  /\ UNCHANGED <<web, entry, answer, frontierVars, fateVars, countVars>>

Open ==
  /\ pc = "gating" /\ at[Caller] = "in"
  /\ pc' = "fetching" /\ visits' = [visits EXCEPT ![entry.url] = @ + 1]
  /\ UNCHANGED <<web, gateVars, exit, entry, answer, frontierVars, fateVars, backoffsDone, variantFetches>>

\* newPage() stands before the try: the slot goes with the process.
OpenFails ==
  /\ pc = "gating" /\ at[Caller] = "in"
  /\ Close(1)
  /\ UNCHANGED <<web, gateVars, entry, answer, frontierVars, fateVars, countVars>>

-----------------------------------------------------------------------------
(* The visit, with the slot held.  `finally` frees it whatever happens.     *)

EndTurn == Release(Caller) /\ pc' = "head" /\ UNCHANGED exit

Skip(u) ==
  /\ skipped' = skipped \cup {u} /\ EndTurn
  /\ UNCHANGED <<web, entry, frontierVars, crawled, failed, capturedFinal, countVars>>

\* Where the browser landed is checked again, the address asked for is not.
Astray(u, landed) == landed \in web.offsite \/ (landed # u /\ landed \in web.excluded)

\* Mutant: one backoff too many.
TriedOutLate(u) == backoffsDone[u] > RateLimitRetries

TriedOut(u) == backoffsDone[u] >= RateLimitRetries

\* The navigation ended and its redirects with it.
LandSkipped ==
  /\ pc = "fetching"
  /\ answer' \in web.answers[entry.url]
  /\ \/ Astray(entry.url, answer'.final)
     \/ answer'.kind = "429" /\ TriedOut(entry.url)
     \/ answer'.kind = "other"
  /\ Skip(entry.url)

BackOff ==
  /\ pc = "fetching"
  /\ answer' \in web.answers[entry.url]
  /\ ~Astray(entry.url, answer'.final) /\ answer'.kind = "429" /\ ~TriedOut(entry.url)
  /\ backoffsDone' = [backoffsDone EXCEPT ![entry.url] = @ + 1]
  /\ pc' = "backing"
  /\ UNCHANGED <<web, gateVars, exit, entry, frontierVars, fateVars, variantFetches, visits>>

Land ==
  /\ pc = "fetching"
  /\ answer' \in web.answers[entry.url]
  /\ ~Astray(entry.url, answer'.final) /\ answer'.kind = "html"
  /\ pc' = "settling"
  /\ UNCHANGED <<web, gateVars, exit, entry, frontierVars, fateVars, countVars>>

\* Mutant: the entry goes back into the queue, but not into the map.
RequeueUntracked ==
  /\ pc = "backing" /\ ~aborted
  /\ queue' = Append(queue, entry) /\ UNCHANGED queuedEntry
  /\ EndTurn
  /\ UNCHANGED <<web, entry, answer, queued, tierTaken, fed, refilled, fateVars, countVars>>

\* The delay is over: the same entry again, at the tail.
Requeue ==
  /\ pc = "backing" /\ ~aborted
  /\ queue' = Append(queue, entry) /\ queuedEntry' = queuedEntry \cup {entry.url}
  /\ EndTurn
  /\ UNCHANGED <<web, entry, answer, queued, tierTaken, fed, refilled, fateVars, countVars>>

\* The abort cut the delay short.
AbortedBackingOff ==
  /\ pc = "backing" /\ aborted
  /\ Release(Caller) /\ Close(3)
  /\ UNCHANGED <<web, entry, answer, frontierVars, fateVars, countVars>>

\* A redirect onto a page already captured, under its own address or through another.
Duplicate(u, landed) == landed # u /\ landed \in capturedFinal \cup Captured

SettleSkipped ==
  /\ pc = "settling"
  /\ Astray(entry.url, answer.settled) \/ Duplicate(entry.url, answer.settled)
  /\ Skip(entry.url)
  /\ UNCHANGED answer

\* Mutant: no release in `finally`.
ThrowsHolding ==
  /\ pc \in {"fetching", "settling"}
  /\ failed' = failed \cup {entry.url} /\ pc' = "head"
  /\ at' = [at EXCEPT ![Caller] = "out"]
  /\ UNCHANGED <<active, waiters, quiet, key, left, aborted, exit>>
  /\ UNCHANGED <<web, entry, answer, frontierVars, crawled, skipped, capturedFinal, countVars>>

\* Any await of the visit throws: recorded as an error, with no page.
Throws ==
  /\ pc \in {"fetching", "settling"}
  /\ failed' = failed \cup {entry.url} /\ EndTurn
  /\ UNCHANGED <<web, entry, answer, frontierVars, crawled, skipped, capturedFinal, countVars>>

-----------------------------------------------------------------------------
(* The capture, and the links of the page in the order it shows them *)

\* Mutant: only the address after the HTTP redirects is remembered.
FinalOnly(a) == {a.final}

Finals(a) == {a.final, a.settled}

\* Mutant: an address is new unless it is waiting.
NewIfNotWaiting(n) == n \notin queuedEntry

New(n) == n \notin queued

TierOf(n) == queue[CHOOSE i \in DOMAIN queue : queue[i].url = n].tier

\* The links L of a page captured at depth d put in the queue what is new and what
\* they promote, each at the tail at the first of its links of the best tier.
Follow(L, d, seen) ==
  LET Shown == {n \in {L[i].to : i \in DOMAIN L} : n \notin seen \cup web.offsite}
      Best(n) == IF \E i \in DOMAIN L : L[i] = [to |-> n, tier |-> 0] THEN 0 ELSE 1
      Promoted == {n \in Shown \cap queuedEntry : Best(n) < TierOf(n)}
      Fresh == {n \in Shown : n \notin queuedEntry /\ New(n)}
      order == InOrder({i \in DOMAIN L : /\ L[i].to \in Promoted \cup Fresh /\ L[i].tier = Best(L[i].to)
                                         /\ \A j \in 1..(i - 1) : L[j] # L[i]})
      stay == InOrder({i \in DOMAIN queue : queue[i].url \notin Promoted})
      Near(e) == IF e.url \in Shown /\ e.depth > d + 1 THEN [e EXCEPT !.depth = d + 1] ELSE e
      Waiting(n) == CHOOSE e \in {queue[i] : i \in DOMAIN queue} : e.url = n
      Arrival(n) == IF n \in Fresh THEN [url |-> n, depth |-> d + 1, tier |-> Best(n)]
                    ELSE [Near(Waiting(n)) EXCEPT !.tier = Best(n)]
  IN /\ queue' = [k \in DOMAIN stay |-> Near(queue[stay[k]])]
                  \o [k \in DOMAIN order |-> Arrival(L[order[k]].to)]
     /\ queued' = queued \cup Fresh
     /\ queuedEntry' = queuedEntry \cup Fresh

Capture ==
  /\ pc = "settling"
  /\ ~Astray(entry.url, answer.settled) /\ ~Duplicate(entry.url, answer.settled)
  /\ crawled' = [u \in Captured \cup {entry.url} |->
                   IF u = entry.url
                   THEN [final |-> answer.final, settled |-> answer.settled, depth |-> entry.depth]
                   ELSE crawled[u]]
  /\ capturedFinal' = capturedFinal \cup Finals(answer)
  /\ IF entry.depth < CrawlDepth
     THEN Follow(web.links[answer.settled], entry.depth, Captured \cup {entry.url})
     ELSE UNCHANGED <<queue, queued, queuedEntry>>
  /\ EndTurn
  /\ UNCHANGED <<web, entry, answer, tierTaken, fed, refilled, skipped, failed, countVars>>

-----------------------------------------------------------------------------
(* The end *)

\* The loop is over and crawl.json is written, or its write fails.
Finish(c) ==
  /\ pc = "head" /\ (queue = <<>> \/ ~Budget)
  /\ Close(c)
  /\ UNCHANGED <<web, gateVars, entry, answer, frontierVars, fateVars, countVars>>

Signal == pc # "closed" /\ Abort /\ UNCHANGED <<web, turnVars, frontierVars, fateVars, countVars>>
Clock  == pc # "closed" /\ Tick /\ UNCHANGED <<web, turnVars, frontierVars, fateVars, countVars>>

CrawlStep ==
  \/ Start \/ RootRefused \/ Take \/ AbortedAtHead \/ GuardRefuses \/ GuardAllows \/ AtGate
  \/ GateRefuses \/ Open \/ OpenFails \/ LandSkipped \/ BackOff \/ Land \/ Requeue
  \/ AbortedBackingOff \/ SettleSkipped \/ Throws \/ Capture
  \/ \E c \in {0, 1} : Finish(c)

CrawlNext == CrawlStep \/ Signal \/ Clock
CrawlSpec == CrawlInit /\ [][CrawlNext]_crawlVars

\* Look-ups, navigations and delays have timeouts; timers fire.
LiveCrawlSpec == CrawlSpec /\ WF_crawlVars(CrawlStep) /\ WF_crawlVars(Clock)

-----------------------------------------------------------------------------
(* Properties *)

\* The fate of an address as the program keeps it.
Fate(u) ==
  IF u \in UrlsOf(queue) THEN "waiting"
  ELSE IF u \in Captured THEN "captured"
  ELSE IF u \in skipped THEN "skipped"
  ELSE IF u \in failed THEN "failed"
  ELSE IF u \in queued THEN "waiting" ELSE "unseen"

Promise == INSTANCE CrawlFates WITH
  fate    <- [u \in Urls |-> Fate(u)],
  outcome <- IF pc # "closed" THEN "running" ELSE IF exit = 0 THEN "complete" ELSE "stopped"

\* runCrawl keeps what a crawl promises: an address met waits and gets one fate for good,
\* through promotions, redirects and 429s, within the budget, and a crawl that ends with
\* budget left has decided all.
KeepsPromise == Promise!FatesSpec

\* An entry waits with the best tier and the least depth that any page captured so far
\* gives its address, however many pages and in which order (crawl.mjs: "an
\* already-queued URL is promoted to the better tier").
FrontierBestKnown ==
  LET Shows(u) == IF crawled[u].depth < CrawlDepth THEN web.links[crawled[u].settled] ELSE <<>>
      Linked == UNION {{[link |-> Shows(u)[i], depth |-> crawled[u].depth + 1] : i \in DOMAIN Shows(u)} :
                       u \in Captured}
      Known(n) == {[tier |-> k.link.tier, depth |-> k.depth] : k \in {l \in Linked : l.link.to = n}}
                  \cup (IF n = Root THEN {[tier |-> 0, depth |-> 0]} ELSE {})
                  \cup (IF \E i \in DOMAIN web.sitemap : web.sitemap[i] = n
                        THEN {[tier |-> 2, depth |-> 1]} ELSE {})
  IN \A i \in DOMAIN queue :
       LET e == queue[i] IN
       /\ \A k \in Known(e.url) : e.tier <= k.tier /\ e.depth <= k.depth
       /\ \E k \in Known(e.url) : e.tier = k.tier
       /\ \E k \in Known(e.url) : e.depth = k.depth

\* crawl.mjs: "a redirect that lands on a page already captured is not captured again":
\* of the captures that ended on one page, at most one came by a redirect.
RedirectCapturedOnce ==
  \A u, v \in Captured :
    LET page == crawled[u].settled IN
    crawled[v].settled = page /\ u # page /\ v # page => u = v

\* crawl.mjs: "at most cfg.maxQueryVariantsPerPath fetches of one path's query
\* variants", those repeated after a 429 included.  A fetch is a visit: the second goto()
\* of one whose first timed out, and that of the mobile screenshot, are counted by nobody.
VariantBudget ==
  MaxVariants > 0 => \A p \in Paths \ {NoPath} :
    LET V == {u \in Urls : web.path[u] = p}
        spent == {r \in V \X (1..(RateLimitRetries + 1)) : r[2] <= visits[r[1]]}
    IN Cardinality(spent) <= MaxVariants

\* crawl.mjs: "Quotas are floors, not caps": a tier that always had entries waiting has
\* had its share of the entries taken, but for one, while others run dry (one that
\* comes back is served alone until it has caught up, at everybody's cost).
FloorShare ==
  ~refilled => \A t \in fed : 10 * tierTaken[t] >= TierQuota[t] * Total(tierTaken) - 10

\* Every crawl ends: no 429 or redirect keeps it going, and no slot is left behind
\* that its own loop then waits for.
CrawlEnds == <>(pc = "closed")
=============================================================================
