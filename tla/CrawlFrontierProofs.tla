------------------------ MODULE CrawlFrontierProofs -------------------------
(***************************************************************************)
(* What is proved of the crawl, for every site and every specification.    *)
(***************************************************************************)
EXTENDS CrawlFrontier, PolitenessGateProofs, SequenceTheorems, WellFoundedInduction

-----------------------------------------------------------------------------
(* Positions: the least of a set, and the set in order.                      *)

LEMMA LeastOf ==
  ASSUME NEW T, T \subseteq Nat, T # {}
  PROVE  \E x \in T : \A y \in T : x <= y
  <1> DEFINE R == {ss \in Nat \X Nat : ss[1] < ss[2]}
  <1>1. IsWellFoundedOn(R, Nat)
    BY NatLessThanWellFounded DEF OpToRel
  <1>2. PICK x \in T : \A y \in T : ~(<<y, x>> \in R)
    <2> HIDE DEF R
    <2> QED BY <1>1, WFMin
  <1>3. ASSUME NEW y \in T PROVE x <= y
    <2>1. x \in Nat /\ y \in Nat /\ <<y, x>> \notin R
      BY <1>2
    <2>2. <<y, x>> \in R <=> y < x
      BY <2>1
    <2> QED
      BY <2>1, <2>2
  <1> QED
    BY <1>3

\* InOrder enumerates a finite set of positions, each once.
LEMMA InOrderEnumerates ==
  ASSUME NEW n \in Nat, NEW A, A \subseteq 1..n
  PROVE  /\ Cardinality(A) \in Nat /\ Cardinality(A) <= n
         /\ InOrder(A) \in [1..Cardinality(A) -> A]
         /\ \A k, l \in 1..Cardinality(A) : InOrder(A)[k] = InOrder(A)[l] => k = l
         /\ \A a \in A : \E k \in 1..Cardinality(A) : InOrder(A)[k] = a
  <1> DEFINE Upto(i) == {j \in A : j <= i}
             rank == [i \in A |-> Cardinality(Upto(i))]
  <1>1. IsFiniteSet(A) /\ Cardinality(A) \in Nat /\ Cardinality(A) <= n
    <2>1. IsFiniteSet(1..n) /\ Cardinality(1..n) = n
      BY FS_Interval
    <2> QED
      BY <2>1, FS_Subset, FS_CardinalityType
  <1>2. PICK m \in Nat : m = Cardinality(A)
    BY <1>1
  <1>3. \A i \in A : IsFiniteSet(Upto(i)) /\ Cardinality(Upto(i)) \in 1..m /\ i \in Upto(i)
    <2> SUFFICES ASSUME NEW i \in A
                 PROVE  IsFiniteSet(Upto(i)) /\ Cardinality(Upto(i)) \in 1..m /\ i \in Upto(i)
      OBVIOUS
    <2>1. i \in Upto(i) /\ Upto(i) \subseteq A
      OBVIOUS
    <2> HIDE DEF Upto
    <2>2. IsFiniteSet(Upto(i)) /\ Cardinality(Upto(i)) \in Nat /\ Cardinality(Upto(i)) <= m
      BY <1>1, <1>2, <2>1, FS_Subset, FS_CardinalityType
    <2>3. Cardinality(Upto(i)) # 0
      BY <2>1, <2>2, FS_EmptySet
    <2> QED
      BY <2>1, <2>2, <2>3
  <1>4. \A i, j \in A : Cardinality(Upto(i)) = Cardinality(Upto(j)) => i = j
    <2>1. ASSUME NEW i \in A, NEW j \in A, i < j PROVE Cardinality(Upto(i)) # Cardinality(Upto(j))
      <3>0. \A k \in A : k \in Int
        OBVIOUS
      <3>1. (\A k \in A : k <= i => k <= j) /\ ~(j <= i)
        BY <2>1, <3>0
      <3>2. Upto(i) \subseteq Upto(j) /\ j \notin Upto(i)
        BY <3>1
      <3> HIDE DEF Upto
      <3> QED
        BY <1>3, <2>1, <3>2, FS_Subset
    <2> HIDE DEF Upto
    <2>2. \A i, j \in A : i < j \/ j < i \/ i = j
      OBVIOUS
    <2> QED
      BY <2>1, <2>2
  <1> HIDE DEF Upto
  <1>5. rank \in Injection(A, 1..m)
    BY <1>3, <1>4 DEF Injection, IsInjective
  <1>6. IsFiniteSet(1..m) /\ Cardinality(1..m) = m
    BY FS_Interval
  <1>7. rank \in Surjection(A, 1..m)
    BY <1>2, <1>5, <1>6, FS_Injection
  <1>8. \A k \in 1..m : \E i \in A : Cardinality(Upto(i)) = k
    BY <1>7 DEF Surjection
  <1>9. InOrder(A) = [k \in 1..m |-> CHOOSE i \in A : Cardinality(Upto(i)) = k]
    BY <1>2 DEF InOrder, Upto
  <1>10. \A k \in 1..m : InOrder(A)[k] \in A /\ Cardinality(Upto(InOrder(A)[k])) = k
    BY <1>8, <1>9
  <1>11. InOrder(A) \in [1..m -> A]
    BY <1>9, <1>10
  <1>12. \A k, l \in 1..m : InOrder(A)[k] = InOrder(A)[l] => k = l
    <2> SUFFICES ASSUME NEW k \in 1..m, NEW l \in 1..m, InOrder(A)[k] = InOrder(A)[l] PROVE k = l
      OBVIOUS
    <2> QED
      BY <1>10
  <1>13. \A a \in A : \E k \in 1..m : InOrder(A)[k] = a
    <2> SUFFICES ASSUME NEW a \in A PROVE \E k \in 1..m : InOrder(A)[k] = a
      OBVIOUS
    <2>1. PICK k \in 1..m : k = Cardinality(Upto(a))
      BY <1>3
    <2> QED
      BY <1>4, <1>10, <2>1
  <1> QED
    BY <1>1, <1>2, <1>11, <1>12, <1>13

-----------------------------------------------------------------------------
(* The frontier as a sequence of entries, no two of one address.             *)

EntriesOf(q) == {q[i] : i \in DOMAIN q}
NoRepeats(q) == \A i, j \in DOMAIN q : q[i].url = q[j].url => i = j
Frontier     == {q \in Seq(Entry) : NoRepeats(q)}

LEMMA FrontierSeq ==
  ASSUME NEW q \in Frontier
  PROVE  /\ q \in Seq(Entry) /\ Len(q) \in Nat /\ DOMAIN q = 1..Len(q) /\ q \in [1..Len(q) -> Entry]
         /\ EntriesOf(q) \subseteq Entry /\ UrlsOf(q) \subseteq Urls
         /\ \A e, f \in EntriesOf(q) : e.url = f.url => e = f
         /\ UrlsOf(q) = {e.url : e \in EntriesOf(q)}
  <1>1. q \in Seq(Entry) /\ NoRepeats(q)
    BY DEF Frontier
  <1>2. Len(q) \in Nat /\ DOMAIN q = 1..Len(q) /\ q \in [1..Len(q) -> Entry]
    BY <1>1, LenProperties
  <1>3. EntriesOf(q) \subseteq Entry /\ UrlsOf(q) \subseteq Urls
    BY <1>2 DEF EntriesOf, UrlsOf, Entry
  <1>4. UrlsOf(q) = {e.url : e \in EntriesOf(q)}
    BY DEF EntriesOf, UrlsOf
  <1>5. \A e, f \in EntriesOf(q) : e.url = f.url => e = f
    BY <1>1 DEF EntriesOf, NoRepeats
  <1> QED
    BY <1>1, <1>2, <1>3, <1>4, <1>5

\* Two frontiers of different addresses, one after the other.
LEMMA Joined ==
  ASSUME NEW p \in Frontier, NEW q \in Frontier, UrlsOf(p) \cap UrlsOf(q) = {}
  PROVE  /\ p \o q \in Frontier
         /\ EntriesOf(p \o q) = EntriesOf(p) \cup EntriesOf(q)
         /\ UrlsOf(p \o q) = UrlsOf(p) \cup UrlsOf(q)
  <1>1. /\ p \in Seq(Entry) /\ Len(p) \in Nat /\ DOMAIN p = 1..Len(p) /\ NoRepeats(p)
        /\ q \in Seq(Entry) /\ Len(q) \in Nat /\ DOMAIN q = 1..Len(q) /\ NoRepeats(q)
    BY FrontierSeq DEF Frontier
  <1> DEFINE r == p \o q
  <1>2. /\ r \in Seq(Entry) /\ Len(r) = Len(p) + Len(q)
        /\ \A i \in 1..(Len(p) + Len(q)) : r[i] = IF i <= Len(p) THEN p[i] ELSE q[i - Len(p)]
    BY <1>1, ConcatProperties
  <1>3. DOMAIN r = 1..(Len(p) + Len(q))
    BY <1>2, LenProperties
  <1> HIDE DEF r
  <1>4. \A i \in 1..Len(p) : r[i] = p[i] /\ i \in DOMAIN r
    BY <1>1, <1>2, <1>3
  <1>5. \A i \in 1..Len(q) : r[i + Len(p)] = q[i] /\ i + Len(p) \in DOMAIN r
    BY <1>1, <1>2, <1>3
  <1>6. \A i \in DOMAIN r : \/ i \in 1..Len(p) /\ r[i] = p[i]
                            \/ i - Len(p) \in 1..Len(q) /\ r[i] = q[i - Len(p)]
    BY <1>1, <1>2, <1>3
  <1>7. EntriesOf(r) = EntriesOf(p) \cup EntriesOf(q)
    BY <1>1, <1>4, <1>5, <1>6 DEF EntriesOf
  <1>8. UrlsOf(r) = UrlsOf(p) \cup UrlsOf(q)
    BY <1>1, <1>4, <1>5, <1>6 DEF UrlsOf
  <1>9. NoRepeats(r)
    <2> SUFFICES ASSUME NEW i \in DOMAIN r, NEW j \in DOMAIN r, r[i].url = r[j].url PROVE i = j
      BY DEF NoRepeats
    <2>1. CASE i \in 1..Len(p) /\ r[i] = p[i] /\ j \in 1..Len(p) /\ r[j] = p[j]
      BY <1>1, <2>1 DEF NoRepeats
    <2>2. CASE /\ i - Len(p) \in 1..Len(q) /\ r[i] = q[i - Len(p)]
               /\ j - Len(p) \in 1..Len(q) /\ r[j] = q[j - Len(p)]
      <3>1. i - Len(p) = j - Len(p)
        BY <1>1, <2>2 DEF NoRepeats
      <3> QED
        BY <1>1, <1>3, <3>1
    <2>3. CASE i \in 1..Len(p) /\ r[i] = p[i] /\ j - Len(p) \in 1..Len(q) /\ r[j] = q[j - Len(p)]
      BY <1>1, <2>3 DEF UrlsOf
    <2>4. CASE j \in 1..Len(p) /\ r[j] = p[j] /\ i - Len(p) \in 1..Len(q) /\ r[i] = q[i - Len(p)]
      BY <1>1, <2>4 DEF UrlsOf
    <2> QED
      BY <1>6, <2>1, <2>2, <2>3, <2>4
  <1> QED
    BY <1>2, <1>7, <1>8, <1>9 DEF Frontier, r

LEMMA OneEntry ==
  ASSUME NEW e \in Entry
  PROVE  <<e>> \in Frontier /\ EntriesOf(<<e>>) = {e} /\ UrlsOf(<<e>>) = {e.url}
  <1>1. <<e>> \in Seq(Entry) /\ DOMAIN <<e>> = {1} /\ <<e>>[1] = e
    OBVIOUS
  <1> QED
    BY <1>1 DEF Frontier, NoRepeats, EntriesOf, UrlsOf

LEMMA NoEntries == <<>> \in Frontier /\ EntriesOf(<<>>) = {} /\ UrlsOf(<<>>) = {}
  <1>1. <<>> \in Seq(Entry) /\ DOMAIN <<>> = {}
    OBVIOUS
  <1> QED
    BY <1>1 DEF Frontier, NoRepeats, EntriesOf, UrlsOf

\* At the tail.
LEMMA Appended ==
  ASSUME NEW q \in Frontier, NEW e \in Entry, e.url \notin UrlsOf(q)
  PROVE  /\ Append(q, e) \in Frontier /\ EntriesOf(Append(q, e)) = EntriesOf(q) \cup {e}
         /\ UrlsOf(Append(q, e)) = UrlsOf(q) \cup {e.url}
  <1>1. Append(q, e) = q \o <<e>>
    BY DEF Frontier
  <1> QED
    BY <1>1, OneEntry, Joined

\* One entry taken out.
LEMMA Removed ==
  ASSUME NEW q \in Frontier, NEW i \in DOMAIN q
  PROVE  /\ Without(q, i) \in Frontier
         /\ EntriesOf(Without(q, i)) = EntriesOf(q) \ {q[i]}
         /\ UrlsOf(Without(q, i)) = UrlsOf(q) \ {q[i].url}
  <1>1. /\ q \in Seq(Entry) /\ Len(q) \in Nat /\ DOMAIN q = 1..Len(q) /\ NoRepeats(q)
        /\ q \in [1..Len(q) -> Entry]
    BY FrontierSeq DEF Frontier
  <1>l. Len(q) - 1 \in Nat /\ Len(q) = (Len(q) - 1) + 1
    BY <1>1
  <1>2. PICK n \in Nat : n = Len(q) - 1 /\ Len(q) = n + 1
    BY <1>l
  <1> DEFINE r == Without(q, i)
             from(j) == IF j < i THEN j ELSE j + 1
  <1>3. r = [j \in 1..n |-> q[from(j)]]
    BY <1>2 DEF Without
  <1>4. \A j \in 1..n : from(j) \in 1..Len(q) \ {i}
    BY <1>1, <1>2
  <1>5. \A k \in 1..Len(q) \ {i} : \E j \in 1..n : k = from(j)
    <2> SUFFICES ASSUME NEW k \in 1..Len(q) \ {i} PROVE \E j \in 1..n : k = from(j)
      OBVIOUS
    <2>1. CASE k < i
      <3>1. k \in 1..n /\ from(k) = k
        BY <1>1, <1>2, <2>1
      <3> QED
        BY <3>1
    <2>2. CASE k > i
      <3>1. k - 1 \in 1..n /\ from(k - 1) = k
        BY <1>1, <1>2, <2>2
      <3> QED
        BY <3>1
    <2> QED
      BY <1>1, <2>1, <2>2
  <1>6. \A j, k \in 1..n : from(j) = from(k) => j = k
    BY <1>1
  <1> HIDE DEF r, from
  <1>7. r \in [1..n -> Entry]
    BY <1>1, <1>3, <1>4
  <1>8. r \in Seq(Entry) /\ DOMAIN r = 1..n
    BY <1>7, SeqDef
  <1>9. NoRepeats(r)
    BY <1>1, <1>3, <1>4, <1>6, <1>8 DEF NoRepeats
  <1>10. \A k \in 1..Len(q) \ {i} : q[k] # q[i] /\ q[k].url # q[i].url
    BY <1>1 DEF NoRepeats
  <1>11. \A j \in 1..n : r[j] = q[from(j)]
    BY <1>3
  <1>12. EntriesOf(r) = EntriesOf(q) \ {q[i]}
    BY <1>1, <1>4, <1>5, <1>8, <1>10, <1>11 DEF EntriesOf
  <1>13. UrlsOf(r) = UrlsOf(q) \ {q[i].url}
    <2>1. r \in Frontier
      BY <1>8, <1>9 DEF Frontier
    <2>2. UrlsOf(r) = {e.url : e \in EntriesOf(r)} /\ UrlsOf(q) = {e.url : e \in EntriesOf(q)}
      BY <2>1, FrontierSeq
    <2>3. \A e \in EntriesOf(q) : e # q[i] => e.url # q[i].url
      BY <1>1, <1>10 DEF EntriesOf
    <2> QED
      BY <1>12, <2>2, <2>3
  <1> QED
    BY <1>8, <1>9, <1>12, <1>13 DEF Frontier, r

\* The oldest entry of a tier that has entries.
LEMMA OldestOf ==
  ASSUME queue \in Frontier, NEW t \in Waits
  PROVE  Oldest(t) \in DOMAIN queue /\ queue[Oldest(t)].tier = t
  <1>1. DOMAIN queue = 1..Len(queue) /\ Len(queue) \in Nat
    BY FrontierSeq
  <1> DEFINE T == {i \in DOMAIN queue : queue[i].tier = t}
  <1>2. T \subseteq Nat /\ T # {}
    BY <1>1 DEF Waits
  <1>3. PICK i \in T : \A j \in T : i <= j
    <2> HIDE DEF T
    <2> QED
      BY <1>2, LeastOf
  <1>4. \A j \in 1..(i - 1) : queue[j].tier # t
    BY <1>1, <1>3
  <1>5. \E k \in DOMAIN queue : queue[k].tier = t /\ \A j \in 1..(k - 1) : queue[j].tier # t
    BY <1>3, <1>4
  <1> QED
    BY <1>5 DEF Oldest

-----------------------------------------------------------------------------
(* What the links of a captured page do to the frontier.                     *)

LinkSeqs == Seq([to : Urls, tier : {0, 1}])

ShownBy(L, seen) == {n \in {L[i].to : i \in DOMAIN L} : n \notin seen \cup web.offsite}
BestIn(L, n)     == IF \E i \in DOMAIN L : L[i] = [to |-> n, tier |-> 0] THEN 0 ELSE 1
NewIn(L, seen)   == {n \in ShownBy(L, seen) : n \notin queuedEntry /\ n \notin queued}

\* How an entry that was waiting comes out.
Improved(e, o, L, d, seen) ==
  IF o.url \in ShownBy(L, seen)
  THEN /\ e.url = o.url
       /\ e.tier = IF BestIn(L, o.url) < o.tier THEN BestIn(L, o.url) ELSE o.tier
       /\ e.depth = IF o.depth > d + 1 THEN d + 1 ELSE o.depth
  ELSE e = o

\* Of the links to one address, the first of its best tier.
LEMMA FirstBest ==
  ASSUME NEW L \in LinkSeqs, NEW n \in {L[i].to : i \in DOMAIN L}
  PROVE  \E i \in DOMAIN L : /\ L[i] = [to |-> n, tier |-> BestIn(L, n)]
                             /\ \A j \in 1..(i - 1) : L[j] # L[i]
  <1>1. DOMAIN L = 1..Len(L) /\ Len(L) \in Nat /\ \A i \in DOMAIN L : L[i] \in [to : Urls, tier : {0, 1}]
    BY LenProperties, ElementOfSeq DEF LinkSeqs
  <1> DEFINE T == {i \in DOMAIN L : L[i] = [to |-> n, tier |-> BestIn(L, n)]}
  <1>2. T # {}
    <2>1. PICK i \in DOMAIN L : L[i].to = n
      OBVIOUS
    <2>2. L[i] = [to |-> n, tier |-> L[i].tier] /\ L[i].tier \in {0, 1}
      BY <1>1, <2>1
    <2>3. CASE BestIn(L, n) = 0
      BY <2>3 DEF BestIn
    <2>4. CASE BestIn(L, n) = 1
      BY <2>2, <2>4 DEF BestIn
    <2> QED
      BY <2>3, <2>4 DEF BestIn
  <1>3. PICK i \in T : \A j \in T : i <= j
    <2>1. T \subseteq Nat
      BY <1>1
    <2> HIDE DEF T
    <2> QED
      BY <1>2, <2>1, LeastOf
  <1>4. \A j \in 1..(i - 1) : j \in DOMAIN L /\ j < i
    BY <1>1
  <1>5. \A j \in 1..(i - 1) : L[j] # L[i]
    BY <1>1, <1>3, <1>4
  <1> QED
    BY <1>3, <1>5

LEMMA FollowEffect ==
  ASSUME queue \in Frontier, queuedEntry = UrlsOf(queue), NEW L \in LinkSeqs, NEW d \in Nat, NEW seen,
         Follow(L, d, seen)
  PROVE  /\ queue' \in Frontier /\ UrlsOf(queue)' = UrlsOf(queue) \cup NewIn(L, seen)
         /\ queued' = queued \cup NewIn(L, seen) /\ queuedEntry' = UrlsOf(queue)'
         /\ NewIn(L, seen) \subseteq Urls \ (queued \cup UrlsOf(queue) \cup seen \cup web.offsite)
         /\ \A e \in EntriesOf(queue') :
              \/ /\ e.url \in NewIn(L, seen)
                 /\ e = [url |-> e.url, depth |-> d + 1, tier |-> BestIn(L, e.url)]
              \/ \E o \in EntriesOf(queue) : Improved(e, o, L, d, seen)
  <1> DEFINE Shown == ShownBy(L, seen)
             Best(n) == BestIn(L, n)
             Promoted == {n \in Shown \cap queuedEntry : Best(n) < TierOf(n)}
             Fresh == NewIn(L, seen)
             A == {i \in DOMAIN L : /\ L[i].to \in Promoted \cup Fresh /\ L[i].tier = Best(L[i].to)
                                    /\ \A j \in 1..(i - 1) : L[j] # L[i]}
             S == {i \in DOMAIN queue : queue[i].url \notin Promoted}
             Near(e) == IF e.url \in Shown /\ e.depth > d + 1 THEN [e EXCEPT !.depth = d + 1] ELSE e
             Waiting(n) == CHOOSE e \in {queue[i] : i \in DOMAIN queue} : e.url = n
             Arrival(n) == IF n \in Fresh THEN [url |-> n, depth |-> d + 1, tier |-> Best(n)]
                           ELSE [Near(Waiting(n)) EXCEPT !.tier = Best(n)]
             front == [k \in DOMAIN InOrder(S) |-> Near(queue[InOrder(S)[k]])]
             back == [k \in DOMAIN InOrder(A) |-> Arrival(L[InOrder(A)[k]].to)]
  <1>1. /\ queue' = front \o back
        /\ queued' = queued \cup Fresh /\ queuedEntry' = queuedEntry \cup Fresh
    BY DEF Follow, ShownBy, BestIn, NewIn, New
  <1>2. /\ DOMAIN L = 1..Len(L) /\ Len(L) \in Nat
        /\ \A i \in DOMAIN L : L[i] \in [to : Urls, tier : {0, 1}]
    BY LenProperties, ElementOfSeq DEF LinkSeqs
  <1>3. /\ DOMAIN queue = 1..Len(queue) /\ Len(queue) \in Nat
        /\ \A i \in DOMAIN queue : queue[i] \in Entry /\ queue[i].url \in queuedEntry
        /\ \A i, j \in DOMAIN queue : queue[i].url = queue[j].url => i = j
    BY FrontierSeq DEF Frontier, NoRepeats, UrlsOf
  <1>4. Shown \subseteq Urls /\ Fresh \subseteq Shown /\ Promoted \subseteq Shown \cap queuedEntry
    BY <1>2 DEF ShownBy, NewIn
  <1>5. \A n : Best(n) \in {0, 1}
    BY DEF BestIn
  <1>6. Fresh \cap queuedEntry = {} /\ Fresh \subseteq Urls \ (queued \cup UrlsOf(queue) \cup seen \cup web.offsite)
    BY <1>4 DEF NewIn, ShownBy
  \* The entry that waits for an address, and its tier.
  <1>7. ASSUME NEW n \in queuedEntry
        PROVE  \E i \in DOMAIN queue : queue[i].url = n /\ Waiting(n) = queue[i] /\ TierOf(n) = queue[i].tier
    <2>1. PICK i \in DOMAIN queue : queue[i].url = n
      BY <1>7 DEF UrlsOf
    <2>2. (CHOOSE k \in DOMAIN queue : queue[k].url = n) = i
      BY <1>3, <2>1
    <2>3. Waiting(n) \in {queue[k] : k \in DOMAIN queue} /\ Waiting(n).url = n
      <3> DEFINE E == {queue[k] : k \in DOMAIN queue}
      <3>1. \E e \in E : e.url = n
        BY <2>1
      <3> HIDE DEF E
      <3>2. (CHOOSE e \in E : e.url = n) \in E /\ (CHOOSE e \in E : e.url = n).url = n
        BY <3>1
      <3> QED
        BY <3>2 DEF E
    <2> HIDE DEF Waiting
    <2>4. PICK k \in DOMAIN queue : Waiting(n) = queue[k]
      BY <2>3
    <2>5. k = i
      BY <1>3, <2>1, <2>3, <2>4
    <2> QED
      BY <2>1, <2>2, <2>4, <2>5 DEF TierOf
  <1>8. \A e \in Entry : Near(e) \in Entry /\ Near(e).url = e.url /\ Near(e).tier = e.tier
    BY DEF Entry
  <1>9. \A n \in Promoted \cup Fresh : Arrival(n) \in Entry /\ Arrival(n).url = n /\ Arrival(n).tier = Best(n)
    <2> SUFFICES ASSUME NEW n \in Promoted \cup Fresh
                 PROVE  Arrival(n) \in Entry /\ Arrival(n).url = n /\ Arrival(n).tier = Best(n)
      OBVIOUS
    <2>1. CASE n \in Fresh
      <3>1. Arrival(n) = [url |-> n, depth |-> d + 1, tier |-> Best(n)]
        BY <2>1
      <3>2. n \in Urls /\ d + 1 \in Nat /\ Best(n) \in Tiers
        BY <1>4, <1>5, <2>1 DEF Tiers
      <3> HIDE DEF Best, Arrival
      <3> QED
        BY <3>1, <3>2 DEF Entry
    <2>2. CASE n \notin Fresh
      <3>1. n \in queuedEntry
        BY <1>4, <2>2
      <3>2. PICK i \in DOMAIN queue : queue[i].url = n /\ Waiting(n) = queue[i]
        BY <1>7, <3>1
      <3>3. Arrival(n) = [Near(queue[i]) EXCEPT !.tier = Best(n)]
        BY <2>2, <3>2
      <3>4. Near(queue[i]) \in Entry /\ Near(queue[i]).url = n /\ Best(n) \in Tiers
        BY <1>3, <1>5, <1>8, <3>2 DEF Tiers
      <3> HIDE DEF Best, Arrival, Near
      <3> QED
        BY <3>3, <3>4 DEF Entry
    <2> QED
      BY <2>1, <2>2
  <1> HIDE DEF Near, Arrival, Waiting, Best
  \* Those that stay.
  <1>10. PICK m \in Nat : /\ InOrder(S) \in [1..m -> S]
                          /\ \A k, l \in 1..m : InOrder(S)[k] = InOrder(S)[l] => k = l
                          /\ \A i \in S : \E k \in 1..m : InOrder(S)[k] = i
    <2>1. S \subseteq 1..Len(queue)
      BY <1>3
    <2> HIDE DEF S
    <2>2. /\ Cardinality(S) \in Nat /\ InOrder(S) \in [1..Cardinality(S) -> S]
          /\ \A k, l \in 1..Cardinality(S) : InOrder(S)[k] = InOrder(S)[l] => k = l
          /\ \A i \in S : \E k \in 1..Cardinality(S) : InOrder(S)[k] = i
      BY <1>3, <2>1, InOrderEnumerates
    <2> QED
      BY <2>2
  <1>11. front = [k \in 1..m |-> Near(queue[InOrder(S)[k]])]
    BY <1>10
  <1>12. \A k \in 1..m : /\ InOrder(S)[k] \in DOMAIN queue /\ queue[InOrder(S)[k]].url \notin Promoted
                         /\ front[k] = Near(queue[InOrder(S)[k]])
    BY <1>10, <1>11
  <1>13. front \in Seq(Entry) /\ DOMAIN front = 1..m
    <2>1. front \in [1..m -> Entry]
      BY <1>3, <1>8, <1>11, <1>12
    <2> QED
      BY <2>1, SeqDef
  <1> HIDE DEF front
  <1>14. front \in Frontier
    <2> SUFFICES ASSUME NEW k \in 1..m, NEW l \in 1..m, front[k].url = front[l].url PROVE k = l
      BY <1>13 DEF Frontier, NoRepeats
    <2>1. queue[InOrder(S)[k]].url = queue[InOrder(S)[l]].url
      BY <1>3, <1>8, <1>12
    <2>2. InOrder(S)[k] = InOrder(S)[l]
      BY <1>3, <1>12, <2>1
    <2> HIDE DEF S
    <2> QED
      BY <1>10, <2>2
  <1>15. EntriesOf(front) = {Near(queue[i]) : i \in S}
    BY <1>10, <1>12, <1>13 DEF EntriesOf
  <1>16. UrlsOf(front) = queuedEntry \ Promoted
    <2>1. UrlsOf(front) = {e.url : e \in EntriesOf(front)}
      BY <1>14, FrontierSeq
    <2>2. \A i \in DOMAIN queue : Near(queue[i]).url = queue[i].url
      BY <1>3, <1>8
    <2>3. UrlsOf(front) = {queue[i].url : i \in S}
      BY <1>15, <2>1, <2>2
    <2>4. queuedEntry = {queue[i].url : i \in DOMAIN queue}
      BY DEF UrlsOf
    <2> HIDE DEF Promoted
    <2> QED
      BY <2>3, <2>4
  \* Those that arrive.
  <1>17. PICK p \in Nat : /\ InOrder(A) \in [1..p -> A]
                          /\ \A k, l \in 1..p : InOrder(A)[k] = InOrder(A)[l] => k = l
                          /\ \A i \in A : \E k \in 1..p : InOrder(A)[k] = i
    <2>1. A \subseteq 1..Len(L) /\ Len(L) \in Nat
      BY <1>2
    <2> HIDE DEF A
    <2>2. /\ Cardinality(A) \in Nat /\ InOrder(A) \in [1..Cardinality(A) -> A]
          /\ \A k, l \in 1..Cardinality(A) : InOrder(A)[k] = InOrder(A)[l] => k = l
          /\ \A i \in A : \E k \in 1..Cardinality(A) : InOrder(A)[k] = i
      BY <2>1, InOrderEnumerates
    <2> QED
      BY <2>2
  <1>18. back = [k \in 1..p |-> Arrival(L[InOrder(A)[k]].to)]
    BY <1>17
  <1>19. \A k \in 1..p : /\ InOrder(A)[k] \in A /\ L[InOrder(A)[k]].to \in Promoted \cup Fresh
                         /\ back[k] = Arrival(L[InOrder(A)[k]].to)
    BY <1>17, <1>18
  <1>20. back \in Seq(Entry) /\ DOMAIN back = 1..p
    <2>1. back \in [1..p -> Entry]
      BY <1>9, <1>18, <1>19
    <2> QED
      BY <2>1, SeqDef
  <1>21. \A i, j \in A : L[i].to = L[j].to => i = j
    <2>1. ASSUME NEW i \in A, NEW j \in A, L[i].to = L[j].to, i < j PROVE FALSE
      <3>1. L[i] = L[j]
        BY <1>2, <2>1
      <3>2. i \in 1..(j - 1)
        BY <1>2, <2>1
      <3> QED
        BY <3>1, <3>2
    <2>2. \A i, j \in A : i < j \/ j < i \/ i = j
      BY <1>2
    <2> HIDE DEF A
    <2> QED
      BY <2>1, <2>2
  <1>22. \A n \in Promoted \cup Fresh : \E i \in A : L[i].to = n
    <2> SUFFICES ASSUME NEW n \in Promoted \cup Fresh PROVE \E i \in A : L[i].to = n
      OBVIOUS
    <2>1. n \in {L[i].to : i \in DOMAIN L}
      BY <1>4 DEF ShownBy
    <2>2. PICK i \in DOMAIN L : /\ L[i] = [to |-> n, tier |-> BestIn(L, n)]
                                /\ \A j \in 1..(i - 1) : L[j] # L[i]
      BY <2>1, FirstBest
    <2> QED
      BY <2>2 DEF Best
  <1> HIDE DEF back, A
  <1>23. back \in Frontier
    <2> SUFFICES ASSUME NEW k \in 1..p, NEW l \in 1..p, back[k].url = back[l].url PROVE k = l
      BY <1>20 DEF Frontier, NoRepeats
    <2>1. L[InOrder(A)[k]].to = L[InOrder(A)[l]].to
      BY <1>9, <1>19
    <2> QED
      BY <1>17, <1>19, <1>21, <2>1
  <1>24. EntriesOf(back) = {Arrival(n) : n \in Promoted \cup Fresh}
    BY <1>17, <1>19, <1>20, <1>22 DEF EntriesOf
  <1>25. UrlsOf(back) = Promoted \cup Fresh
    <2>1. UrlsOf(back) = {e.url : e \in EntriesOf(back)}
      BY <1>23, FrontierSeq
    <2> QED
      BY <1>9, <1>24, <2>1
  \* Together.
  <1>26. /\ queue' \in Frontier /\ EntriesOf(queue') = EntriesOf(front) \cup EntriesOf(back)
         /\ UrlsOf(queue') = UrlsOf(front) \cup UrlsOf(back)
    <2>1. UrlsOf(front) \cap UrlsOf(back) = {}
      BY <1>6, <1>16, <1>25
    <2> QED
      BY <1>1, <1>14, <1>23, <2>1, Joined
  <1>27. UrlsOf(queue') = UrlsOf(queue) \cup Fresh
    BY <1>4, <1>16, <1>25, <1>26
  <1>28. ASSUME NEW i \in S PROVE Improved(Near(queue[i]), queue[i], L, d, seen)
    <2>1. queue[i] \in Entry /\ queue[i].url \in queuedEntry /\ queue[i].url \notin Promoted
      BY <1>3
    <2>2. Near(queue[i]) = IF queue[i].url \in Shown /\ queue[i].depth > d + 1
                           THEN [queue[i] EXCEPT !.depth = d + 1] ELSE queue[i]
      BY DEF Near
    <2>3. TierOf(queue[i].url) = queue[i].tier
      BY <1>3, <1>7, <2>1
    <2>4. queue[i].url \in Shown => ~(BestIn(L, queue[i].url) < queue[i].tier)
      BY <2>1, <2>3 DEF Best
    <2> QED
      BY <2>1, <2>2, <2>4 DEF Improved, Entry
  <1>29. ASSUME NEW n \in Promoted, n \notin Fresh
         PROVE  \E o \in EntriesOf(queue) : Improved(Arrival(n), o, L, d, seen)
    <2>1. PICK i \in DOMAIN queue : queue[i].url = n /\ Waiting(n) = queue[i] /\ TierOf(n) = queue[i].tier
      BY <1>7, <1>29
    <2>2. Arrival(n) = [Near(queue[i]) EXCEPT !.tier = Best(n)]
      BY <1>29, <2>1 DEF Arrival
    <2>3. Near(queue[i]) = IF queue[i].depth > d + 1 THEN [queue[i] EXCEPT !.depth = d + 1] ELSE queue[i]
      BY <1>4, <1>29, <2>1 DEF Near
    <2>4. n \in ShownBy(L, seen) /\ BestIn(L, n) < queue[i].tier
      BY <1>29, <2>1 DEF Best
    <2>5. queue[i] \in Entry /\ queue[i] \in EntriesOf(queue)
      BY <1>3 DEF EntriesOf
    <2>6. Improved(Arrival(n), queue[i], L, d, seen)
      BY <2>1, <2>2, <2>3, <2>4, <2>5 DEF Improved, Entry, Best
    <2> QED
      BY <2>5, <2>6
  <1>30. ASSUME NEW n \in Fresh
         PROVE  Arrival(n) = [url |-> n, depth |-> d + 1, tier |-> BestIn(L, n)]
    BY DEF Arrival, Best
  <1>31. ASSUME NEW e \in EntriesOf(queue')
         PROVE  \/ /\ e.url \in NewIn(L, seen)
                   /\ e = [url |-> e.url, depth |-> d + 1, tier |-> BestIn(L, e.url)]
                \/ \E o \in EntriesOf(queue) : Improved(e, o, L, d, seen)
    <2>1. CASE e \in EntriesOf(front)
      <3>1. PICK i \in S : e = Near(queue[i])
        BY <1>15, <2>1
      <3> QED
        BY <1>28, <3>1 DEF EntriesOf
    <2>2. CASE e \in EntriesOf(back)
      <3>1. PICK n \in Promoted \cup Fresh : e = Arrival(n)
        BY <1>24, <2>2
      <3>2. CASE n \in Fresh
        BY <1>30, <3>1, <3>2
      <3>3. CASE n \notin Fresh
        BY <1>29, <3>1, <3>3
      <3> QED
        BY <3>2, <3>3
    <2> QED
      BY <1>26, <1>31, <2>1, <2>2
  <1> QED
    BY <1>1, <1>6, <1>26, <1>27, <1>31

-----------------------------------------------------------------------------
(* The frontier at the start of the crawl and of a turn.                     *)

LEMMA WebFacts ==
  ASSUME web \in Webs
  PROVE  /\ web.sitemap \in Seq(Urls) /\ web.links \in [Urls -> LinkSeqs]
         /\ web.answers \in [Urls -> SUBSET [kind : Kinds, final : Urls, settled : Urls]]
         /\ \A u \in Urls : web.path[u] \in Paths
         /\ Root \in Urls /\ RootEntry \in Entry
  <1>1. /\ web.sitemap \in Seq(Urls) /\ web.links \in [Urls -> LinkSeqs]
        /\ web.answers \in [Urls -> SUBSET [kind : Kinds, final : Urls, settled : Urls]]
        /\ Root \in Urls
    BY CrawlAssumption DEF LinkSeqs
  <1>2. \A u \in Urls : web.path[u] \in Paths
    BY DEF Paths
  <1>3. RootEntry \in Entry
    BY <1>1 DEF RootEntry, Entry, Tiers
  <1> QED
    BY <1>1, <1>2, <1>3

\* The addresses a crawl starts from: the root, and what the sitemap adds.
Seeded(e) ==
  /\ e = [url |-> e.url, depth |-> 1, tier |-> 2]
  /\ e.url \in Urls \ (web.offsite \cup {Root})
  /\ \E i \in DOMAIN web.sitemap : web.sitemap[i] = e.url

LEMMA StartEffect ==
  ASSUME web \in Webs, Start
  PROVE  /\ queue' \in Frontier /\ queued' = UrlsOf(queue') /\ queuedEntry' = UrlsOf(queue')
         /\ RootEntry \in EntriesOf(queue')
         /\ \A e \in EntriesOf(queue') : e = RootEntry \/ Seeded(e)
         /\ \A i \in DOMAIN web.sitemap : web.sitemap[i] \notin web.offsite => web.sitemap[i] \in UrlsOf(queue')
  <1> DEFINE S == web.sitemap
             fit == {i \in DOMAIN S : S[i] \notin web.offsite \cup {Root} /\ \A j \in 1..(i - 1) : S[j] # S[i]}
             seeds == [k \in DOMAIN InOrder(fit) |-> [url |-> S[InOrder(fit)[k]], depth |-> 1, tier |-> 2]]
  <1>1. queue' = <<RootEntry>> \o seeds /\ queuedEntry' = UrlsOf(queue') /\ queued' = UrlsOf(queue')
    BY DEF Start
  <1>2. DOMAIN S = 1..Len(S) /\ Len(S) \in Nat /\ \A i \in DOMAIN S : S[i] \in Urls
    BY WebFacts, LenProperties, ElementOfSeq
  <1>3. PICK m \in Nat : /\ InOrder(fit) \in [1..m -> fit]
                         /\ \A k, l \in 1..m : InOrder(fit)[k] = InOrder(fit)[l] => k = l
                         /\ \A i \in fit : \E k \in 1..m : InOrder(fit)[k] = i
    <2>1. fit \subseteq 1..Len(S)
      BY <1>2
    <2> HIDE DEF fit
    <2>2. /\ Cardinality(fit) \in Nat /\ InOrder(fit) \in [1..Cardinality(fit) -> fit]
          /\ \A k, l \in 1..Cardinality(fit) : InOrder(fit)[k] = InOrder(fit)[l] => k = l
          /\ \A i \in fit : \E k \in 1..Cardinality(fit) : InOrder(fit)[k] = i
      BY <1>2, <2>1, InOrderEnumerates
    <2> QED
      BY <2>2
  <1>4. \A i, j \in fit : S[i] = S[j] => i = j
    <2>1. \A i, j \in fit : i < j => S[i] # S[j]
      BY <1>2
    <2>2. \A i, j \in fit : i < j \/ j < i \/ i = j
      BY <1>2
    <2> HIDE DEF fit
    <2> QED
      BY <2>1, <2>2
  <1>5. \A k \in 1..m : /\ seeds[k] = [url |-> S[InOrder(fit)[k]], depth |-> 1, tier |-> 2]
                        /\ InOrder(fit)[k] \in DOMAIN S
                        /\ S[InOrder(fit)[k]] \in Urls \ (web.offsite \cup {Root})
    BY <1>2, <1>3
  <1>6. DOMAIN seeds = 1..m
    BY <1>3
  <1> HIDE DEF seeds
  <1>7. ASSUME NEW k \in 1..m
        PROVE  seeds[k] \in Entry /\ Seeded(seeds[k]) /\ seeds[k].url = S[InOrder(fit)[k]]
    <2>1. PICK i \in DOMAIN S : i = InOrder(fit)[k] /\ S[i] \in Urls \ (web.offsite \cup {Root})
      BY <1>5
    <2>2. PICK u \in Urls \ (web.offsite \cup {Root}) : u = S[i]
      BY <2>1
    <2>3. seeds[k] = [url |-> u, depth |-> 1, tier |-> 2]
      BY <1>5, <2>1, <2>2
    <2>4. seeds[k] \in Entry /\ seeds[k].url = u
      BY <2>3 DEF Entry, Tiers
    <2>5. Seeded(seeds[k])
      BY <2>1, <2>2, <2>3, <2>4 DEF Seeded
    <2> QED
      BY <2>1, <2>2, <2>4, <2>5
  <1>8. seeds \in Seq(Entry)
    <2>1. seeds = [k \in 1..m |-> seeds[k]]
      BY <1>6 DEF seeds
    <2>2. seeds \in [1..m -> Entry]
      BY <1>7, <2>1
    <2> QED
      BY <2>2, SeqDef
  <1>9. NoRepeats(seeds)
    <2> SUFFICES ASSUME NEW k \in 1..m, NEW l \in 1..m, seeds[k].url = seeds[l].url PROVE k = l
      BY <1>6 DEF NoRepeats
    <2>1. S[InOrder(fit)[k]] = S[InOrder(fit)[l]]
      BY <1>7
    <2>2. InOrder(fit)[k] = InOrder(fit)[l]
      <3>1. InOrder(fit)[k] \in fit /\ InOrder(fit)[l] \in fit
        <4> HIDE DEF fit
        <4> QED
          BY <1>3
      <3> HIDE DEF fit
      <3> QED
        BY <1>4, <2>1, <3>1
    <2> HIDE DEF fit
    <2> QED
      BY <1>3, <2>2
  <1>10. seeds \in Frontier
    BY <1>8, <1>9 DEF Frontier
  <1>11. \A e \in EntriesOf(seeds) : Seeded(e)
    BY <1>6, <1>7 DEF EntriesOf
  <1>12. UrlsOf(<<RootEntry>>) \cap UrlsOf(seeds) = {}
    <2>1. UrlsOf(<<RootEntry>>) = {Root}
      BY OneEntry, WebFacts DEF RootEntry
    <2>2. UrlsOf(seeds) = {e.url : e \in EntriesOf(seeds)}
      BY <1>10, FrontierSeq
    <2> QED
      BY <1>11, <2>1, <2>2 DEF Seeded
  <1>13. queue' \in Frontier /\ EntriesOf(queue') = {RootEntry} \cup EntriesOf(seeds)
    BY <1>1, <1>10, <1>12, OneEntry, Joined, WebFacts
  <1>14. ASSUME NEW i \in DOMAIN S, S[i] \notin web.offsite PROVE S[i] \in UrlsOf(queue')
    <2>1. UrlsOf(queue') = {e.url : e \in EntriesOf(queue')}
      BY <1>13, FrontierSeq
    <2>2. CASE S[i] = Root
      <3>1. RootEntry \in EntriesOf(queue') /\ RootEntry.url = Root
        BY <1>13 DEF RootEntry
      <3> QED
        BY <2>1, <2>2, <3>1
    <2>3. CASE S[i] # Root
      <3> DEFINE T == {j \in DOMAIN S : S[j] = S[i]}
      <3>1. T \subseteq Nat /\ T # {}
        BY <1>2
      <3>2. PICK j \in T : \A l \in T : j <= l
        <4> HIDE DEF T
        <4> QED
          BY <3>1, LeastOf
      <3>3. \A l \in 1..(j - 1) : l \in DOMAIN S /\ l < j
        BY <1>2
      <3>4. j \in fit
        BY <1>2, <1>14, <2>3, <3>2, <3>3
      <3>5. PICK k \in 1..m : InOrder(fit)[k] = j
        <4> HIDE DEF fit
        <4> QED
          BY <1>3, <3>4
      <3>6. seeds[k] \in EntriesOf(seeds) /\ seeds[k].url = S[i]
        BY <1>6, <1>7, <3>2, <3>5 DEF EntriesOf
      <3> QED
        BY <1>13, <2>1, <3>6
    <2> QED
      BY <2>2, <2>3
  <1> QED
    BY <1>1, <1>11, <1>13, <1>14

LEMMA DequeueEffect ==
  ASSUME queue \in Frontier, queuedEntry = UrlsOf(queue), NEW t \in Waits, Dequeue(t)
  PROVE  /\ entry' \in EntriesOf(queue) /\ entry'.tier = t /\ entry'.url \in UrlsOf(queue)
         /\ queue' \in Frontier /\ EntriesOf(queue') = EntriesOf(queue) \ {entry'}
         /\ UrlsOf(queue') = UrlsOf(queue) \ {entry'.url}
         /\ queuedEntry' = UrlsOf(queue') /\ UNCHANGED queued
  <1>1. Oldest(t) \in DOMAIN queue /\ queue[Oldest(t)].tier = t
    BY OldestOf
  <1>2. entry' = queue[Oldest(t)] /\ queue' = Without(queue, Oldest(t))
        /\ queuedEntry' = queuedEntry \ {entry'.url} /\ UNCHANGED queued
    BY DEF Dequeue
  <1>3. /\ queue' \in Frontier
        /\ EntriesOf(queue') = EntriesOf(queue) \ {entry'}
        /\ UrlsOf(queue') = UrlsOf(queue) \ {entry'.url}
    BY <1>1, <1>2, Removed
  <1>4. entry' \in EntriesOf(queue) /\ entry'.url \in UrlsOf(queue)
    BY <1>1, <1>2 DEF EntriesOf, UrlsOf
  <1> QED
    BY <1>1, <1>2, <1>3, <1>4

-----------------------------------------------------------------------------
(* Where an address can be: waiting in the frontier, in the hands of this    *)
(* turn, or decided; never at two of these.                                  *)

Turn    == pc \in {"vetting", "gating", "fetching", "settling", "backing"}
Decided == Captured \cup skipped \cup failed

CrawlTyped ==
  /\ web \in Webs
  /\ pc \in {"starting", "head", "vetting", "gating", "fetching", "settling", "backing", "closed"}
  /\ exit \in {0, 1, 3}
  /\ entry \in Entry
  /\ answer \in [kind : Kinds, final : Urls, settled : Urls]
  /\ queued \subseteq Urls
  /\ tierTaken \in [Tiers -> Nat] /\ fed \subseteq Tiers /\ refilled \in BOOLEAN
  /\ DOMAIN crawled \subseteq Urls /\ \A u \in DOMAIN crawled : crawled[u] \in Page
  /\ skipped \subseteq Urls /\ failed \subseteq Urls /\ capturedFinal \subseteq Urls
  /\ backoffsDone \in [Urls -> 0..RateLimitRetries]
  /\ variantFetches \in [Paths -> Nat]
  /\ visits \in [Urls -> Nat]

FrontierSound == queue \in Frontier /\ queuedEntry = UrlsOf(queue)

OneFate ==
  /\ UrlsOf(queue) \cap Decided = {}
  /\ Captured \cap skipped = {} /\ Captured \cap failed = {} /\ skipped \cap failed = {}
  /\ Turn => entry.url \notin UrlsOf(queue) \cup Decided /\ Budget
  /\ pc # "closed" => queued = UrlsOf(queue) \cup Decided \cup IF Turn THEN {entry.url} ELSE {}
  /\ pc = "starting" => queued = {}

CrawlInv == CrawlTyped /\ FrontierSound /\ OneFate

LEMMA InitCrawl == CrawlInit => CrawlInv
  <1> SUFFICES ASSUME CrawlInit PROVE CrawlInv
    OBVIOUS
  <1>1. web \in Webs /\ RootEntry \in Entry /\ Root \in Urls
    BY WebFacts DEF CrawlInit
  <1>n. RateLimitRetries \in Nat
    BY CrawlAssumption
  <1>a. answer \in [kind : Kinds, final : Urls, settled : Urls]
    BY <1>1 DEF CrawlInit, Kinds
  <1>b. backoffsDone \in [Urls -> 0..RateLimitRetries]
    BY <1>n DEF CrawlInit
  <1>c. DOMAIN crawled = {}
    BY DEF CrawlInit
  <1>2. CrawlTyped
    BY <1>1, <1>a, <1>b, <1>c DEF CrawlInit, CrawlTyped
  <1>3. FrontierSound
    BY NoEntries DEF CrawlInit, FrontierSound
  <1>4. OneFate
    BY NoEntries DEF CrawlInit, OneFate, Turn, Decided, Captured
  <1> QED
    BY <1>2, <1>3, <1>4 DEF CrawlInv

\* Most steps leave every address where it is, or decide the one of this turn.
Keeps ==
  /\ UNCHANGED <<queue, queuedEntry, queued, crawled, skipped, failed, entry>>
  /\ pc # "closed" /\ (pc' = "closed" \/ pc' = pc \/ (Turn /\ Turn'))
  /\ pc' = "closed" /\ exit' = 0 => pc = "head" /\ (queue = <<>> \/ ~Budget)

Drops ==
  /\ UNCHANGED <<queue, queuedEntry, queued, crawled, entry>>
  /\ Turn /\ pc' = "head"
  /\ \/ skipped' = skipped \cup {entry.url} /\ UNCHANGED failed
     \/ failed' = failed \cup {entry.url} /\ UNCHANGED skipped

LEMMA StepKinds ==
  ASSUME CrawlNext
  PROVE  Start \/ Take \/ Requeue \/ Capture \/ Keeps \/ Drops
  <1>1. CASE RootRefused \/ AbortedAtHead \/ GateRefuses \/ OpenFails \/ AbortedBackingOff
             \/ \E c \in {0, 1} : Finish(c)
    BY <1>1 DEF RootRefused, AbortedAtHead, GateRefuses, OpenFails, AbortedBackingOff, Finish, Close,
                Keeps, frontierVars, fateVars
  <1>2. CASE GuardAllows \/ AtGate \/ Open \/ BackOff \/ Land
    BY <1>2 DEF GuardAllows, AtGate, Open, BackOff, Land, Keeps, Turn, frontierVars, fateVars, turnVars
  <1>3. CASE Signal \/ Clock
    BY <1>3 DEF Signal, Clock, Keeps, frontierVars, fateVars, turnVars
  <1>4. CASE GuardRefuses \/ LandSkipped \/ SettleSkipped \/ Throws
    BY <1>4 DEF GuardRefuses, LandSkipped, SettleSkipped, Throws, Skip, EndTurn, Drops, Turn, frontierVars
  <1> QED
    BY <1>1, <1>2, <1>3, <1>4 DEF CrawlNext, CrawlStep

LEMMA TakeEffect ==
  ASSUME CrawlInv, Take
  PROVE  /\ pc = "head" /\ Budget /\ UNCHANGED <<crawled, failed, web, queued>>
         /\ entry' \in EntriesOf(queue) /\ entry' \in Entry /\ entry'.url \in UrlsOf(queue)
         /\ queue' \in Frontier /\ EntriesOf(queue') = EntriesOf(queue) \ {entry'}
         /\ UrlsOf(queue') = UrlsOf(queue) \ {entry'.url} /\ queuedEntry' = UrlsOf(queue')
         /\ \/ pc' = "head" /\ skipped' = skipped \cup {entry'.url} /\ UNCHANGED variantFetches
            \/ /\ pc' = "vetting" /\ UNCHANGED skipped
               /\ ~Refused(entry') /\ variantFetches' = Counted(entry'.url)
         /\ \E t \in ChooseTier(Waits, tierTaken) : Dequeue(t) /\ t \in Waits /\ entry'.tier = t
  <1>1. PICK t \in ChooseTier(Waits, tierTaken) : Dequeue(t)
    BY DEF Take
  <1>2. t \in Waits /\ queue \in Frontier /\ queuedEntry = UrlsOf(queue)
    BY DEF ChooseTier, CrawlInv, FrontierSound
  <1>3. /\ entry' \in EntriesOf(queue) /\ entry'.tier = t /\ entry'.url \in UrlsOf(queue)
        /\ queue' \in Frontier /\ EntriesOf(queue') = EntriesOf(queue) \ {entry'}
        /\ UrlsOf(queue') = UrlsOf(queue) \ {entry'.url}
        /\ queuedEntry' = UrlsOf(queue') /\ UNCHANGED queued
    BY <1>1, <1>2, DequeueEffect
  <1>4. entry'.url \notin Captured /\ entry' \in Entry
    BY <1>2, <1>3, FrontierSeq DEF CrawlInv, OneFate, Decided
  <1> QED
    BY <1>1, <1>2, <1>3, <1>4 DEF Take

\* A capture, whether its links are followed or not: what is new is nowhere yet.
LEMMA CaptureEffect ==
  ASSUME CrawlInv, Capture
  PROVE  \E F \in SUBSET (Urls \ queued) :
           /\ queue' \in Frontier /\ UrlsOf(queue') = UrlsOf(queue) \cup F
           /\ queued' = queued \cup F /\ queuedEntry' = UrlsOf(queue')
           /\ pc = "settling" /\ pc' = "head" /\ Captured' = Captured \cup {entry.url}
           /\ UNCHANGED <<skipped, failed, entry>>
  <1>1. /\ pc = "settling" /\ pc' = "head" /\ UNCHANGED <<skipped, failed, entry>>
        /\ Captured' = Captured \cup {entry.url}
    BY DEF Capture, EndTurn, Captured
  <1>2. queue \in Frontier /\ queuedEntry = UrlsOf(queue)
    BY DEF CrawlInv, FrontierSound
  <1>3. CASE entry.depth < CrawlDepth
    <2> DEFINE L == web.links[answer.settled]
               seen == Captured \cup {entry.url}
    <2>1. Follow(L, entry.depth, seen)
      BY <1>3 DEF Capture
    <2>2. L \in LinkSeqs /\ entry.depth \in Nat
      BY WebFacts DEF CrawlInv, CrawlTyped, Entry
    <2> HIDE DEF L, seen
    <2>3. /\ queue' \in Frontier /\ UrlsOf(queue') = UrlsOf(queue) \cup NewIn(L, seen)
          /\ queued' = queued \cup NewIn(L, seen) /\ queuedEntry' = UrlsOf(queue')
          /\ NewIn(L, seen) \in SUBSET (Urls \ queued)
      BY <1>2, <2>1, <2>2, FollowEffect
    <2> QED
      BY <1>1, <2>3
  <1>4. CASE ~(entry.depth < CrawlDepth)
    <2>1. UNCHANGED <<queue, queued, queuedEntry>>
      BY <1>4 DEF Capture
    <2>2. {} \in SUBSET (Urls \ queued) /\ UrlsOf(queue') = UrlsOf(queue) \cup {} /\ queued' = queued \cup {}
      BY <2>1
    <2> QED
      BY <1>1, <1>2, <2>1, <2>2
  <1> QED
    BY <1>3, <1>4

LEMMA NextFate ==
  ASSUME CrawlInv, [CrawlNext]_crawlVars
  PROVE  FrontierSound' /\ OneFate'
  <1>0. FrontierSound /\ OneFate /\ CrawlTyped
    BY DEF CrawlInv
  <1>1. CASE Start
    <2>1. /\ queue' \in Frontier /\ queued' = UrlsOf(queue') /\ queuedEntry' = UrlsOf(queue')
      BY <1>0, <1>1, StartEffect DEF CrawlTyped
    <2>2. pc = "starting" /\ pc' = "head" /\ UNCHANGED <<crawled, skipped, failed>>
      BY <1>1 DEF Start, fateVars
    <2>3. Decided = {} /\ Decided' = {}
      BY <1>0, <2>2 DEF OneFate, Decided, Captured
    <2> QED
      BY <1>0, <2>1, <2>2, <2>3 DEF FrontierSound, OneFate, Turn, Captured
  <1>2. CASE Take
    <2>1. /\ pc = "head" /\ Budget /\ UNCHANGED <<crawled, failed, queued>> /\ entry'.url \in UrlsOf(queue)
          /\ queue' \in Frontier /\ UrlsOf(queue') = UrlsOf(queue) \ {entry'.url}
          /\ queuedEntry' = UrlsOf(queue')
          /\ \/ pc' = "head" /\ skipped' = skipped \cup {entry'.url}
             \/ pc' = "vetting" /\ UNCHANGED skipped
      BY <1>2, TakeEffect
    <2>2. /\ UrlsOf(queue) \cap Decided = {} /\ queued = UrlsOf(queue) \cup Decided
          /\ Captured \cap skipped = {} /\ Captured \cap failed = {} /\ skipped \cap failed = {}
      BY <1>0, <2>1 DEF OneFate, Turn
    <2>3. Captured' = Captured /\ Budget'
      BY <2>1 DEF Captured, Budget
    <2>4. CASE pc' = "head" /\ skipped' = skipped \cup {entry'.url}
      BY <2>1, <2>2, <2>3, <2>4 DEF FrontierSound, OneFate, Turn, Decided
    <2>5. CASE pc' = "vetting" /\ UNCHANGED skipped
      BY <2>1, <2>2, <2>3, <2>5 DEF FrontierSound, OneFate, Turn, Decided
    <2> QED
      BY <2>1, <2>4, <2>5
  <1>3. CASE Requeue
    <2>1. /\ pc = "backing" /\ pc' = "head" /\ queue' = Append(queue, entry)
          /\ queuedEntry' = queuedEntry \cup {entry.url} /\ UNCHANGED <<queued, crawled, skipped, failed>>
      BY <1>3 DEF Requeue, EndTurn, fateVars
    <2>2. entry.url \notin UrlsOf(queue) \cup Decided /\ entry \in Entry
      BY <1>0, <2>1 DEF OneFate, Turn, CrawlTyped
    <2>3. queue' \in Frontier /\ UrlsOf(queue') = UrlsOf(queue) \cup {entry.url}
      BY <1>0, <2>1, <2>2, Appended DEF FrontierSound
    <2>4. Captured' = Captured
      BY <2>1 DEF Captured
    <2> QED
      BY <1>0, <2>1, <2>2, <2>3, <2>4 DEF FrontierSound, OneFate, Turn, Decided
  <1>4. CASE Capture
    <2>1. PICK F \in SUBSET (Urls \ queued) :
           /\ queue' \in Frontier /\ UrlsOf(queue') = UrlsOf(queue) \cup F
           /\ queued' = queued \cup F /\ queuedEntry' = UrlsOf(queue')
           /\ pc = "settling" /\ pc' = "head" /\ Captured' = Captured \cup {entry.url}
           /\ UNCHANGED <<skipped, failed, entry>>
      BY <1>4, CaptureEffect
    <2>2. /\ queued = UrlsOf(queue) \cup Decided \cup {entry.url}
          /\ entry.url \notin UrlsOf(queue) \cup Decided
          /\ UrlsOf(queue) \cap Decided = {}
          /\ Captured \cap skipped = {} /\ Captured \cap failed = {} /\ skipped \cap failed = {}
      BY <1>0, <2>1 DEF OneFate, Turn
    <2> QED
      BY <2>1, <2>2 DEF FrontierSound, OneFate, Turn, Decided
  <1>5. CASE Keeps \/ UNCHANGED crawlVars
    <2>1. UNCHANGED <<queue, queuedEntry, queued, crawled, skipped, failed, entry>>
      BY <1>5 DEF Keeps, crawlVars, turnVars, frontierVars, fateVars
    <2>2. pc' = "closed" \/ pc' = pc \/ (Turn /\ Turn' /\ pc # "closed")
      BY <1>5 DEF Keeps, crawlVars, turnVars
    <2>3. Captured' = Captured /\ (Budget' <=> Budget) /\ Decided' = Decided
      BY <2>1 DEF Captured, Budget, Decided
    <2> QED
      BY <1>0, <2>1, <2>2, <2>3 DEF FrontierSound, OneFate, Turn
  <1>6. CASE Drops
    <2>1. /\ UNCHANGED <<queue, queuedEntry, queued, crawled, entry>> /\ Turn /\ pc' = "head" /\ pc # "closed"
          /\ \/ skipped' = skipped \cup {entry.url} /\ UNCHANGED failed
             \/ failed' = failed \cup {entry.url} /\ UNCHANGED skipped
      BY <1>6 DEF Drops, Turn
    <2>2. /\ queued = UrlsOf(queue) \cup Decided \cup {entry.url}
          /\ entry.url \notin UrlsOf(queue) \cup Decided
          /\ UrlsOf(queue) \cap Decided = {}
          /\ Captured \cap skipped = {} /\ Captured \cap failed = {} /\ skipped \cap failed = {}
      BY <1>0, <2>1 DEF OneFate
    <2>3. Captured' = Captured
      BY <2>1 DEF Captured
    <2> QED
      BY <1>0, <2>1, <2>2, <2>3 DEF FrontierSound, OneFate, Turn, Decided
  <1> QED
    BY <1>1, <1>2, <1>3, <1>4, <1>5, <1>6, StepKinds

LEMMA NextTyped ==
  ASSUME CrawlInv, [CrawlNext]_crawlVars
  PROVE  CrawlTyped'
  <1>0. /\ CrawlTyped /\ FrontierSound /\ entry \in Entry /\ web \in Webs /\ entry.url \in Urls
        /\ answer \in [kind : Kinds, final : Urls, settled : Urls]
    BY DEF CrawlInv, CrawlTyped, Entry
  <1>1. CASE Start
    <2>1. queue' \in Frontier /\ queued' = UrlsOf(queue')
      BY <1>0, <1>1, StartEffect
    <2>2. queued' \subseteq Urls
      BY <2>1, FrontierSeq
    <2> QED
      BY <1>0, <1>1, <2>2 DEF Start, CrawlTyped, fateVars, countVars
  <1>2. CASE Take
    <2>1. /\ entry' \in Entry /\ UNCHANGED <<web, queued, crawled, failed>> /\ pc' \in {"head", "vetting"}
          /\ skipped' = skipped \/ skipped' = skipped \cup {entry'.url}
          /\ variantFetches' = variantFetches \/ variantFetches' = Counted(entry'.url)
      BY <1>2, TakeEffect
    <2>2. PICK t \in Waits : Dequeue(t) /\ entry'.tier = t
      BY <1>2, TakeEffect
    <2>3. t \in Tiers
      BY <2>1, <2>2 DEF Entry
    <2>4. tierTaken' \in [Tiers -> Nat] /\ fed' \subseteq Tiers /\ refilled' \in BOOLEAN
      <3>1. tierTaken \in [Tiers -> Nat] /\ fed \subseteq Tiers /\ refilled \in BOOLEAN
        BY <1>0 DEF CrawlTyped
      <3>2. /\ tierTaken' = [tierTaken EXCEPT ![t] = @ + 1]
            /\ fed' \in {fed, fed \cap Waits} /\ (refilled' = refilled \/ refilled' = (refilled \/ ~(Waits \subseteq fed)))
        BY <2>2, ZenonT(60) DEF Dequeue
      <3>3. refilled' \in BOOLEAN
        BY <3>1, <3>2
      <3>4. tierTaken' \in [Tiers -> Nat]
        BY <2>3, <3>1, <3>2
      <3> QED
        BY <3>1, <3>2, <3>3, <3>4
    <2>5. entry'.url \in Urls /\ web.path[entry'.url] \in Paths
      BY <1>0, <2>1, WebFacts DEF Entry
    <2>6. variantFetches' \in [Paths -> Nat]
      <3>1. variantFetches \in [Paths -> Nat]
        BY <1>0 DEF CrawlTyped
      <3>2. Counted(entry'.url) \in [Paths -> Nat]
        BY <2>5, <3>1 DEF Counted
      <3> QED
        BY <2>1, <3>1, <3>2
    <2>7. UNCHANGED <<exit, answer, capturedFinal, backoffsDone, visits>>
      BY <1>2 DEF Take
    <2> QED
      BY <1>0, <2>1, <2>4, <2>5, <2>6, <2>7 DEF CrawlTyped
  <1>3. CASE Capture
    <2>1. PICK F \in SUBSET (Urls \ queued) : queued' = queued \cup F
      BY <1>3, CaptureEffect
    <2>2. /\ crawled' = [u \in Captured \cup {entry.url} |->
                   IF u = entry.url
                   THEN [final |-> answer.final, settled |-> answer.settled, depth |-> entry.depth]
                   ELSE crawled[u]]
          /\ capturedFinal' = capturedFinal \cup Finals(answer)
          /\ pc' = "head" /\ UNCHANGED <<exit, web, entry, answer, tierTaken, fed, refilled, skipped, failed, countVars>>
      BY <1>3 DEF Capture, EndTurn
    <2>3. answer.final \in Urls /\ answer.settled \in Urls /\ entry.depth \in Nat
      BY <1>0 DEF Entry
    <2>4. DOMAIN crawled' \subseteq Urls /\ \A u \in DOMAIN crawled' : crawled'[u] \in Page
      BY <1>0, <2>2, <2>3 DEF CrawlTyped, Page, Captured
    <2>5. capturedFinal' \subseteq Urls
      BY <1>0, <2>2, <2>3 DEF CrawlTyped, Finals
    <2> QED
      BY <1>0, <2>1, <2>2, <2>4, <2>5 DEF CrawlTyped, countVars
  <1>4. CASE Open
    BY <1>0, <1>4 DEF Open, CrawlTyped, frontierVars, fateVars
  <1>5. CASE BackOff
    <2>1. /\ answer' \in web.answers[entry.url] /\ ~(backoffsDone[entry.url] >= RateLimitRetries)
          /\ backoffsDone' = [backoffsDone EXCEPT ![entry.url] = @ + 1] /\ pc' = "backing"
          /\ UNCHANGED <<web, exit, entry, frontierVars, fateVars, variantFetches, visits>>
      BY <1>5 DEF BackOff, TriedOut
    <2>2. answer' \in [kind : Kinds, final : Urls, settled : Urls]
      BY <1>0, <2>1, WebFacts
    <2>3. RateLimitRetries \in Nat /\ backoffsDone \in [Urls -> 0..RateLimitRetries]
      BY <1>0, CrawlAssumption DEF CrawlTyped
    <2>4. backoffsDone[entry.url] + 1 \in 0..RateLimitRetries
      BY <1>0, <2>1, <2>3
    <2>5. backoffsDone' \in [Urls -> 0..RateLimitRetries]
      BY <1>0, <2>1, <2>3, <2>4
    <2> QED
      BY <1>0, <2>1, <2>2, <2>5 DEF CrawlTyped, frontierVars, fateVars
  <1>6. CASE LandSkipped \/ Land
    <2>1. answer' \in web.answers[entry.url]
      BY <1>6 DEF LandSkipped, Land
    <2>2. answer' \in [kind : Kinds, final : Urls, settled : Urls]
      BY <1>0, <2>1, WebFacts
    <2>3. /\ pc' \in {"head", "settling"} /\ skipped' \in {skipped, skipped \cup {entry.url}}
          /\ UNCHANGED <<web, exit, entry, frontierVars, crawled, failed, capturedFinal, countVars>>
      BY <1>6 DEF LandSkipped, Land, Skip, EndTurn, fateVars
    <2> QED
      BY <1>0, <2>2, <2>3 DEF CrawlTyped, frontierVars, countVars
  <1>7. CASE Requeue
    BY <1>0, <1>7 DEF Requeue, EndTurn, CrawlTyped, fateVars, countVars
  <1>8. CASE GuardRefuses \/ SettleSkipped \/ Throws
    BY <1>0, <1>8 DEF GuardRefuses, SettleSkipped, Throws, Skip, EndTurn, CrawlTyped, frontierVars, countVars
  <1>9. CASE RootRefused \/ AbortedAtHead \/ GateRefuses \/ OpenFails \/ AbortedBackingOff
             \/ \E c \in {0, 1} : Finish(c)
    <2>1. /\ pc' = "closed" /\ exit' \in {0, 1, 3}
          /\ UNCHANGED <<web, entry, answer, frontierVars, fateVars, countVars>>
      BY <1>9 DEF RootRefused, AbortedAtHead, GateRefuses, OpenFails, AbortedBackingOff, Finish, Close
    <2> QED
      BY <1>0, <2>1 DEF CrawlTyped, frontierVars, fateVars, countVars
  <1>10. CASE GuardAllows \/ AtGate \/ Signal \/ Clock \/ UNCHANGED crawlVars
    <2>1. pc' \in {pc, "gating"} /\ UNCHANGED <<web, exit, entry, answer, frontierVars, fateVars, countVars>>
      BY <1>10 DEF GuardAllows, AtGate, Signal, Clock, turnVars, crawlVars
    <2> QED
      BY <1>0, <2>1 DEF CrawlTyped, frontierVars, fateVars, countVars
  <1> QED
    BY <1>1, <1>2, <1>3, <1>4, <1>5, <1>6, <1>7, <1>8, <1>9, <1>10 DEF CrawlNext, CrawlStep

LEMMA CrawlInvariant == CrawlSpec => []CrawlInv
  <1>1. CrawlInv /\ [CrawlNext]_crawlVars => CrawlInv'
    BY NextFate, NextTyped DEF CrawlInv
  <1> QED
    BY InitCrawl, <1>1, PTL DEF CrawlSpec

-----------------------------------------------------------------------------
(* The crawl and its gate.                                                   *)

LEMMA CallerIsOne == Caller \in Callers
  <1>1. Callers # {}
    BY FS_EmptySet, CrawlAssumption, GateAssumption
  <1> QED
    BY <1>1 DEF Caller

\* runCrawl() calls acquire() and release() only as the gate expects, refused, aborted,
\* thrown or not: every crawl is a run of the gate, with all that is proved of it.
THEOREM CrawlImplementsGate == CrawlSpec => GateSpec
  <1>1. CrawlInit => GateInit
    BY DEF CrawlInit
  <1>2. [CrawlNext]_crawlVars => [GateNext]_gateVars
    <2> SUFFICES ASSUME [CrawlNext]_crawlVars PROVE [GateNext]_gateVars
      OBVIOUS
    <2>1. CASE GuardAllows \/ AtGate
      BY <2>1, CallerIsOne DEF GuardAllows, AtGate, GateNext
    <2>2. CASE GateRefuses \/ AbortedBackingOff
      BY <2>2, CallerIsOne DEF GateRefuses, AbortedBackingOff, GateNext
    <2>3. CASE LandSkipped \/ SettleSkipped \/ Throws \/ Requeue \/ Capture
      <3>1. Release(Caller)
        BY <2>3 DEF LandSkipped, SettleSkipped, Throws, Requeue, Capture, Skip, EndTurn
      <3> QED
        BY <3>1, CallerIsOne DEF GateNext
    <2>4. CASE Signal \/ Clock
      BY <2>4 DEF Signal, Clock, GateNext
    <2>5. CASE Start \/ RootRefused \/ Take \/ AbortedAtHead \/ GuardRefuses \/ Open \/ OpenFails
               \/ BackOff \/ Land \/ (\E c \in {0, 1} : Finish(c)) \/ UNCHANGED crawlVars
      BY <2>5 DEF Start, RootRefused, Take, AbortedAtHead, GuardRefuses, Open, OpenFails, BackOff, Land,
                  Finish, crawlVars
    <2> QED
      BY <2>1, <2>2, <2>3, <2>4, <2>5 DEF CrawlNext, CrawlStep
  <1> QED
    BY <1>1, <1>2, PTL DEF CrawlSpec, GateSpec

\* Every variable of the crawl keeps its type, the gate's among them.
THEOREM CrawlTypeCorrect == CrawlSpec => []CrawlTypeOK
  <1>1. CrawlInv /\ GateTypeOK => CrawlTypeOK
    BY FrontierSeq DEF CrawlInv, CrawlTyped, FrontierSound, CrawlTypeOK
  <1> QED
    BY <1>1, CrawlInvariant, CrawlImplementsGate, GateTypeCorrect, PTL

-----------------------------------------------------------------------------
(* The crawl keeps what CrawlFates promises of every address.                *)

LEMMA FateIs ==
  ASSUME CrawlInv, NEW u \in Urls
  PROVE  /\ u \in Captured => Fate(u) = "captured"
         /\ u \in skipped => Fate(u) = "skipped"
         /\ u \in failed => Fate(u) = "failed"
         /\ u \notin Decided => Fate(u) = IF u \in UrlsOf(queue) \cup queued THEN "waiting" ELSE "unseen"
  BY DEF CrawlInv, OneFate, Decided, Fate

LEMMA SameCardinality == \A S : Promise!Cardinality(S) = Cardinality(S)
  BY DEF Promise!Cardinality, Cardinality

LEMMA FatesTold ==
  ASSUME CrawlInv
  PROVE  /\ Promise!WithFate("captured") = Captured
         /\ \A f : Promise!WithFate(f) = {u \in Urls : Fate(u) = f}
  <1>1. \A f : Promise!WithFate(f) = {u \in Urls : Fate(u) = f}
    BY DEF Promise!WithFate
  <1>2. \A u \in Urls : Fate(u) = "captured" <=> u \in Captured
    BY FateIs DEF Decided
  <1>3. Captured \subseteq Urls
    BY DEF CrawlInv, CrawlTyped, Captured
  <1> QED
    BY <1>1, <1>2, <1>3

LEMMA PromiseStep ==
  ASSUME CrawlInv, CrawlInv', [CrawlNext]_crawlVars
  PROVE  [Promise!FatesNext]_(Promise!fateVars)
  <1> DEFINE fate == [u \in Urls |-> Fate(u)]
             fateN == [u \in Urls |-> Fate(u)']
             outcome == IF pc # "closed" THEN "running" ELSE IF exit = 0 THEN "complete" ELSE "stopped"
  <1>f. /\ \A u \in Urls : /\ u \in Captured => Fate(u) = "captured"
                           /\ u \in skipped => Fate(u) = "skipped"
                           /\ u \in failed => Fate(u) = "failed"
                           /\ u \notin Decided => Fate(u) = IF u \in UrlsOf(queue) \cup queued THEN "waiting" ELSE "unseen"
        /\ \A u \in Urls : /\ u \in Captured' => Fate(u)' = "captured"
                           /\ u \in skipped' => Fate(u)' = "skipped"
                           /\ u \in failed' => Fate(u)' = "failed"
                           /\ u \notin Decided' => Fate(u)' = IF u \in UrlsOf(queue') \cup queued' THEN "waiting" ELSE "unseen"
    <2>1. \A u \in Urls : /\ u \in Captured => Fate(u) = "captured"
                          /\ u \in skipped => Fate(u) = "skipped"
                          /\ u \in failed => Fate(u) = "failed"
                          /\ u \notin Decided => Fate(u) = IF u \in UrlsOf(queue) \cup queued THEN "waiting" ELSE "unseen"
      BY FateIs
    <2>2. ASSUME NEW u \in Urls
          PROVE  /\ u \in Captured' => Fate(u)' = "captured"
                 /\ u \in skipped' => Fate(u)' = "skipped"
                 /\ u \in failed' => Fate(u)' = "failed"
                 /\ u \notin Decided' => Fate(u)' = IF u \in UrlsOf(queue') \cup queued' THEN "waiting" ELSE "unseen"
      BY DEF CrawlInv, OneFate, Decided, Fate
    <2> QED
      BY <2>1, <2>2
  <1>s. ASSUME \A u \in Urls : Fate(u)' = Fate(u), outcome' = outcome
        PROVE  UNCHANGED Promise!fateVars
    BY <1>s DEF Promise!fateVars
  <1>0. OneFate /\ OneFate'
    BY DEF CrawlInv
  <1>1. CASE Start
    <2>1. /\ queue' \in Frontier /\ queued' = UrlsOf(queue')
          /\ pc = "starting" /\ pc' = "head" /\ UNCHANGED <<crawled, skipped, failed, exit>>
      BY <1>1, StartEffect DEF Start, fateVars, CrawlInv, CrawlTyped
    <2>2. queued = {} /\ UrlsOf(queue) = {} /\ Decided = {} /\ Decided' = {}
      BY <1>0, <2>1 DEF OneFate, Decided, Captured
    <2>3. \A u \in Urls : Fate(u) = "unseen" /\ Fate(u)' \in {"unseen", "waiting"}
      BY <1>f, <2>2
    <2>4. Promise!Seed
      BY <2>1, <2>3, FatesTold DEF Promise!Seed
    <2> QED
      BY <2>4 DEF Promise!FatesNext
  <1>2. CASE Take
    <2>0. entry'.url \in Urls
      BY <1>2, TakeEffect DEF Entry
    <2>p. PICK u \in Urls : u = entry'.url
      BY <2>0
    <2>1. /\ pc = "head" /\ UNCHANGED <<crawled, failed, queued>> /\ u \in UrlsOf(queue)
          /\ UrlsOf(queue') = UrlsOf(queue) \ {u}
          /\ \/ pc' = "head" /\ skipped' = skipped \cup {u}
             \/ pc' = "vetting" /\ UNCHANGED skipped
          /\ UrlsOf(queue) \subseteq Urls
      BY <1>2, <2>p, TakeEffect, FrontierSeq DEF CrawlInv, FrontierSound
    <2>2. /\ UrlsOf(queue) \subseteq queued /\ u \in Urls /\ u \notin Decided
          /\ outcome = "running" /\ outcome' = outcome /\ Captured' = Captured
      BY <1>0, <2>1 DEF OneFate, Captured
    <2> HIDE DEF outcome
    <2>3. CASE pc' = "head" /\ skipped' = skipped \cup {u}
      <3>1. Fate(u) = "waiting" /\ Fate(u)' = "skipped"
        BY <1>f, <2>1, <2>2, <2>3
      <3>2. \A v \in Urls \ {u} : Fate(v)' = Fate(v)
        BY <1>f, <2>1, <2>2, <2>3 DEF Decided
      <3>3. fateN = [fate EXCEPT ![u] = "skipped"]
        BY <2>2, <3>1, <3>2
      <3>4. Promise!Settle(u, "skipped")
        BY <2>2, <3>1, <3>3 DEF Promise!Settle, outcome
      <3> QED
        BY <2>2, <3>4 DEF Promise!FatesNext
    <2>4. CASE pc' = "vetting" /\ UNCHANGED skipped
      <3>1. \A v \in Urls : Fate(v)' = Fate(v)
        BY <1>f, <2>1, <2>2, <2>4 DEF Decided
      <3> QED
        BY <1>s, <2>2, <3>1
    <2> QED
      BY <2>1, <2>3, <2>4
  <1>3. CASE Requeue
    <2>1. /\ pc = "backing" /\ pc' = "head" /\ UrlsOf(queue) \subseteq UrlsOf(queue') 
          /\ UNCHANGED <<queued, crawled, skipped, failed>>
          /\ UrlsOf(queue') = UrlsOf(queue) \cup {entry.url}
      <3>1. /\ pc = "backing" /\ pc' = "head" /\ queue' = Append(queue, entry)
            /\ UNCHANGED <<queued, crawled, skipped, failed>>
        BY <1>3 DEF Requeue, EndTurn, fateVars
      <3>2. entry.url \notin UrlsOf(queue) /\ entry \in Entry /\ queue \in Frontier
        BY <1>0, <3>1 DEF OneFate, Turn, CrawlInv, CrawlTyped, FrontierSound
      <3> QED
        BY <3>1, <3>2, Appended
    <2>2. entry.url \in queued /\ Captured' = Captured /\ Decided' = Decided
      BY <1>0, <2>1 DEF OneFate, Turn, Captured, Decided
    <2>3. \A v \in Urls : Fate(v)' = Fate(v)
      BY <1>f, <2>1, <2>2 DEF Decided
    <2> QED
      BY <1>s, <2>1, <2>3
  <1>4. CASE Capture
    <2>0. entry.url \in Urls
      BY DEF CrawlInv, CrawlTyped, Entry
    <2>p. PICK u \in Urls : u = entry.url
      BY <2>0
    <2>1. PICK F \in SUBSET (Urls \ queued) :
           /\ UrlsOf(queue') = UrlsOf(queue) \cup F /\ queued' = queued \cup F
           /\ pc = "settling" /\ pc' = "head" /\ Captured' = Captured \cup {u}
           /\ UNCHANGED <<skipped, failed, entry>>
      BY <1>4, <2>p, CaptureEffect
    <2>2. /\ u \notin Decided /\ u \in queued /\ u \in Urls /\ Budget
          /\ Decided \subseteq queued /\ UrlsOf(queue) \subseteq queued
      BY <1>0, <2>1, <2>p DEF OneFate, Turn
    <2>3. Fate(u) = "waiting" /\ Fate(u)' = "captured"
      BY <1>f, <2>1, <2>2
    <2>4. ASSUME NEW v \in Urls \ {u}
          PROVE  Fate(v)' = Fate(v) \/ (Fate(v) = "unseen" /\ Fate(v)' = "waiting")
      BY <1>f, <2>1, <2>2 DEF Decided
    <2>5. \A v \in Urls : Fate(v)' \in Promise!Fates
      BY <1>f DEF Promise!Fates, Decided
    <2>6. fateN \in [Urls -> Promise!Fates] /\ fateN[u] = "captured"
      BY <2>2, <2>3, <2>5
    <2>7. Promise!Cardinality(Promise!WithFate("captured")) < MaxPages
      BY <2>2, FatesTold, SameCardinality DEF Budget
    <2>8. Promise!CaptureOne(u)
      BY <2>1, <2>2, <2>3, <2>4, <2>6, <2>7 DEF Promise!CaptureOne
    <2> QED
      BY <2>2, <2>8 DEF Promise!FatesNext
  <1>5. CASE Keeps \/ UNCHANGED crawlVars
    <2>1. UNCHANGED <<queue, queued, crawled, skipped, failed, entry>>
      BY <1>5 DEF Keeps, crawlVars, turnVars, frontierVars, fateVars
    <2>2. \A v \in Urls : Fate(v)' = Fate(v)
      BY <2>1 DEF Fate, Captured
    <2>3. CASE outcome' = outcome
      BY <1>s, <2>2, <2>3
    <2>4. CASE pc # "closed" /\ pc' = "closed"
      <3>1. fateN = fate
        BY <2>2
      <3>2. CASE exit' # 0
        <4>1. Promise!Stop
          BY <2>4, <3>1, <3>2 DEF Promise!Stop
        <4> QED
          BY <4>1 DEF Promise!FatesNext
      <3>3. CASE exit' = 0
        <4>1. pc = "head" /\ (queue = <<>> \/ ~Budget)
          BY <1>5, <2>4, <3>3 DEF Keeps, crawlVars, turnVars
        <4>2. CASE queue = <<>>
          <5>1. queued = Decided /\ UrlsOf(queue) = {}
            BY <1>0, <4>1, <4>2, NoEntries DEF OneFate, Turn
          <5>2. \A v \in Urls : Fate(v) # "waiting"
            BY <1>f, <5>1 DEF Decided
          <5>3. Promise!WithFate("waiting") = {}
            BY <5>2, FatesTold
          <5>4. Promise!Complete
            BY <2>4, <3>1, <3>3, <5>3 DEF Promise!Complete
          <5> QED
            BY <5>4 DEF Promise!FatesNext
        <4>3. CASE ~Budget
          <5>1. IsFiniteSet(Captured) /\ Cardinality(Captured) \in Nat /\ MaxPages \in Nat
            BY CrawlAssumption, FS_Subset, FS_CardinalityType DEF CrawlInv, CrawlTyped, Captured
          <5>2. Promise!Cardinality(Promise!WithFate("captured")) >= MaxPages
            BY <4>3, <5>1, FatesTold, SameCardinality DEF Budget
          <5>3. Promise!Complete
            BY <2>4, <3>1, <3>3, <5>2 DEF Promise!Complete
          <5> QED
            BY <5>3 DEF Promise!FatesNext
        <4> QED
          BY <4>1, <4>2, <4>3
      <3> QED
        BY <3>2, <3>3
    <2>5. outcome' = outcome \/ (pc # "closed" /\ pc' = "closed")
      BY <1>5 DEF Keeps, Turn, crawlVars, turnVars
    <2> QED
      BY <2>3, <2>4, <2>5
  <1>6. CASE Drops
    <2>0. entry.url \in Urls
      BY DEF CrawlInv, CrawlTyped, Entry
    <2>p. PICK u \in Urls : u = entry.url
      BY <2>0
    <2>1. /\ UNCHANGED <<queue, queued, crawled, entry>> /\ Turn /\ pc' = "head" /\ pc # "closed"
          /\ \/ skipped' = skipped \cup {u} /\ UNCHANGED failed
             \/ failed' = failed \cup {u} /\ UNCHANGED skipped
      BY <1>6, <2>p DEF Drops, Turn
    <2>2. /\ u \in queued /\ u \notin Decided /\ u \in Urls /\ outcome = "running" /\ outcome' = outcome
          /\ Captured' = Captured
      BY <1>0, <2>1, <2>p DEF OneFate, Captured
    <2> HIDE DEF outcome
    <2>3. ASSUME NEW f \in {"skipped", "failed"}, Fate(u)' = f, \A v \in Urls \ {u} : Fate(v)' = Fate(v)
          PROVE  Promise!FatesNext
      <3>1. Fate(u) = "waiting"
        BY <1>f, <2>2
      <3>2. fateN = [fate EXCEPT ![u] = f]
        BY <2>2, <2>3
      <3>3. Promise!Settle(u, f)
        BY <2>2, <3>1, <3>2 DEF Promise!Settle, outcome
      <3> QED
        BY <2>2, <2>3, <3>3 DEF Promise!FatesNext
    <2>4. CASE skipped' = skipped \cup {u} /\ UNCHANGED failed
      <3>1. Fate(u)' = "skipped" /\ \A v \in Urls \ {u} : Fate(v)' = Fate(v)
        BY <1>f, <2>1, <2>2, <2>4 DEF Decided
      <3> QED
        BY <2>3, <3>1
    <2>5. CASE failed' = failed \cup {u} /\ UNCHANGED skipped
      <3>1. Fate(u)' = "failed" /\ \A v \in Urls \ {u} : Fate(v)' = Fate(v)
        BY <1>f, <2>1, <2>2, <2>5 DEF Decided
      <3> QED
        BY <2>3, <3>1
    <2> QED
      BY <2>1, <2>4, <2>5
  <1> QED
    BY <1>1, <1>2, <1>3, <1>4, <1>5, <1>6, StepKinds

\* runCrawl keeps what a crawl promises, whatever the site: an address met waits and gets
\* one fate for good, through promotions, redirects, 429s and aborts; no more pages than
\* the budget; and a crawl that completes with budget left has decided all it met.
THEOREM CrawlKeepsPromise == CrawlSpec => KeepsPromise
  <1>1. CrawlInit => Promise!FatesInit
    <2> SUFFICES ASSUME CrawlInit PROVE Promise!FatesInit
      OBVIOUS
    <2>1. UrlsOf(queue) = {} /\ Captured = {} /\ skipped = {} /\ failed = {} /\ queued = {} /\ pc = "starting"
      BY NoEntries DEF CrawlInit, Captured
    <2>2. \A u \in Urls : Fate(u) = "unseen"
      BY <2>1 DEF Fate
    <2> QED
      BY <2>1, <2>2 DEF Promise!FatesInit
  <1>2. CrawlInv /\ CrawlInv' /\ [CrawlNext]_crawlVars => [Promise!FatesNext]_(Promise!fateVars)
    BY PromiseStep
  <1> QED
    BY <1>1, <1>2, CrawlInvariant, PTL DEF CrawlSpec, KeepsPromise, Promise!FatesSpec
-----------------------------------------------------------------------------
(* One page, captured by at most one redirect.                               *)

RedirectInv ==
  /\ \A u \in Captured : crawled[u].settled \in capturedFinal
  /\ RedirectCapturedOnce

LEMMA NextRedirect == CrawlInv /\ RedirectInv /\ [CrawlNext]_crawlVars => RedirectInv'
  <1> SUFFICES ASSUME CrawlInv, RedirectInv, [CrawlNext]_crawlVars PROVE RedirectInv'
    OBVIOUS
  <1>1. CASE Capture
    <2>1. PICK u \in Urls : u = entry.url
      BY DEF CrawlInv, CrawlTyped, Entry
    <2>2. u \notin Captured
      BY <1>1, <2>1 DEF CrawlInv, OneFate, Turn, Decided, Capture
    <2>3. PICK page : page = answer.settled
      OBVIOUS
    <2>4. /\ Captured' = Captured \cup {u}
          /\ crawled'[u].settled = page
          /\ \A v \in Captured : crawled'[v] = crawled[v]
          /\ page = u \/ page \notin capturedFinal
          /\ capturedFinal \cup {page} \subseteq capturedFinal'
      BY <1>1, <2>1, <2>2, <2>3 DEF Capture, Captured, Duplicate, Finals
    <2>5. \A v \in Captured' : crawled'[v].settled \in capturedFinal'
      BY <2>4 DEF RedirectInv
    <2>6. ASSUME NEW v \in Captured', NEW w \in Captured',
                 crawled'[v].settled = crawled'[w].settled,
                 v # crawled'[v].settled, w # crawled'[v].settled
          PROVE  v = w
      <3>1. CASE v \in Captured /\ w \in Captured
        BY <2>4, <2>6, <3>1 DEF RedirectInv, RedirectCapturedOnce
      <3>2. CASE v = u /\ w \in Captured
        BY <2>4, <2>6, <3>2 DEF RedirectInv
      <3>3. CASE v \in Captured /\ w = u
        BY <2>4, <2>6, <3>3 DEF RedirectInv
      <3> QED
        BY <2>4, <2>6, <3>1, <3>2, <3>3
    <2> QED
      BY <2>5, <2>6 DEF RedirectInv, RedirectCapturedOnce
  <1>2. CASE ~Capture
    <2>1. UNCHANGED <<crawled, capturedFinal>>
      BY <1>2 DEF CrawlNext, CrawlStep, Start, RootRefused, Take, AbortedAtHead, GuardRefuses, GuardAllows,
        AtGate, GateRefuses, Open, OpenFails, LandSkipped, BackOff, Land, Requeue, AbortedBackingOff,
        SettleSkipped, Skip, Throws, Finish, Signal, Clock, crawlVars, fateVars
    <2> QED
      BY <2>1 DEF RedirectInv, RedirectCapturedOnce, Captured
  <1> QED
    BY <1>1, <1>2

\* Of the captures that ended on one page at most one came by a redirect, whichever way
\* and in whatever order the redirects were met (capturedFinal and the check after settle).
THEOREM RedirectOnce == CrawlSpec => []RedirectCapturedOnce
  <1>1. CrawlInit => RedirectInv
    BY DEF CrawlInit, RedirectInv, RedirectCapturedOnce, Captured
  <1>2. RedirectInv => RedirectCapturedOnce
    BY DEF RedirectInv
  <1> QED
    BY <1>1, <1>2, NextRedirect, CrawlInvariant, PTL DEF CrawlSpec

-----------------------------------------------------------------------------
(* The visits of one address and of one path's query variants.                *)

Spent(p) == {r \in {u \in Urls : web.path[u] = p} \X (1..(RateLimitRetries + 1)) : r[2] <= visits[r[1]]}
Due(p)   == IF pc \in {"vetting", "gating"} /\ web.path[entry.url] = p THEN 1 ELSE 0

\* One visit per backoff, and the last.
FetchInv ==
  \A u \in Urls :
    visits[u] <= backoffsDone[u] +
                  IF u \in Decided \/ (pc \in {"fetching", "settling"} /\ u = entry.url) THEN 1 ELSE 0

\* What is counted against a path covers its visits, and the one this turn is on its way to.
VariantInv ==
  MaxVariants > 0 => \A p \in Paths \ {NoPath} :
    variantFetches[p] <= MaxVariants /\ Cardinality(Spent(p)) + Due(p) <= variantFetches[p]

LEMMA SpentFinite ==
  ASSUME NEW p PROVE IsFiniteSet(Spent(p)) /\ Cardinality(Spent(p)) \in Nat
  <1> DEFINE V == {u \in Urls : web.path[u] = p}
  <1>0. IsFiniteSet(Urls) /\ V \in SUBSET Urls /\ 1 \in Int /\ RateLimitRetries + 1 \in Int
    BY CrawlAssumption
  <1> HIDE DEF V
  <1>1. IsFiniteSet(V) /\ IsFiniteSet(1..(RateLimitRetries + 1))
    BY <1>0, FS_Subset, FS_Interval
  <1>2. IsFiniteSet(V \X (1..(RateLimitRetries + 1)))
    BY <1>1, FS_Product
  <1>3. Spent(p) \subseteq V \X (1..(RateLimitRetries + 1))
    BY DEF Spent, V
  <1> QED
    BY <1>2, <1>3, FS_Subset, FS_CardinalityType

\* What the other steps leave of the counts, and where they lead.
LEMMA Uncounted ==
  ASSUME [CrawlNext]_crawlVars, ~Take, ~Open
  PROVE  /\ UNCHANGED <<web, entry, variantFetches, visits>>
         /\ pc' \in {"vetting", "gating"} => pc \in {"vetting", "gating"}
  BY DEF CrawlNext, CrawlStep, Start, RootRefused, AbortedAtHead, GuardRefuses, GuardAllows,
    AtGate, GateRefuses, OpenFails, LandSkipped, BackOff, Land, Requeue, AbortedBackingOff,
    SettleSkipped, Skip, EndTurn, Close, Throws, Capture, Finish, Signal, Clock, crawlVars, countVars, turnVars

LEMMA NextFetch == CrawlInv /\ FetchInv /\ [CrawlNext]_crawlVars => FetchInv'
  <1> SUFFICES ASSUME CrawlInv, FetchInv, [CrawlNext]_crawlVars, NEW u \in Urls
               PROVE  visits'[u] <= backoffsDone'[u] +
                        IF u \in Decided' \/ (pc' \in {"fetching", "settling"} /\ u = entry'.url) THEN 1 ELSE 0
    BY DEF FetchInv
  <1>1. /\ visits \in [Urls -> Nat] /\ backoffsDone \in [Urls -> Nat]
        /\ visits[u] <= backoffsDone[u] +
             IF u \in Decided \/ (pc \in {"fetching", "settling"} /\ u = entry.url) THEN 1 ELSE 0
    BY CrawlAssumption DEF CrawlInv, CrawlTyped, FetchInv
  <1>2. CASE Open
    <2>1. /\ pc = "gating" /\ pc' = "fetching" /\ visits' = [visits EXCEPT ![entry.url] = @ + 1]
          /\ UNCHANGED <<entry, backoffsDone>> /\ Decided' = Decided
      BY <1>2 DEF Open, Decided, Captured, fateVars
    <2>2. entry.url \notin Decided
      BY <2>1 DEF CrawlInv, OneFate, Turn
    <2> QED
      BY <1>1, <2>1, <2>2
  <1>3. CASE BackOff
    <2>1. /\ pc = "fetching" /\ pc' = "backing" /\ backoffsDone' = [backoffsDone EXCEPT ![entry.url] = @ + 1]
          /\ UNCHANGED <<entry, visits>> /\ Decided' = Decided
      BY <1>3 DEF BackOff, Decided, Captured, fateVars
    <2> QED
      BY <1>1, <2>1
  <1>4. CASE ~Open /\ ~BackOff
    <2>1. UNCHANGED <<visits, backoffsDone>>
      BY <1>4 DEF CrawlNext, CrawlStep, Start, RootRefused, Take, AbortedAtHead, GuardRefuses, GuardAllows,
        AtGate, GateRefuses, OpenFails, LandSkipped, Land, Requeue, AbortedBackingOff,
        SettleSkipped, Skip, Throws, Capture, Finish, Signal, Clock, crawlVars, countVars
    <2>2. Decided \subseteq Decided'
      BY DEF CrawlNext, CrawlStep, Start, RootRefused, Take, AbortedAtHead, GuardRefuses, GuardAllows,
        AtGate, GateRefuses, Open, OpenFails, LandSkipped, BackOff, Land, Requeue, AbortedBackingOff,
        SettleSkipped, Skip, Throws, Capture, Finish, Signal, Clock, crawlVars, fateVars, Decided, Captured
    <2>3. ASSUME pc \in {"fetching", "settling"}
          PROVE  entry.url \in Decided' \/ (pc' \in {"fetching", "settling"} /\ UNCHANGED entry)
      BY <1>4, <2>3 DEF CrawlNext, CrawlStep, Start, RootRefused, Take, AbortedAtHead, GuardRefuses, GuardAllows,
        AtGate, GateRefuses, Open, OpenFails, LandSkipped, Land, Requeue, AbortedBackingOff,
        SettleSkipped, Skip, Throws, Capture, Finish, Signal, Clock, crawlVars, turnVars, Decided, Captured
    <2> QED
      BY <1>1, <2>1, <2>2, <2>3
  <1> QED
    BY <1>2, <1>3, <1>4

LEMMA NextVariant == CrawlInv /\ VariantInv /\ [CrawlNext]_crawlVars => VariantInv'
  <1> SUFFICES ASSUME CrawlInv, VariantInv, [CrawlNext]_crawlVars, MaxVariants > 0,
                      NEW p \in Paths, p # NoPath
               PROVE  variantFetches'[p] <= MaxVariants /\ Cardinality(Spent(p)') + Due(p)' <= variantFetches'[p]
    BY DEF VariantInv
  <1>1. /\ visits \in [Urls -> Nat] /\ variantFetches \in [Paths -> Nat] /\ MaxVariants \in Nat
        /\ IsFiniteSet(Spent(p)) /\ Cardinality(Spent(p)) \in Nat /\ Due(p) \in {0, 1}
        /\ variantFetches[p] <= MaxVariants /\ Cardinality(Spent(p)) + Due(p) <= variantFetches[p]
    BY CrawlAssumption, SpentFinite DEF CrawlInv, CrawlTyped, VariantInv, Due
  <1>2. CASE Take
    <2>1. /\ UNCHANGED <<web, visits>> /\ pc = "head" /\ entry'.url \in Urls
          /\ \/ pc' = "head" /\ UNCHANGED variantFetches
             \/ /\ pc' = "vetting"
                /\ ~Refused(entry') /\ variantFetches' = Counted(entry'.url)
      BY <1>2, TakeEffect DEF Take, Entry
    <2>2. Spent(p)' = Spent(p) /\ Due(p) = 0
      BY <2>1 DEF Spent, Due
    <2>3. CASE pc' = "head" /\ UNCHANGED variantFetches
      BY <1>1, <2>1, <2>2, <2>3 DEF Due
    <2>4. CASE pc' = "vetting" /\ ~Refused(entry') /\ variantFetches' = Counted(entry'.url)
      <3>1. PICK u \in Urls : u = entry'.url
        BY <2>1
      <3>2. ~OverCap(u) /\ variantFetches' = Counted(u)
        BY <2>4, <3>1 DEF Refused
      <3>3. CASE web.path[u] = p
        <4>1. variantFetches'[p] = variantFetches[p] + 1 /\ ~(variantFetches[p] >= MaxVariants)
          BY <1>1, <3>2, <3>3 DEF Counted, OverCap
        <4> QED
          BY <1>1, <2>2, <4>1 DEF Due
      <3>4. CASE web.path[u] # p
        <4>1. variantFetches'[p] = variantFetches[p]
          BY <1>1, <3>2, <3>4 DEF Counted
        <4>2. Due(p)' = 0
          BY <2>1, <3>1, <3>4 DEF Due
        <4> QED
          BY <1>1, <2>2, <4>1, <4>2
      <3> QED
        BY <3>3, <3>4
    <2> QED
      BY <2>1, <2>3, <2>4
  <1>3. CASE Open
    <2>0. PICK u \in Urls : u = entry.url
      BY DEF CrawlInv, CrawlTyped, Entry
    <2>1. /\ UNCHANGED <<web, entry, variantFetches>> /\ pc = "gating" /\ pc' = "fetching"
          /\ visits' = [visits EXCEPT ![u] = @ + 1]
      BY <1>3, <2>0 DEF Open
    <2>2. Due(p)' = 0
      BY <2>1 DEF Due
    <2>3. CASE web.path[u] = p
      <3>1. Due(p) = 1
        BY <2>0, <2>1, <2>3 DEF Due
      <3>2. Spent(p)' \subseteq Spent(p) \cup {<<u, visits[u] + 1>>}
        <4> SUFFICES ASSUME NEW v \in Urls, web.path[v] = p, NEW k \in 1..(RateLimitRetries + 1), k <= visits'[v]
                     PROVE  k <= visits[v] \/ (v = u /\ k = visits[u] + 1)
          BY <2>1 DEF Spent
        <4>1. RateLimitRetries \in Nat /\ k \in Nat
          BY CrawlAssumption
        <4>2. visits'[v] = IF v = u THEN visits[u] + 1 ELSE visits[v]
          BY <1>1, <2>1
        <4> QED
          BY <1>1, <4>1, <4>2
      <3>3. PICK x : x = <<u, visits[u] + 1>>
        OBVIOUS
      <3>4. PICK S, T : S = Spent(p) /\ T = Spent(p)'
        OBVIOUS
      <3>5. IsFiniteSet(S) /\ Cardinality(S) \in Nat /\ T \in SUBSET (S \cup {x})
        BY <1>1, <3>2, <3>3, <3>4
      <3>6. IsFiniteSet(S \cup {x}) /\ Cardinality(S \cup {x}) = IF x \in S THEN Cardinality(S) ELSE Cardinality(S) + 1
        BY <3>5, FS_AddElement
      <3>7. IsFiniteSet(T) /\ Cardinality(T) <= Cardinality(S \cup {x}) /\ Cardinality(T) \in Nat
        BY <3>5, <3>6, FS_Subset, FS_CardinalityType
      <3>8. Cardinality(Spent(p)') \in Nat /\ Cardinality(Spent(p)') <= Cardinality(Spent(p)) + 1
        BY <3>4, <3>5, <3>6, <3>7
      <3> QED
        BY <1>1, <2>1, <2>2, <3>1, <3>8
    <2>4. CASE web.path[u] # p
      <3>1. Spent(p)' = Spent(p)
        BY <1>1, <2>1, <2>4 DEF Spent
      <3> QED
        BY <1>1, <2>1, <2>2, <3>1
    <2> QED
      BY <2>3, <2>4
  <1>4. CASE ~Take /\ ~Open
    <2>1. /\ UNCHANGED <<web, entry, variantFetches, visits>>
          /\ pc' \in {"vetting", "gating"} => pc \in {"vetting", "gating"}
      BY <1>4, Uncounted
    <2>2. Spent(p)' = Spent(p) /\ Due(p)' \in {0, Due(p)}
      BY <2>1 DEF Spent, Due
    <2> QED
      BY <1>1, <2>1, <2>2
  <1> QED
    BY <1>2, <1>3, <1>4

\* An address is visited at most once more than it may be backed off from: what the next
\* theorem counts is every visit there is (backoffsDone and its check on a 429).
THEOREM VisitsBounded == CrawlSpec => [](\A u \in Urls : visits[u] <= RateLimitRetries + 1)
  <1>1. CrawlInit => FetchInv
    BY DEF CrawlInit, FetchInv
  <1>2. CrawlInv /\ FetchInv => \A u \in Urls : visits[u] <= RateLimitRetries + 1
    <2> SUFFICES ASSUME CrawlInv, FetchInv, NEW u \in Urls PROVE visits[u] <= RateLimitRetries + 1
      OBVIOUS
    <2>1. /\ backoffsDone[u] \in 0..RateLimitRetries /\ RateLimitRetries \in Nat /\ visits[u] \in Nat
          /\ visits[u] <= backoffsDone[u] + 1
      BY CrawlAssumption DEF CrawlInv, CrawlTyped, FetchInv
    <2> QED
      BY <2>1
  <1> QED
    BY <1>1, <1>2, NextFetch, CrawlInvariant, PTL DEF CrawlSpec

\* The query variants of one path cost at most maxQueryVariantsPerPath visits
\* between them, those repeated after a 429 included (variantCapExceeded).
THEOREM VariantsWithinBudget == CrawlSpec => []VariantBudget
  <1>1. CrawlInit => VariantInv
    <2> SUFFICES ASSUME CrawlInit, MaxVariants > 0, NEW p \in Paths
                 PROVE  variantFetches[p] <= MaxVariants /\ Cardinality(Spent(p)) + Due(p) <= variantFetches[p]
      BY DEF VariantInv
    <2>1. Spent(p) = {}
      <3>1. \A u \in Urls, k \in 1..(RateLimitRetries + 1) : ~(k <= visits[u])
        BY CrawlAssumption DEF CrawlInit
      <3> QED
        BY <3>1 DEF Spent
    <2>2. Due(p) = 0 /\ variantFetches[p] = 0 /\ MaxVariants \in Nat
      BY CrawlAssumption DEF CrawlInit, Due
    <2> QED
      BY <2>1, <2>2, FS_EmptySet
  <1>2. CrawlInv /\ VariantInv => VariantBudget
    <2> SUFFICES ASSUME CrawlInv, VariantInv, MaxVariants > 0, NEW p \in Paths, p # NoPath
                 PROVE  Cardinality(Spent(p)) <= MaxVariants
      BY DEF VariantBudget, Spent
    <2>1. /\ variantFetches[p] \in Nat /\ MaxVariants \in Nat /\ Cardinality(Spent(p)) \in Nat /\ Due(p) \in {0, 1}
          /\ variantFetches[p] <= MaxVariants /\ Cardinality(Spent(p)) + Due(p) <= variantFetches[p]
      BY CrawlAssumption, SpentFinite DEF CrawlInv, CrawlTyped, VariantInv, Due
    <2> QED
      BY <2>1
  <1> QED
    BY <1>1, <1>2, NextVariant, CrawlInvariant, PTL DEF CrawlSpec

-----------------------------------------------------------------------------
(* The shares of the tiers: how far each is from its part of what was taken. *)

Ahead(t) == 10 * tierTaken[t] - TierQuota[t] * Total(tierTaken)

\* A tier not short of entries is at most one entry behind.  The other two bounds carry it
\* from take to take: while all three have entries, or only one has run dry, the deficits
\* cancel out, so that what one tier is behind another is ahead, and none is far ahead.
ShareInv ==
  /\ Total(tierTaken) = 0 => fed = Tiers
  /\ ~refilled =>
       /\ \A t \in fed : Ahead(t) >= -10
       /\ fed = Tiers => \A t \in Tiers : Ahead(t) <= 10 - TierQuota[t]
       /\ \A t \in Tiers : fed = Tiers \ {t} => Ahead(t) <= 10 - TierQuota[t]

LEMMA Quotas == TierQuota[0] = 5 /\ TierQuota[1] = 3 /\ TierQuota[2] = 2
  BY DEF TierQuota, Tiers

LEMMA DeficitsCancel ==
  ASSUME tierTaken \in [Tiers -> Nat]
  PROVE  /\ \A t \in Tiers : Ahead(t) \in Int
         /\ Ahead(0) + Ahead(1) + Ahead(2) = 0
  <1>1. PICK a \in Nat, b \in Nat, c \in Nat : a = tierTaken[0] /\ b = tierTaken[1] /\ c = tierTaken[2]
    BY DEF Tiers
  <1>2. Ahead(0) = 10 * a - 5 * (a + b + c) /\ Ahead(1) = 10 * b - 3 * (a + b + c) /\ Ahead(2) = 10 * c - 2 * (a + b + c)
    BY <1>1, Quotas DEF Ahead, Total
  <1>3. \A t \in Tiers : t = 0 \/ t = 1 \/ t = 2
    BY DEF Tiers
  <1> QED
    BY <1>2, <1>3

\* One more entry of tier t.
LEMMA OneMore ==
  ASSUME tierTaken \in [Tiers -> Nat], NEW t \in Tiers, tierTaken' = [tierTaken EXCEPT ![t] = @ + 1]
  PROVE  /\ Total(tierTaken)' = Total(tierTaken) + 1 /\ Total(tierTaken) \in Nat
         /\ \A s \in Tiers : Ahead(s)' = Ahead(s) - TierQuota[s] + IF s = t THEN 10 ELSE 0
  <1>1. PICK a \in Nat, b \in Nat, c \in Nat : a = tierTaken[0] /\ b = tierTaken[1] /\ c = tierTaken[2]
    BY DEF Tiers
  <1>2. /\ tierTaken'[0] = IF t = 0 THEN a + 1 ELSE a
        /\ tierTaken'[1] = IF t = 1 THEN b + 1 ELSE b
        /\ tierTaken'[2] = IF t = 2 THEN c + 1 ELSE c
    BY <1>1 DEF Tiers
  <1>3. t = 0 \/ t = 1 \/ t = 2
    BY DEF Tiers
  <1>4. Total(tierTaken) = a + b + c /\ Total(tierTaken)' = a + b + c + 1
    BY <1>1, <1>2, <1>3 DEF Total
  <1>5. ASSUME NEW s \in Tiers
        PROVE  Ahead(s)' = Ahead(s) - TierQuota[s] + IF s = t THEN 10 ELSE 0
    <2>1. PICK q \in Nat, x \in Nat : q = TierQuota[s] /\ x = tierTaken[s]
      BY Quotas DEF Tiers
    <2>2. tierTaken'[s] = IF s = t THEN x + 1 ELSE x
      BY <2>1
    <2>3. Ahead(s) = 10 * x - q * (a + b + c) /\ Ahead(s)' = 10 * tierTaken'[s] - q * (a + b + c + 1)
      BY <1>4, <2>1 DEF Ahead
    <2>4. q * (a + b + c + 1) = q * (a + b + c) + q
      BY <2>1
    <2>5. PICK m \in Int : m = q * (a + b + c)
      BY <2>1
    <2> QED
      BY <2>1, <2>2, <2>3, <2>4, <2>5
  <1> QED
    BY <1>4, <1>5

LEMMA NextShare == CrawlInv /\ ShareInv /\ [CrawlNext]_crawlVars => ShareInv'
  <1> SUFFICES ASSUME CrawlInv, ShareInv, [CrawlNext]_crawlVars PROVE ShareInv'
    OBVIOUS
  <1>1. CASE Take
    <2>1. tierTaken \in [Tiers -> Nat] /\ fed \subseteq Tiers
      BY DEF CrawlInv, CrawlTyped
    <2>2. PICK t \in Tiers : /\ t \in ChooseTier(Waits, tierTaken) /\ Dequeue(t) /\ t \in Waits
      <3>1. \E t \in ChooseTier(Waits, tierTaken) : Dequeue(t) /\ t \in Waits /\ entry'.tier = t
        BY <1>1, TakeEffect
      <3>2. entry'.tier \in Tiers
        BY <1>1, TakeEffect DEF Entry
      <3> QED
        BY <3>1, <3>2
    <2>3. tierTaken' = [tierTaken EXCEPT ![t] = @ + 1]
      BY <2>2 DEF Dequeue
    <2>4. /\ Total(tierTaken)' = Total(tierTaken) + 1 /\ Total(tierTaken) \in Nat
          /\ \A s \in Tiers : Ahead(s)' = Ahead(s) - TierQuota[s] + IF s = t THEN 10 ELSE 0
      BY <2>1, <2>2, <2>3, OneMore
    <2>5. \A s \in Tiers : Ahead(s) \in Int
      BY <2>1, DeficitsCancel
    <2>6. Ahead(0) + Ahead(1) + Ahead(2) = 0
      BY <2>1, DeficitsCancel
    <2>7. CASE Total(tierTaken) = 0
      <3>1. \A s \in Tiers : Ahead(s) = 0
        <4>1. \A s \in Tiers : tierTaken[s] = 0
          <5>1. PICK a \in Nat, b \in Nat, c \in Nat : a = tierTaken[0] /\ b = tierTaken[1] /\ c = tierTaken[2]
            BY <2>1 DEF Tiers
          <5>2. a + b + c = 0
            BY <2>7, <5>1 DEF Total
          <5>3. a = 0 /\ b = 0 /\ c = 0
            BY <5>2
          <5>4. \A s \in Tiers : s = 0 \/ s = 1 \/ s = 2
            BY DEF Tiers
          <5> QED
            BY <5>1, <5>3, <5>4
        <4> QED
          BY <2>7, <4>1, Quotas DEF Ahead, Tiers
      <3>2. \A s \in Tiers : Ahead(s)' = (IF s = t THEN 10 ELSE 0) - TierQuota[s] /\ TierQuota[s] \in 2..5
        BY <2>4, <3>1, Quotas DEF Tiers
      <3>3. \A s \in Tiers : Ahead(s)' >= -10 /\ Ahead(s)' <= 10 - TierQuota[s]
        BY <3>2
      <3>4. fed' = Tiers /\ refilled' = refilled
        BY <2>2, <2>7 DEF Dequeue, ShareInv
      <3> QED
        BY <2>4, <2>7, <3>3, <3>4, Quotas DEF ShareInv
    <2>8. CASE Total(tierTaken) # 0
      <3>1. fed' = fed \cap Waits /\ refilled' = (refilled \/ ~(Waits \subseteq fed))
        BY <2>2, <2>8 DEF Dequeue
      <3>2. Total(tierTaken)' # 0
        BY <2>4
      <3> SUFFICES ASSUME ~refilled'
                   PROVE  /\ \A s \in fed' : Ahead(s)' >= -10
                          /\ fed' = Tiers => \A s \in Tiers : Ahead(s)' <= 10 - TierQuota[s]
                          /\ \A s \in Tiers : fed' = Tiers \ {s} => Ahead(s)' <= 10 - TierQuota[s]
        BY <3>2, Quotas DEF ShareInv
      <3>3. ~refilled /\ fed' = Waits /\ fed' \subseteq fed /\ t \in fed'
        BY <2>2, <3>1
      <3>4. \A s \in fed' : Ahead(t) <= Ahead(s)
        BY <2>2, <2>8, <3>3 DEF ChooseTier, Deficit, Ahead
      <3>5. /\ \A s \in fed : Ahead(s) >= -10
            /\ fed = Tiers => \A s \in Tiers : Ahead(s) <= 10 - TierQuota[s]
            /\ \A s \in Tiers : fed = Tiers \ {s} => Ahead(s) <= 10 - TierQuota[s]
        BY <3>3 DEF ShareInv
      <3>6. PICK s \in Tiers, r \in Tiers : Tiers = {t, s, r} /\ t # s /\ t # r /\ s # r
        BY DEF Tiers
      \* The two that were not taken from, in either order.
      <3>7. PICK x \in Int, y \in Int, z \in Int : x = Ahead(t) /\ y = Ahead(s) /\ z = Ahead(r)
        BY <2>5
      <3>8. x + y + z = 0
        BY <2>6, <3>6, <3>7, <2>5 DEF Tiers
      <3>9. PICK qt \in 2..5, qs \in 2..5, qr \in 2..5 : /\ qt = TierQuota[t] /\ qs = TierQuota[s] /\ qr = TierQuota[r]
        BY Quotas DEF Tiers
      <3>10. Ahead(t)' = x - qt + 10 /\ Ahead(s)' = y - qs /\ Ahead(r)' = z - qr
        BY <2>4, <3>6, <3>7, <3>9
      <3>11. CASE fed' = Tiers
        <4>1. fed = Tiers
          BY <2>1, <3>3, <3>11
        <4>2. x <= y /\ x <= z /\ x <= 10 - qt /\ y <= 10 - qs /\ z <= 10 - qr
          BY <3>4, <3>5, <3>7, <3>9, <3>11, <4>1
        <4>3. x <= 0 /\ y - qs >= -10 /\ z - qr >= -10 /\ x >= -10
          BY <3>5, <3>7, <3>8, <3>9, <4>1, <4>2
        <4>4. \A u \in Tiers : Ahead(u)' >= -10 /\ Ahead(u)' <= 10 - TierQuota[u]
          BY <3>6, <3>7, <3>9, <3>10, <4>2, <4>3
        <4> QED
          BY <3>11, <4>4
      <3>12. CASE fed' = {t, s}
        <4>1. z <= 10 - qr /\ x <= y /\ x >= -10
          BY <2>1, <3>3, <3>4, <3>5, <3>6, <3>7, <3>9, <3>12
        <4>2. y - qs >= -10 /\ z - qr <= 10 - qr /\ x - qt + 10 >= -10
          BY <3>8, <3>9, <4>1
        <4> QED
          BY <3>6, <3>9, <3>10, <3>12, <4>2
      <3>13. CASE fed' = {t, r}
        <4>1. y <= 10 - qs /\ x <= z /\ x >= -10
          BY <2>1, <3>3, <3>4, <3>5, <3>6, <3>7, <3>9, <3>13
        <4>2. z - qr >= -10 /\ y - qs <= 10 - qs /\ x - qt + 10 >= -10
          BY <3>8, <3>9, <4>1
        <4> QED
          BY <3>6, <3>9, <3>10, <3>13, <4>2
      <3>14. CASE fed' = {t}
        <4>1. x >= -10
          BY <3>3, <3>5, <3>7
        <4>2. x - qt + 10 >= -10
          BY <3>9, <4>1
        <4> QED
          BY <3>6, <3>10, <3>14, <4>2
      <3> QED
        BY <2>1, <3>3, <3>6, <3>11, <3>12, <3>13, <3>14
    <2> QED
      BY <2>7, <2>8
  <1>2. CASE ~Take
    <2>1. UNCHANGED <<tierTaken, fed, refilled>>
      BY <1>2 DEF CrawlNext, CrawlStep, Start, RootRefused, AbortedAtHead, GuardRefuses, GuardAllows,
        AtGate, GateRefuses, Open, OpenFails, LandSkipped, BackOff, Land, Requeue, AbortedBackingOff,
        SettleSkipped, Skip, Throws, Capture, Finish, Signal, Clock, crawlVars, frontierVars
    <2> QED
      BY <2>1 DEF ShareInv, Ahead
  <1> QED
    BY <1>1, <1>2

\* A tier that had entries waiting at every take since the root has had its share of the
\* budget, but for one entry, however the links came in (chooseTier and TIER_QUOTA, "floors,
\* not caps").
THEOREM SharesAreFloors == CrawlSpec => []FloorShare
  <1>1. CrawlInit => ShareInv
    <2> SUFFICES ASSUME CrawlInit PROVE ShareInv
      OBVIOUS
    <2>1. \A t \in Tiers : tierTaken[t] = 0
      BY DEF CrawlInit
    <2>2. Total(tierTaken) = 0 /\ \A t \in Tiers : Ahead(t) = 0 /\ TierQuota[t] \in 2..5
      BY <2>1, Quotas DEF Total, Ahead, Tiers
    <2> QED
      BY <2>2 DEF CrawlInit, ShareInv
  <1>2. CrawlInv /\ ShareInv => FloorShare
    <2> SUFFICES ASSUME CrawlInv, ShareInv, ~refilled, NEW t \in fed
                 PROVE  10 * tierTaken[t] >= TierQuota[t] * Total(tierTaken) - 10
      BY DEF FloorShare
    <2>1. t \in Tiers /\ tierTaken \in [Tiers -> Nat]
      BY DEF CrawlInv, CrawlTyped
    <2>2. PICK x \in Nat, y \in Int : x = 10 * tierTaken[t] /\ y = TierQuota[t] * Total(tierTaken)
      BY <2>1, Quotas DEF Total, Tiers
    <2>3. x - y >= -10
      BY <2>2 DEF ShareInv, Ahead
    <2> QED
      BY <2>2, <2>3
  <1> QED
    BY <1>1, <1>2, NextShare, CrawlInvariant, PTL DEF CrawlSpec

-----------------------------------------------------------------------------
(* What is known of an address, and the entry that waits for it.             *)

ShownOn(w, c, u) == IF c[u].depth < CrawlDepth THEN w.links[c[u].settled] ELSE <<>>
LinkedBy(w, c)   == UNION {{[link |-> ShownOn(w, c, u)[i], depth |-> c[u].depth + 1] : i \in DOMAIN ShownOn(w, c, u)} :
                           u \in DOMAIN c}
KnownBy(w, c, n) == {[tier |-> k.link.tier, depth |-> k.depth] : k \in {l \in LinkedBy(w, c) : l.link.to = n}}
                    \cup (IF n = Root THEN {[tier |-> 0, depth |-> 0]} ELSE {})
                    \cup (IF \E i \in DOMAIN w.sitemap : w.sitemap[i] = n
                          THEN {[tier |-> 2, depth |-> 1]} ELSE {})
Known(n) == KnownBy(web, crawled, n)

BestOf(e) ==
  /\ \A k \in Known(e.url) : e.tier <= k.tier /\ e.depth <= k.depth
  /\ \E k \in Known(e.url) : e.tier = k.tier
  /\ \E k \in Known(e.url) : e.depth = k.depth

\* The entry in hand may come back after a 429, so it is kept as good as those waiting; no
\* link improves an address off the site, and only the root may be one: it is taken first.
BestInv ==
  /\ \A e \in EntriesOf(queue) : BestOf(e) /\ (e.url \in web.offsite => Total(tierTaken) = 0)
  /\ Turn => BestOf(entry) /\ entry.url \notin web.offsite /\ Total(tierTaken) # 0
  /\ pc = "starting" => Total(tierTaken) = 0
  /\ pc \notin {"starting", "closed"} /\ Total(tierTaken) = 0 =>
       RootEntry \in EntriesOf(queue) /\ \A e \in EntriesOf(queue) : e = RootEntry \/ Seeded(e)
  /\ pc \notin {"starting", "closed"} => \A n \in Urls \ web.offsite : Known(n) # {} => n \in queued

LEMMA KnownIs ==
  ASSUME NEW w, NEW c, NEW n, NEW k
  PROVE  k \in KnownBy(w, c, n) <=>
           \/ \E u \in DOMAIN c : \E i \in DOMAIN ShownOn(w, c, u) :
                ShownOn(w, c, u)[i].to = n /\ k = [tier |-> ShownOn(w, c, u)[i].tier, depth |-> c[u].depth + 1]
           \/ n = Root /\ k = [tier |-> 0, depth |-> 0]
           \/ (\E i \in DOMAIN w.sitemap : w.sitemap[i] = n) /\ k = [tier |-> 2, depth |-> 1]
  <1> DEFINE ByLink == {[tier |-> l.link.tier, depth |-> l.depth] : l \in {x \in LinkedBy(w, c) : x.link.to = n}}
             Shown == \E u \in DOMAIN c : \E i \in DOMAIN ShownOn(w, c, u) :
                        ShownOn(w, c, u)[i].to = n /\ k = [tier |-> ShownOn(w, c, u)[i].tier, depth |-> c[u].depth + 1]
  <1>1. ASSUME k \in ByLink PROVE Shown
    <2>1. PICK l \in LinkedBy(w, c) : l.link.to = n /\ k = [tier |-> l.link.tier, depth |-> l.depth]
      BY <1>1
    <2>2. PICK u \in DOMAIN c : l \in {[link |-> ShownOn(w, c, u)[i], depth |-> c[u].depth + 1] : i \in DOMAIN ShownOn(w, c, u)}
      BY <2>1 DEF LinkedBy
    <2>3. PICK i \in DOMAIN ShownOn(w, c, u) : l = [link |-> ShownOn(w, c, u)[i], depth |-> c[u].depth + 1]
      BY <2>2
    <2>4. l.link = ShownOn(w, c, u)[i] /\ l.depth = c[u].depth + 1
      BY <2>3
    <2> QED
      BY <2>1, <2>4
  <1>2. ASSUME NEW u \in DOMAIN c, NEW i \in DOMAIN ShownOn(w, c, u), ShownOn(w, c, u)[i].to = n,
               k = [tier |-> ShownOn(w, c, u)[i].tier, depth |-> c[u].depth + 1]
        PROVE  k \in ByLink
    <2>1. PICK l : l = [link |-> ShownOn(w, c, u)[i], depth |-> c[u].depth + 1]
      OBVIOUS
    <2>2. l.link = ShownOn(w, c, u)[i] /\ l.depth = c[u].depth + 1
      BY <2>1
    <2>3. l \in {[link |-> ShownOn(w, c, u)[j], depth |-> c[u].depth + 1] : j \in DOMAIN ShownOn(w, c, u)}
      BY <2>1
    <2>4. l \in LinkedBy(w, c)
      BY <2>3 DEF LinkedBy
    <2> QED
      BY <1>2, <2>2, <2>4
  <1>3. k \in ByLink <=> Shown
    <2> HIDE DEF ByLink
    <2> QED
      BY <1>1, <1>2
  <1> DEFINE ByRoot == IF n = Root THEN {[tier |-> 0, depth |-> 0]} ELSE {}
             ByMap  == IF \E i \in DOMAIN w.sitemap : w.sitemap[i] = n THEN {[tier |-> 2, depth |-> 1]} ELSE {}
  <1>4. KnownBy(w, c, n) = ByLink \cup ByRoot \cup ByMap
    BY Zenon DEF KnownBy
  <1>5. k \in ByRoot <=> n = Root /\ k = [tier |-> 0, depth |-> 0]
    OBVIOUS
  <1>6. k \in ByMap <=> (\E i \in DOMAIN w.sitemap : w.sitemap[i] = n) /\ k = [tier |-> 2, depth |-> 1]
    OBVIOUS
  <1> HIDE DEF ByLink, ByRoot, ByMap, Shown
  <1>7. k \in KnownBy(w, c, n) <=> \/ Shown
                                   \/ n = Root /\ k = [tier |-> 0, depth |-> 0]
                                   \/ (\E i \in DOMAIN w.sitemap : w.sitemap[i] = n) /\ k = [tier |-> 2, depth |-> 1]
    BY <1>3, <1>4, <1>5, <1>6
  <1> QED
    BY <1>7, Zenon DEF Shown

LEMMA BestKnown == CrawlInv /\ BestInv => FrontierBestKnown
  <1> SUFFICES ASSUME CrawlInv, BestInv, NEW i \in DOMAIN queue
               PROVE  BestOf(queue[i])
    BY DEF FrontierBestKnown, BestOf, Known, KnownBy, LinkedBy, ShownOn, Captured
  <1> QED
    BY DEF BestInv, EntriesOf

\* What a capture adds to what is known: the links of its page, if they are followed.
LEMMA KnownGrows ==
  ASSUME CrawlInv, Capture, NEW n, NEW k
  PROVE  k \in Known(n)' <=>
           \/ k \in Known(n)
           \/ /\ entry.depth < CrawlDepth
              /\ \E i \in DOMAIN web.links[answer.settled] :
                   /\ web.links[answer.settled][i].to = n
                   /\ k = [tier |-> web.links[answer.settled][i].tier, depth |-> entry.depth + 1]
  <1>1. PICK u \in Urls : u = entry.url
    BY DEF CrawlInv, CrawlTyped, Entry
  <1>2. u \notin DOMAIN crawled
    BY <1>1 DEF CrawlInv, OneFate, Turn, Decided, Captured, Capture
  <1>3. PICK c : c = crawled'
    OBVIOUS
  <1>4. /\ DOMAIN c = DOMAIN crawled \cup {u}
        /\ c[u].settled = answer.settled /\ c[u].depth = entry.depth
        /\ \A v \in DOMAIN crawled : c[v] = crawled[v]
    BY <1>1, <1>2, <1>3 DEF Capture, Captured
  <1>5. /\ \A v \in DOMAIN crawled : ShownOn(web, c, v) = ShownOn(web, crawled, v)
        /\ ShownOn(web, c, u) = IF entry.depth < CrawlDepth THEN web.links[answer.settled] ELSE <<>>
    BY <1>4 DEF ShownOn
  <1>6. Known(n)' = KnownBy(web, c, n)
    BY <1>3 DEF Known, Capture
  <1>7. k \in KnownBy(web, c, n) <=>
           \/ \E v \in DOMAIN c : \E i \in DOMAIN ShownOn(web, c, v) :
                ShownOn(web, c, v)[i].to = n /\ k = [tier |-> ShownOn(web, c, v)[i].tier, depth |-> c[v].depth + 1]
           \/ n = Root /\ k = [tier |-> 0, depth |-> 0]
           \/ (\E i \in DOMAIN web.sitemap : web.sitemap[i] = n) /\ k = [tier |-> 2, depth |-> 1]
    BY KnownIs
  <1>8. k \in Known(n) <=>
           \/ \E v \in DOMAIN crawled : \E i \in DOMAIN ShownOn(web, crawled, v) :
                ShownOn(web, crawled, v)[i].to = n /\ k = [tier |-> ShownOn(web, crawled, v)[i].tier, depth |-> crawled[v].depth + 1]
           \/ n = Root /\ k = [tier |-> 0, depth |-> 0]
           \/ (\E i \in DOMAIN web.sitemap : web.sitemap[i] = n) /\ k = [tier |-> 2, depth |-> 1]
    BY KnownIs DEF Known
  <1> DEFINE By(v, d, L) == \E i \in DOMAIN L : L[i].to = n /\ k = [tier |-> L[i].tier, depth |-> d + 1]
  <1>9. (\E v \in DOMAIN c : By(v, c[v].depth, ShownOn(web, c, v))) <=>
          \/ \E v \in DOMAIN crawled : By(v, crawled[v].depth, ShownOn(web, crawled, v))
          \/ entry.depth < CrawlDepth /\ By(u, entry.depth, web.links[answer.settled])
    <2>1. \A v \in DOMAIN crawled : By(v, c[v].depth, ShownOn(web, c, v)) <=> By(v, crawled[v].depth, ShownOn(web, crawled, v))
      BY <1>4, <1>5
    <2>2. By(u, c[u].depth, ShownOn(web, c, u)) <=> entry.depth < CrawlDepth /\ By(u, entry.depth, web.links[answer.settled])
      <3>1. CASE entry.depth < CrawlDepth
        BY <1>4, <1>5, <3>1
      <3>2. CASE ~(entry.depth < CrawlDepth)
        BY <1>4, <1>5, <3>2
      <3> QED
        BY <3>1, <3>2
    <2> HIDE DEF By
    <2> QED
      BY <1>4, <2>1, <2>2
  <1> QED
    BY <1>6, <1>7, <1>8, <1>9

LEMMA KnownTyped ==
  ASSUME CrawlInv, NEW n, NEW k \in Known(n)
  PROVE  k.tier \in Tiers /\ k.depth \in Nat
  <1>1. k \in KnownBy(web, crawled, n)
    BY DEF Known
  <1>2. CASE \E u \in DOMAIN crawled : \E i \in DOMAIN ShownOn(web, crawled, u) :
               k = [tier |-> ShownOn(web, crawled, u)[i].tier, depth |-> crawled[u].depth + 1]
    <2>1. PICK u \in DOMAIN crawled : \E i \in DOMAIN ShownOn(web, crawled, u) :
               k = [tier |-> ShownOn(web, crawled, u)[i].tier, depth |-> crawled[u].depth + 1]
      BY <1>2
    <2>2. PICK L : L = ShownOn(web, crawled, u)
      OBVIOUS
    <2>3. crawled[u].depth \in Nat /\ crawled[u].settled \in Urls
      BY DEF CrawlInv, CrawlTyped, Page
    <2>4. L \in LinkSeqs
      <3>1. web.links[crawled[u].settled] \in LinkSeqs
        BY <2>3, WebFacts DEF CrawlInv, CrawlTyped
      <3>2. <<>> \in LinkSeqs
        BY DEF LinkSeqs
      <3> QED
        BY <2>2, <3>1, <3>2 DEF ShownOn
    <2>5. \A i \in DOMAIN L : L[i].tier \in {0, 1}
      <3>1. \A i \in DOMAIN L : L[i] \in [to : Urls, tier : {0, 1}]
        BY <2>4, LenProperties, ElementOfSeq DEF LinkSeqs
      <3> QED
        BY <3>1
    <2>6. PICK i \in DOMAIN L : k = [tier |-> L[i].tier, depth |-> crawled[u].depth + 1]
      BY <2>1, <2>2
    <2>7. k.tier = L[i].tier /\ k.depth = crawled[u].depth + 1
      BY <2>6
    <2> QED
      BY <2>3, <2>5, <2>7 DEF Tiers
  <1>3. CASE k = [tier |-> 0, depth |-> 0] \/ k = [tier |-> 2, depth |-> 1]
    BY <1>3 DEF Tiers
  <1> QED
    BY <1>1, <1>2, <1>3, KnownIs

\* The entries after a capture are as good as what is then known.
LEMMA CaptureBest ==
  ASSUME CrawlInv, BestInv, Capture
  PROVE  /\ \A e \in EntriesOf(queue') : BestOf(e)' /\ e.url \notin web.offsite
         /\ \A n \in Urls \ web.offsite : Known(n)' # {} => n \in queued'
  <1> DEFINE L == web.links[answer.settled]
             d == entry.depth
             seen == Captured \cup {entry.url}
  <1>1. /\ queue \in Frontier /\ queuedEntry = UrlsOf(queue) /\ L \in LinkSeqs /\ d \in Nat /\ pc = "settling"
        /\ DOMAIN L = 1..Len(L) /\ \A i \in DOMAIN L : L[i] \in [to : Urls, tier : {0, 1}]
    <2>1. L \in LinkSeqs /\ entry.depth \in Nat
      BY WebFacts DEF CrawlInv, CrawlTyped, Entry
    <2> HIDE DEF L
    <2>2. DOMAIN L = 1..Len(L) /\ \A i \in DOMAIN L : L[i] \in [to : Urls, tier : {0, 1}]
      BY <2>1, LenProperties, ElementOfSeq DEF LinkSeqs
    <2> QED
      BY <2>1, <2>2 DEF CrawlInv, FrontierSound, Capture
  <1>2. /\ \A e \in EntriesOf(queue) : BestOf(e) /\ e.url \notin web.offsite
        /\ \A n \in Urls \ web.offsite : Known(n) # {} => n \in queued
    BY <1>1 DEF BestInv, Turn
  <1>3. /\ queued = UrlsOf(queue) \cup Decided \cup {entry.url} /\ UrlsOf(queue) \cap seen = {} /\ seen \subseteq queued
    BY <1>1 DEF CrawlInv, OneFate, Turn, Decided
  <1> DEFINE Gives(n, k) == d < CrawlDepth /\ \E i \in DOMAIN L : L[i].to = n /\ k = [tier |-> L[i].tier, depth |-> d + 1]
  <1>4. \A n, k : k \in Known(n)' <=> k \in Known(n) \/ Gives(n, k)
    BY KnownGrows
  <1>5. EntriesOf(queue) \subseteq Entry /\ UrlsOf(queue) = {e.url : e \in EntriesOf(queue)}
    BY <1>1, FrontierSeq
  <1>6. CASE ~(d < CrawlDepth)
    <2>1. queue' = queue /\ queued' = queued
      BY <1>6 DEF Capture
    <2>2. \A n : Known(n)' = Known(n)
      BY <1>4, <1>6
    <2> QED
      BY <1>2, <2>1, <2>2 DEF BestOf
  <1>7. CASE d < CrawlDepth
    <2>1. Follow(L, d, seen)
      BY <1>7 DEF Capture
    <2> HIDE DEF L, d, seen
    <2>2. /\ queued' = queued \cup NewIn(L, seen)
          /\ NewIn(L, seen) \subseteq Urls \ (queued \cup UrlsOf(queue) \cup seen \cup web.offsite)
          /\ \A e \in EntriesOf(queue') :
               \/ /\ e.url \in NewIn(L, seen)
                  /\ e = [url |-> e.url, depth |-> d + 1, tier |-> BestIn(L, e.url)]
               \/ \E o \in EntriesOf(queue) : Improved(e, o, L, d, seen)
      BY <1>1, <2>1, FollowEffect
    \* Every link to an address is at the tier found best, or worse, and one is at it.
    <2>3. ASSUME NEW n \in ShownBy(L, seen)
          PROVE  /\ BestIn(L, n) \in {0, 1}
                 /\ \A k : Gives(n, k) => k.tier \in {0, 1} /\ BestIn(L, n) <= k.tier /\ k.depth = d + 1
                 /\ Gives(n, [tier |-> BestIn(L, n), depth |-> d + 1])
      <3>1. n \in {L[i].to : i \in DOMAIN L}
        BY DEF ShownBy
      <3>2. PICK i \in DOMAIN L : L[i] = [to |-> n, tier |-> BestIn(L, n)]
        BY <1>1, <3>1, FirstBest
      <3>3. ASSUME NEW j \in DOMAIN L, L[j].to = n PROVE L[j].tier \in {0, 1} /\ BestIn(L, n) <= L[j].tier
        <4>1. L[j] = [to |-> n, tier |-> L[j].tier] /\ L[j].tier \in {0, 1}
          BY <1>1, <3>3
        <4> QED
          BY <4>1 DEF BestIn
      <3>4. ASSUME NEW k, Gives(n, k) PROVE k.tier \in {0, 1} /\ BestIn(L, n) <= k.tier /\ k.depth = d + 1
        <4>1. PICK j \in DOMAIN L : L[j].to = n /\ k = [tier |-> L[j].tier, depth |-> d + 1]
          BY <3>4
        <4>2. k.tier = L[j].tier /\ k.depth = d + 1
          BY <4>1
        <4> QED
          BY <3>3, <4>1, <4>2
      <3>5. L[i].to = n /\ L[i].tier = BestIn(L, n)
        BY <3>2
      <3>6. Gives(n, [tier |-> BestIn(L, n), depth |-> d + 1])
        BY <1>7, <3>5
      <3>7. BestIn(L, n) \in {0, 1}
        BY DEF BestIn
      <3> QED
        BY <3>4, <3>6, <3>7
    <2>4. ASSUME NEW n \in Urls, n \notin ShownBy(L, seen), n \notin seen \cup web.offsite
          PROVE  \A k : ~Gives(n, k)
      BY <2>4 DEF ShownBy
    <2>5. ASSUME NEW n \in Urls \ web.offsite, Known(n)' # {} PROVE n \in queued'
      <3>1. CASE Known(n) # {}
        BY <1>2, <2>2, <3>1
      <3>2. CASE n \in seen
        BY <1>3, <2>2, <3>2
      <3>3. CASE Known(n) = {} /\ n \notin seen
        <4>1. \E k : Gives(n, k)
          <5> HIDE DEF Gives
          <5> QED
            BY <1>4, <2>5, <3>3
        <4>2. n \in ShownBy(L, seen)
          BY <2>4, <3>3, <4>1
        <4> QED
          BY <1>3, <2>2, <4>2 DEF NewIn, CrawlInv, FrontierSound
      <3> QED
        BY <3>1, <3>2, <3>3
    <2>6. ASSUME NEW e \in EntriesOf(queue') PROVE BestOf(e)' /\ e.url \notin web.offsite
      <3>1. CASE e.url \in NewIn(L, seen) /\ e = [url |-> e.url, depth |-> d + 1, tier |-> BestIn(L, e.url)]
        <4>1. PICK n \in Urls \ web.offsite : n = e.url /\ n \in NewIn(L, seen) /\ n \notin queued
          BY <2>2, <3>1
        <4>2. Known(n) = {}
          BY <1>2, <4>1
        <4>3. n \in ShownBy(L, seen)
          BY <4>1 DEF NewIn
        <4>4. /\ e.tier = BestIn(L, n) /\ e.depth = d + 1
          BY <3>1, <4>1
        <4>5. \A k : k \in Known(n)' <=> Gives(n, k)
          BY <1>4, <4>2
        <4> HIDE DEF Gives
        <4>6. \A k \in Known(n)' : k.tier \in {0, 1} /\ e.tier <= k.tier /\ e.depth <= k.depth
          <5>1. ASSUME NEW k \in Known(n)' PROVE k.tier \in {0, 1} /\ BestIn(L, n) <= k.tier /\ k.depth = d + 1
            BY <2>3, <4>3, <4>5
          <5>2. d + 1 <= d + 1
            BY <1>1
          <5> QED
            BY <4>4, <5>1, <5>2
        <4>7. PICK k : k = [tier |-> BestIn(L, n), depth |-> d + 1]
          OBVIOUS
        <4>8. k \in Known(n)' /\ k.tier = e.tier /\ k.depth = e.depth
          BY <2>3, <4>3, <4>4, <4>5, <4>7
        <4> QED
          BY <4>1, <4>6, <4>8 DEF BestOf
      <3>2. ASSUME NEW o \in EntriesOf(queue), Improved(e, o, L, d, seen) PROVE BestOf(e)' /\ e.url \notin web.offsite
        <4>1. /\ o \in Entry /\ BestOf(o) /\ o.url \notin web.offsite /\ o.url \in UrlsOf(queue)
          BY <1>2, <1>5
        <4>2. PICK n \in Urls : n = o.url /\ n \notin web.offsite /\ n \notin seen
          BY <1>3, <4>1 DEF Entry
        <4>3. e.url = n
          BY <3>2, <4>2 DEF Improved
        <4>4. /\ \A k \in Known(n) : o.tier <= k.tier /\ o.depth <= k.depth
              /\ \E k \in Known(n) : o.tier = k.tier
              /\ \E k \in Known(n) : o.depth = k.depth
          BY <4>1, <4>2 DEF BestOf
        <4>5. CASE n \notin ShownBy(L, seen)
          <5>1. e = o /\ \A k : ~Gives(n, k)
            BY <2>4, <3>2, <4>2, <4>5 DEF Improved
          <5> HIDE DEF Gives
          <5>2. Known(n)' = Known(n)
            BY <1>4, <5>1
          <5> QED
            BY <4>2, <4>3, <4>4, <5>1, <5>2 DEF BestOf
        <4>6. CASE n \in ShownBy(L, seen)
          <5>1. /\ e.tier = IF BestIn(L, n) < o.tier THEN BestIn(L, n) ELSE o.tier
                /\ e.depth = IF o.depth > d + 1 THEN d + 1 ELSE o.depth
            BY <3>2, <4>2, <4>6 DEF Improved
          <5>2. o.tier \in Nat /\ o.depth \in Nat /\ d \in Nat
            BY <1>1, <4>1 DEF Entry, Tiers
          <5>3. /\ BestIn(L, n) \in {0, 1}
                /\ \A k : Gives(n, k) => k.tier \in {0, 1} /\ BestIn(L, n) <= k.tier /\ k.depth = d + 1
                /\ Gives(n, [tier |-> BestIn(L, n), depth |-> d + 1])
            BY <2>3, <4>6
          <5> HIDE DEF Gives
          <5>4. PICK g : /\ g = [tier |-> BestIn(L, n), depth |-> d + 1] /\ g.tier = BestIn(L, n) /\ g.depth = d + 1
                         /\ g \in Known(n)'
            BY <1>4, <5>3
          <5>5. PICK kt \in Known(n), kd \in Known(n) : o.tier = kt.tier /\ o.depth = kd.depth
            BY <4>4
          <5>6. kt \in Known(n)' /\ kd \in Known(n)'
            BY <1>4
          <5>7. \E k \in Known(n)' : e.tier = k.tier
            BY <5>1, <5>4, <5>5, <5>6
          <5>8. \E k \in Known(n)' : e.depth = k.depth
            BY <5>1, <5>4, <5>5, <5>6
          <5>9. ASSUME NEW k \in Known(n)' PROVE e.tier <= k.tier /\ e.depth <= k.depth
            <6>1. CASE k \in Known(n)
              <7>1. k.tier \in Nat /\ k.depth \in Nat
                BY <6>1, KnownTyped DEF Tiers
              <7> QED
                BY <4>4, <5>1, <5>2, <5>3, <6>1, <7>1
            <6>2. CASE Gives(n, k)
              BY <5>1, <5>2, <5>3, <6>2
            <6> QED
              BY <1>4, <5>9, <6>1, <6>2
          <5> QED
            BY <4>2, <4>3, <5>7, <5>8, <5>9 DEF BestOf
        <4> QED
          BY <4>5, <4>6
      <3> QED
        BY <2>2, <2>6, <3>1, <3>2
    <2> QED
      BY <2>5, <2>6
  <1> QED
    BY <1>6, <1>7

LEMMA NextBest == CrawlInv /\ BestInv /\ [CrawlNext]_crawlVars => BestInv'
  <1> SUFFICES ASSUME CrawlInv, BestInv, [CrawlNext]_crawlVars PROVE BestInv'
    OBVIOUS
  <1>1. CASE Start
    <2>1. /\ pc = "starting" /\ pc' = "head" /\ UNCHANGED <<web, crawled, tierTaken>> /\ web \in Webs
          /\ Total(tierTaken) = 0
      BY <1>1 DEF Start, fateVars, CrawlInv, CrawlTyped, BestInv
    <2>2. /\ queue' \in Frontier /\ queued' = UrlsOf(queue')
          /\ RootEntry \in EntriesOf(queue')
          /\ \A e \in EntriesOf(queue') : e = RootEntry \/ Seeded(e)
          /\ \A i \in DOMAIN web.sitemap : web.sitemap[i] \notin web.offsite => web.sitemap[i] \in UrlsOf(queue')
      BY <1>1, <2>1, StartEffect
    <2>3. DOMAIN crawled = {}
      BY <2>1 DEF CrawlInv, OneFate, Decided, Captured
    <2>4. \A n : Known(n)' = Known(n)
      BY <2>1 DEF Known
    <2>5. ASSUME NEW n, NEW k
          PROVE  k \in Known(n) <=>
                   \/ n = Root /\ k = [tier |-> 0, depth |-> 0]
                   \/ (\E i \in DOMAIN web.sitemap : web.sitemap[i] = n) /\ k = [tier |-> 2, depth |-> 1]
      BY <2>3, KnownIs DEF Known
    <2>6. BestOf(RootEntry)
      <3>1. RootEntry.url = Root /\ RootEntry.tier = 0 /\ RootEntry.depth = 0
        BY DEF RootEntry
      <3>2. \A k \in Known(Root) : 0 <= k.tier /\ 0 <= k.depth
        BY <2>5
      <3>3. [tier |-> 0, depth |-> 0] \in Known(Root)
        BY <2>5
      <3> QED
        BY <3>1, <3>2, <3>3 DEF BestOf
    <2>7. ASSUME NEW e, Seeded(e) PROVE BestOf(e)
      <3>1. /\ e.tier = 2 /\ e.depth = 1 /\ e.url # Root
            /\ \E i \in DOMAIN web.sitemap : web.sitemap[i] = e.url
        BY <2>7 DEF Seeded
      <3>2. \A k : k \in Known(e.url) <=> k = [tier |-> 2, depth |-> 1]
        BY <2>5, <3>1
      <3>3. PICK k : k = [tier |-> 2, depth |-> 1]
        OBVIOUS
      <3>4. k.tier = 2 /\ k.depth = 1 /\ Known(e.url) = {k}
        BY <3>2, <3>3
      <3> QED
        BY <3>1, <3>4 DEF BestOf
    <2>8. \A e \in EntriesOf(queue') : BestOf(e)'
      BY <2>2, <2>4, <2>6, <2>7 DEF BestOf
    <2>9. ASSUME NEW n \in Urls \ web.offsite, Known(n) # {} PROVE n \in queued'
      <3>1. CASE n = Root
        <4>1. UrlsOf(queue') = {e.url : e \in EntriesOf(queue')}
          BY <2>2, FrontierSeq
        <4> QED
          BY <2>2, <3>1, <4>1 DEF RootEntry
      <3>2. CASE \E i \in DOMAIN web.sitemap : web.sitemap[i] = n
        BY <2>2, <3>2
      <3> QED
        BY <2>5, <2>9, <3>1, <3>2
    <2> QED
      BY <2>1, <2>2, <2>4, <2>8, <2>9 DEF BestInv, Turn, Total, Seeded
  <1>2. CASE Take
    <2>1. /\ pc = "head" /\ UNCHANGED <<web, crawled, queued>> /\ pc' \in {"head", "vetting"}
          /\ entry' \in EntriesOf(queue) /\ entry' \in Entry
          /\ EntriesOf(queue') = EntriesOf(queue) \ {entry'}
          /\ pc' = "vetting" => ~Refused(entry')
      BY <1>2, TakeEffect
    <2>2. PICK t \in ChooseTier(Waits, tierTaken) : Dequeue(t) /\ t \in Waits /\ entry'.tier = t
      BY <1>2, TakeEffect
    <2>3. tierTaken \in [Tiers -> Nat] /\ t \in Tiers
      BY <2>1, <2>2 DEF CrawlInv, CrawlTyped, Entry
    <2>4. Total(tierTaken)' # 0
      <3>1. tierTaken' = [tierTaken EXCEPT ![t] = @ + 1]
        BY <2>2 DEF Dequeue
      <3>2. Total(tierTaken)' = Total(tierTaken) + 1 /\ Total(tierTaken) \in Nat
        BY <2>3, <3>1, OneMore
      <3> QED
        BY <3>2
    <2>5. ASSUME Total(tierTaken) = 0 PROVE \A e \in EntriesOf(queue') : e.url \notin web.offsite
      <3>1. RootEntry \in EntriesOf(queue) /\ \A e \in EntriesOf(queue) : e = RootEntry \/ Seeded(e)
        BY <2>1, <2>5 DEF BestInv
      <3>2. 0 \in Waits
        BY <3>1 DEF Waits, EntriesOf, RootEntry
      <3>3. \A s \in Tiers : Deficit(tierTaken, s) = 0 - TierQuota[s]
        <4>1. \A s \in Tiers : tierTaken[s] = 0
          <5>1. PICK a \in Nat, b \in Nat, c \in Nat : a = tierTaken[0] /\ b = tierTaken[1] /\ c = tierTaken[2]
            BY <2>3 DEF Tiers
          <5>a. a + b + c = 0
            BY <2>5, <5>1 DEF Total
          <5>2. a = 0 /\ b = 0 /\ c = 0
            BY <5>a
          <5>3. \A s \in Tiers : s = 0 \/ s = 1 \/ s = 2
            BY DEF Tiers
          <5> QED
            BY <5>1, <5>2, <5>3
        <4>2. \A s \in Tiers : TierQuota[s] \in Nat
          BY Quotas DEF Tiers
        <4> QED
          BY <2>5, <4>1, <4>2 DEF Deficit
      <3>4. 0 - TierQuota[t] <= 0 - TierQuota[0]
        BY <2>2, <2>3, <3>2, <3>3 DEF ChooseTier, Tiers
      <3>5. t = 0
        BY <2>3, <3>4, Quotas DEF Tiers
      <3>6. entry' = RootEntry
        <4>1. entry' = RootEntry \/ entry'.tier = 2
          BY <2>1, <3>1 DEF Seeded
        <4> QED
          BY <2>2, <3>5, <4>1
      <3>7. \A e \in EntriesOf(queue') : Seeded(e)
        BY <2>1, <3>1, <3>6
      <3> QED
        BY <3>7 DEF Seeded
    <2>6. \A n : Known(n)' = Known(n)
      BY <2>1 DEF Known
    <2>7. \A e \in EntriesOf(queue) : BestOf(e)' /\ (e.url \in web.offsite => Total(tierTaken) = 0)
      BY <2>6 DEF BestInv, BestOf
    <2>8. BestOf(entry)'
      BY <2>1, <2>6 DEF BestInv, BestOf
    <2>9. \A e \in EntriesOf(queue') : BestOf(e)' /\ e.url \notin web.offsite
      BY <2>1, <2>5, <2>7
    <2> QED
      BY <2>1, <2>4, <2>6, <2>8, <2>9 DEF BestInv, Turn, Refused
  <1>3. CASE Requeue
    <2>1. /\ pc = "backing" /\ pc' = "head" /\ queue' = Append(queue, entry)
          /\ UNCHANGED <<web, crawled, queued, entry, tierTaken>>
      BY <1>3 DEF Requeue, EndTurn, fateVars
    <2>2. entry.url \notin UrlsOf(queue) /\ entry \in Entry /\ queue \in Frontier
      BY <2>1 DEF OneFate, Turn, CrawlInv, CrawlTyped, FrontierSound
    <2>3. EntriesOf(queue') = EntriesOf(queue) \cup {entry}
      BY <2>1, <2>2, Appended
    <2>4. \A n : Known(n)' = Known(n)
      BY <2>1 DEF Known
    <2>5. Turn /\ ~Turn'
      BY <2>1 DEF Turn
    <2>6. Total(tierTaken)' = Total(tierTaken) /\ Total(tierTaken) # 0
      BY <2>1, <2>5 DEF Total, BestInv
    <2>7. \A e \in EntriesOf(queue') : BestOf(e) /\ (e.url \in web.offsite => Total(tierTaken) = 0)
      BY <2>3, <2>5 DEF BestInv
    <2>8. \A e \in EntriesOf(queue') : BestOf(e)' /\ (e.url \in web.offsite => Total(tierTaken) = 0)
      BY <2>4, <2>7 DEF BestOf
    <2> QED
      BY <2>1, <2>4, <2>5, <2>6, <2>8 DEF BestInv
  <1>4. CASE Capture
    <2>1. /\ pc = "settling" /\ pc' = "head" /\ UNCHANGED <<web, tierTaken>>
      BY <1>4 DEF Capture, EndTurn
    <2>2. Total(tierTaken)' = Total(tierTaken) /\ Total(tierTaken) # 0
      BY <2>1 DEF Total, BestInv, Turn
    <2> QED
      BY <1>4, <2>1, <2>2, CaptureBest DEF BestInv, Turn
  <1>5. CASE (Keeps \/ Drops \/ UNCHANGED crawlVars) /\ ~Take /\ ~Start /\ ~Requeue /\ ~Capture
    <2>1. UNCHANGED <<web, tierTaken>>
      BY <1>5 DEF CrawlNext, CrawlStep, RootRefused, AbortedAtHead, GuardRefuses, GuardAllows,
        AtGate, GateRefuses, Open, OpenFails, LandSkipped, BackOff, Land, AbortedBackingOff,
        SettleSkipped, Skip, Throws, Finish, Signal, Clock, crawlVars, frontierVars
    <2>2. /\ UNCHANGED <<queue, queued, crawled, entry>>
          /\ Turn' => Turn
          /\ pc' \notin {"starting", "closed"} => pc \notin {"starting", "closed"}
          /\ pc' = "starting" => pc = "starting"
      BY <1>5 DEF Keeps, Drops, Turn, crawlVars, turnVars, frontierVars, fateVars
    <2>3. \A n : Known(n)' = Known(n)
      BY <2>1, <2>2 DEF Known
    <2>4. \A e : BestOf(e)' <=> BestOf(e)
      BY <2>3 DEF BestOf
    <2>5. /\ Total(tierTaken)' = Total(tierTaken) /\ EntriesOf(queue') = EntriesOf(queue)
          /\ BestOf(entry)' <=> BestOf(entry)
      BY <2>1, <2>2, <2>3 DEF Total, BestOf
    <2>6. \A e : Seeded(e)' <=> Seeded(e)
      BY <2>1 DEF Seeded
    <2> QED
      BY <2>1, <2>2, <2>3, <2>4, <2>5, <2>6 DEF BestInv
  <1> QED
    BY <1>1, <1>2, <1>3, <1>4, <1>5, StepKinds

\* An entry waits with the best tier and the least depth that the root, the sitemap and the
\* pages captured so far give its address, after any number of promotions and of returns
\* from a 429 (queuedEntry, the promotion of what is waiting, and the push that follows a backoff).
THEOREM FrontierKeptBest == CrawlSpec => []FrontierBestKnown
  <1>1. CrawlInit => BestInv
    <2> SUFFICES ASSUME CrawlInit PROVE BestInv
      OBVIOUS
    <2>1. EntriesOf(queue) = {} /\ Total(tierTaken) = 0 /\ pc = "starting"
      BY NoEntries DEF CrawlInit, Total, Tiers
    <2> QED
      BY <2>1 DEF BestInv, Turn
  <1> QED
    BY <1>1, NextBest, BestKnown, CrawlInvariant, PTL DEF CrawlSpec

=============================================================================
