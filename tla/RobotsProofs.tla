---------------------------- MODULE RobotsProofs ----------------------------
(***************************************************************************)
(* What is proved of the reading of a robots.txt, for texts of any length. *)
(***************************************************************************)
EXTENDS Robots, FiniteSetTheorems, SequenceTheorems, WellFoundedInduction, TLAPS

RuleKinds == {"disallow", "allow", "crawl-delay"}

IsAgent(i) == text[i].k = "agent"
Closes(i)  == text[i].k \in RuleKinds

\* The groups as the parser sees them, where crawl-delay closes a run of agent lines too:
\* line i counts for whom the agent line b names.
Reaches(b, i) ==
  /\ b < i /\ IsAgent(b) /\ Closes(i)
  /\ ~ \E r, a \in (b + 1)..(i - 1) : r < a /\ Closes(r) /\ IsAgent(a)

LinesFor(who) == {i \in DOMAIN text : \E b \in DOMAIN text : text[b].v = who /\ Reaches(b, i)}

\* The agent line b belongs to the group being read.
Open(b) ==
  /\ b \in DOMAIN text /\ IsAgent(b)
  /\ ~ \E r, a \in (b + 1)..Len(text) : r < a /\ Closes(r) /\ IsAgent(a)

Addressed(who) == \E b \in DOMAIN text : Open(b) /\ text[b].v = who

\* The lines whose values the parser is to keep for one of the two.
KeptFor(who) == {i \in LinesFor(who) : text[i].k = "disallow" /\ text[i].v # <<>>}

\* A list of values, one for each line of I of the text t, in order.
Lists(t, q, I) ==
  /\ Len(q) = Cardinality(I)
  /\ \A i \in I : q[Cardinality({j \in I : j <= i})] = t[i].v

TextTyped == text \in Seq(Lines) /\ own \in Seq(Values) /\ star \in Seq(Values)

\* The parser's variables, each as what the text says: five of them stand for all the
\* group structure read so far.
GroupsRead ==
  /\ ownSeen <=> Named("own")
  /\ starSeen <=> Named("star")
  /\ forOwn <=> Addressed("own")
  /\ forStar <=> Addressed("star")
  /\ inAgentLines <=> \E a \in DOMAIN text : IsAgent(a) /\ \A r \in (a + 1)..Len(text) : ~Closes(r)

ListsRead ==
  /\ Lists(text, own, KeptFor("own")) /\ Lists(text, star, KeptFor("star"))
  /\ sitemaps = Cardinality({i \in DOMAIN text : text[i].k = "sitemap"})

ParserInv == TextTyped /\ GroupsRead /\ ListsRead

-----------------------------------------------------------------------------
(* Lists of values, line by line.                                            *)

LEMMA ListStays ==
  ASSUME NEW n \in Nat, NEW I \in SUBSET (1..n), NEW t, NEW u, \A i \in 1..n : u[i] = t[i],
         NEW q, Lists(t, q, I)
  PROVE  Lists(u, q, I)
  BY DEF Lists

LEMMA ListGrows ==
  ASSUME NEW n \in Nat, NEW I \in SUBSET (1..n), NEW t, NEW u, \A i \in 1..n : u[i] = t[i],
         NEW S, NEW q \in Seq(S), Lists(t, q, I), u[n + 1].v \in S
  PROVE  Lists(u, Append(q, u[n + 1].v), I \cup {n + 1})
  <1> DEFINE J == I \cup {n + 1}
             p == Append(q, u[n + 1].v)
             upto(A, i) == {j \in A : j <= i}
  <1>1. IsFiniteSet(I) /\ Cardinality(I) \in Nat
    <2>1. IsFiniteSet(1..n)
      BY FS_Interval
    <2> QED
      BY <2>1, FS_Subset, FS_CardinalityType
  <1>2. PICK m \in Nat : m = Cardinality(I) /\ Len(q) = m
    BY <1>1 DEF Lists
  <1>3. Cardinality(J) = m + 1
    <2>1. n + 1 \notin I
      OBVIOUS
    <2> QED
      BY <1>1, <1>2, <2>1, FS_AddElement
  <1>4. Len(p) = m + 1 /\ p[m + 1] = u[n + 1].v /\ \A k \in 1..m : p[k] = q[k]
    BY <1>2, AppendProperties
  <1>5. ASSUME NEW i \in I PROVE p[Cardinality(upto(J, i))] = u[i].v
    <2>1. upto(J, i) = upto(I, i)
      OBVIOUS
    <2>2. i \in upto(I, i) /\ upto(I, i) \in SUBSET I
      OBVIOUS
    <2> HIDE DEF upto
    <2>3. Cardinality(upto(I, i)) \in 1..m
      <3>1. /\ IsFiniteSet(upto(I, i)) /\ Cardinality(upto(I, i)) \in Nat
            /\ Cardinality(upto(I, i)) <= m
        BY <1>1, <1>2, <2>2, FS_Subset, FS_CardinalityType
      <3>2. Cardinality(upto(I, i)) # 0
        BY <2>2, <3>1, FS_EmptySet
      <3> QED
        BY <1>2, <3>1, <3>2
    <2>4. q[Cardinality(upto(I, i))] = t[i].v
      BY DEF Lists, upto
    <2> QED
      BY <1>4, <2>1, <2>3, <2>4
  <1>6. p[Cardinality(upto(J, n + 1))] = u[n + 1].v
    <2>1. \A j \in J : j <= n + 1
      OBVIOUS
    <2>2. upto(J, n + 1) = J
      BY <2>1
    <2> QED
      BY <1>3, <1>4, <2>2
  <1> QED
    BY <1>3, <1>4, <1>5, <1>6 DEF Lists

-----------------------------------------------------------------------------
(* One more line: which lines it leaves in the group being read, and for     *)
(* whom it counts.                                                           *)

OneLine(n, l) ==
  /\ n \in Nat /\ l \in Lines
  /\ Len(text) = n /\ DOMAIN text = 1..n
  /\ text' \in Seq(Lines) /\ Len(text') = n + 1 /\ DOMAIN text' = 1..(n + 1)
  /\ text'[n + 1] = l /\ \A i \in 1..n : text'[i] = text[i]

Read(l) == AgentLine(l) \/ RuleLine(l) \/ OtherLine(l)

LEMMA LineRead ==
  ASSUME TextTyped, ReadLine
  PROVE  \E n, l : OneLine(n, l) /\ Read(l)
  <1>1. PICK l \in Lines : text' = Append(text, l) /\ Read(l)
    BY DEF ReadLine, Read
  <1>2. OneLine(Len(text), l)
    BY <1>1, AppendProperties, LenProperties DEF OneLine, TextTyped
  <1> QED
    BY <1>1, <1>2

LEMMA OpenNext ==
  ASSUME NEW n, NEW l, OneLine(n, l)
  PROVE  /\ \A b \in 1..n : Open(b)' <=> Open(b) /\ (l.k = "agent" => \A r \in (b + 1)..n : ~Closes(r))
         /\ Open(n + 1)' <=> l.k = "agent"
  <1>1. ASSUME NEW b \in 1..n, Open(b)'
        PROVE  Open(b) /\ (l.k = "agent" => \A r \in (b + 1)..n : ~Closes(r))
    <2>1. Open(b)
      BY <1>1 DEF OneLine, Open, IsAgent, Closes
    <2>2. ASSUME l.k = "agent", NEW r \in (b + 1)..n, Closes(r) PROVE FALSE
      <3>1. r \in (b + 1)..(n + 1) /\ n + 1 \in (b + 1)..(n + 1) /\ r < n + 1 /\ r \in 1..n
        BY DEF OneLine
      <3>2. Closes(r)' /\ IsAgent(n + 1)'
        BY <2>2, <3>1 DEF OneLine, Closes, IsAgent
      <3> QED
        BY <1>1, <3>1, <3>2 DEF OneLine, Open
    <2> QED
      BY <2>1, <2>2
  <1>2. ASSUME NEW b \in 1..n, Open(b), l.k = "agent" => \A r \in (b + 1)..n : ~Closes(r) PROVE Open(b)'
    <2>1. b \in DOMAIN text' /\ IsAgent(b)'
      BY <1>2 DEF OneLine, Open, IsAgent
    <2>2. ASSUME NEW r \in (b + 1)..(n + 1), NEW a \in (b + 1)..(n + 1), r < a, Closes(r)', IsAgent(a)'
          PROVE  FALSE
      <3>1. r \in (b + 1)..n /\ r \in 1..n /\ Closes(r)
        BY <2>2 DEF OneLine, Closes
      <3>2. CASE a \in (b + 1)..n
        BY <1>2, <2>2, <3>1, <3>2 DEF OneLine, Open, IsAgent
      <3>3. CASE a = n + 1
        BY <1>2, <2>2, <3>1, <3>3 DEF OneLine, IsAgent
      <3> QED
        BY <3>2, <3>3 DEF OneLine
    <2> QED
      BY <2>1, <2>2 DEF OneLine, Open
  <1>3. Open(n + 1)' <=> l.k = "agent"
    BY DEF OneLine, Open, IsAgent
  <1> QED
    BY <1>1, <1>2, <1>3

LEMMA RulesNext ==
  ASSUME NEW n, NEW l, OneLine(n, l), NEW who
  PROVE  /\ LinesFor(who) \subseteq 1..n
         /\ LinesFor(who)' = LinesFor(who) \cup IF l.k \in RuleKinds /\ Addressed(who) THEN {n + 1} ELSE {}
  <1>1. \A b, i \in 1..n : Reaches(b, i)' <=> Reaches(b, i)
    <2> SUFFICES ASSUME NEW b \in 1..n, NEW i \in 1..n PROVE Reaches(b, i)' <=> Reaches(b, i)
      OBVIOUS
    <2>1. \A j \in (b + 1)..(i - 1) : j \in 1..n
      BY DEF OneLine
    <2> QED
      BY <2>1 DEF OneLine, Reaches, Closes, IsAgent
  <1>2. ASSUME NEW b \in 1..n PROVE Reaches(b, n + 1)' <=> Open(b) /\ l.k \in RuleKinds
    <2>1. \A j \in (b + 1)..n : j \in 1..n
      BY DEF OneLine
    <2>2. (n + 1) - 1 = n /\ b < n + 1
      BY DEF OneLine
    <2> QED
      BY <2>1, <2>2 DEF OneLine, Reaches, Open, Closes, IsAgent, RuleKinds
  <1>3. \A i \in 1..(n + 1) : ~Reaches(n + 1, i)'
    BY DEF OneLine, Reaches
  <1>4. LinesFor(who) \subseteq 1..n
    BY DEF OneLine, LinesFor
  <1>5. ASSUME NEW i \in 1..n PROVE i \in LinesFor(who)' <=> i \in LinesFor(who)
    BY <1>1, <1>3 DEF OneLine, LinesFor
  <1>6. n + 1 \in LinesFor(who)' <=> l.k \in RuleKinds /\ Addressed(who)
    BY <1>2, <1>3 DEF OneLine, LinesFor, Addressed
  <1>7. LinesFor(who)' \subseteq 1..(n + 1)
    BY DEF OneLine, LinesFor
  <1> QED
    BY <1>4, <1>5, <1>6, <1>7 DEF OneLine

LEMMA KeptNext ==
  ASSUME NEW n, NEW l, OneLine(n, l), NEW who
  PROVE  /\ KeptFor(who) \in SUBSET (1..n)
         /\ KeptFor(who)' = KeptFor(who) \cup
              IF l.k = "disallow" /\ l.v # <<>> /\ Addressed(who) THEN {n + 1} ELSE {}
  <1>1. /\ LinesFor(who) \subseteq 1..n
        /\ LinesFor(who)' = LinesFor(who) \cup IF l.k \in RuleKinds /\ Addressed(who) THEN {n + 1} ELSE {}
    BY RulesNext
  <1>2. \A i \in 1..n : text'[i] = text[i] /\ i # n + 1
    BY DEF OneLine
  <1>3. text'[n + 1] = l
    BY DEF OneLine
  <1> QED
    BY <1>1, <1>2, <1>3 DEF KeptFor, RuleKinds

-----------------------------------------------------------------------------

LEMMA NextTyped == ParserInv /\ [ReadLine]_vars => TextTyped'
  <1> SUFFICES ASSUME ParserInv, [ReadLine]_vars PROVE TextTyped'
    OBVIOUS
  <1>1. CASE ReadLine
    <2>1. PICK n, l : OneLine(n, l) /\ Read(l)
      BY <1>1, LineRead DEF ParserInv
    <2>2. l.k = "disallow" /\ l.v # <<>> => l.v \in Values
      BY <2>1 DEF OneLine, Lines, Agents, Rules
    <2>3. own \in Seq(Values) /\ star \in Seq(Values) /\ text' \in Seq(Lines)
      BY <2>1 DEF ParserInv, TextTyped, OneLine
    <2>4. /\ own' = own \/ (l.k = "disallow" /\ l.v # <<>> /\ own' = Append(own, l.v))
          /\ star' = star \/ (l.k = "disallow" /\ l.v # <<>> /\ star' = Append(star, l.v))
      BY <2>1 DEF Read, AgentLine, RuleLine, OtherLine
    <2>5. \A q \in Seq(Values) : l.v \in Values => Append(q, l.v) \in Seq(Values)
      BY AppendProperties
    <2>6. own' \in Seq(Values)
      BY <2>2, <2>3, <2>4, <2>5
    <2>7. star' \in Seq(Values)
      BY <2>2, <2>3, <2>4, <2>5
    <2> QED
      BY <2>3, <2>6, <2>7 DEF TextTyped
  <1>2. CASE UNCHANGED vars
    BY <1>2 DEF vars, TextTyped, ParserInv
  <1> QED
    BY <1>1, <1>2

LEMMA NextGroups == ParserInv /\ [ReadLine]_vars => GroupsRead'
  <1> SUFFICES ASSUME ParserInv, [ReadLine]_vars PROVE GroupsRead'
    OBVIOUS
  <1>0. GroupsRead /\ TextTyped
    BY DEF ParserInv
  <1>1. CASE ReadLine
    <2>1. PICK n, l : OneLine(n, l) /\ Read(l)
      BY <1>0, <1>1, LineRead
    <2> DEFINE Trails(a) == \A r \in (a + 1)..n : ~Closes(r)
    <2>2. /\ \A b \in 1..n : Open(b)' <=> Open(b) /\ (l.k = "agent" => Trails(b))
          /\ Open(n + 1)' <=> l.k = "agent"
      BY <2>1, OpenNext
    <2>3. /\ n \in Nat /\ DOMAIN text = 1..n /\ DOMAIN text' = 1..n \cup {n + 1} /\ Len(text) = n
          /\ text'[n + 1] = l /\ \A i \in 1..n : text'[i] = text[i]
      BY <2>1 DEF OneLine
    <2>4. \A who : Named(who)' <=> Named(who) \/ (l.k = "agent" /\ l.v = who)
      BY <2>3 DEF Named
    <2>5. inAgentLines' <=> \E a \in DOMAIN text' : IsAgent(a)' /\ \A r \in (a + 1)..Len(text)' : ~Closes(r)'
      <3>1. \A a \in 1..n : (\A r \in (a + 1)..(n + 1) : ~Closes(r)') <=> Trails(a) /\ l.k \notin RuleKinds
        <4> SUFFICES ASSUME NEW a \in 1..n
                     PROVE  (\A r \in (a + 1)..(n + 1) : ~Closes(r)') <=> Trails(a) /\ l.k \notin RuleKinds
          OBVIOUS
        <4>1. (a + 1)..(n + 1) = ((a + 1)..n) \cup {n + 1} /\ \A r \in (a + 1)..n : r \in 1..n
          BY <2>3
        <4>2. \A r \in 1..n : Closes(r)' <=> Closes(r)
          BY <2>3 DEF Closes
        <4>3. Closes(n + 1)' <=> l.k \in RuleKinds
          BY <2>3 DEF Closes, RuleKinds
        <4> QED
          BY <4>1, <4>2, <4>3
      <3>2. \A r \in ((n + 1) + 1)..(n + 1) : ~Closes(r)'
        BY <2>3
      <3>3. Len(text)' = n + 1
        BY <2>1 DEF OneLine
      <3>4. /\ \A a \in 1..n : IsAgent(a)' <=> IsAgent(a)
            /\ IsAgent(n + 1)' <=> l.k = "agent"
        BY <2>3 DEF IsAgent
      <3>5. inAgentLines <=> \E a \in 1..n : IsAgent(a) /\ Trails(a)
        BY <1>0, <2>3 DEF GroupsRead
      <3>6. inAgentLines' <=> (l.k = "agent" \/ (inAgentLines /\ l.k \notin RuleKinds))
        <4>1. CASE AgentLine(l)
          BY <4>1 DEF AgentLine
        <4>2. CASE RuleLine(l)
          BY <4>2 DEF RuleLine, RuleKinds
        <4>3. CASE OtherLine(l)
          BY <4>3, <3>5 DEF OtherLine, groupVars, RuleKinds
        <4> QED
          BY <2>1, <4>1, <4>2, <4>3 DEF Read
      <3> HIDE DEF Trails
      <3> QED
        BY <2>3, <3>1, <3>2, <3>3, <3>4, <3>5, <3>6
    \* Another agent line joins the group as long as no rule has come.
    <2>6. ASSUME l.k = "agent", NEW who
          PROVE  Addressed(who)' <=> l.v = who \/ (inAgentLines /\ Addressed(who))
      <3>1. ASSUME inAgentLines, NEW b \in 1..n, Open(b) PROVE Trails(b)
        <4>1. PICK a \in 1..n : IsAgent(a) /\ \A r \in (a + 1)..n : ~Closes(r)
          BY <1>0, <2>3, <3>1 DEF GroupsRead
        <4> SUFFICES ASSUME NEW r \in (b + 1)..n, Closes(r) PROVE FALSE
          OBVIOUS
        <4>2. CASE r > a
          BY <2>3, <4>1, <4>2
        <4>3. CASE r < a
          <5>1. a \in (b + 1)..n
            BY <2>3, <4>3
          <5> QED
            BY <2>3, <3>1, <4>1, <4>3, <5>1 DEF Open
        <4>4. CASE r = a
          BY <4>1, <4>4 DEF IsAgent, Closes, RuleKinds
        <4> QED
          BY <2>3, <4>2, <4>3, <4>4
      <3>2. ASSUME NEW b \in 1..n, Open(b), Trails(b) PROVE inAgentLines
        BY <1>0, <2>3, <3>2 DEF GroupsRead, Open
      <3> HIDE DEF Trails
      <3>3. \A b \in 1..n : Open(b)' <=> Open(b) /\ inAgentLines
        BY <2>2, <2>6, <3>1, <3>2
      <3> QED
        BY <2>2, <2>3, <2>6, <3>3 DEF Addressed
    <2>7. ASSUME l.k # "agent", NEW who PROVE Addressed(who)' <=> Addressed(who)
      <3> HIDE DEF Trails
      <3> QED
        BY <2>2, <2>3, <2>7 DEF Addressed
    <2>8. CASE AgentLine(l)
      <3>1. /\ l.k = "agent" /\ forOwn' = Widen("own", l.v) /\ forStar' = Widen("star", l.v)
            /\ ownSeen' = (ownSeen \/ l.v = "own") /\ starSeen' = (starSeen \/ l.v = "star")
        BY <2>8 DEF AgentLine
      <3>2. (forOwn' <=> Addressed("own")')
        BY <1>0, <2>6, <3>1 DEF Widen, GroupsRead
      <3>3. (forStar' <=> Addressed("star")')
        BY <1>0, <2>6, <3>1 DEF Widen, GroupsRead
      <3>4. (ownSeen' <=> Named("own")') /\ (starSeen' <=> Named("star")')
        BY <1>0, <2>4, <3>1 DEF GroupsRead
      <3> QED
        BY <2>5, <3>2, <3>3, <3>4 DEF GroupsRead
    <2>9. CASE RuleLine(l) \/ OtherLine(l)
      <3>1. l.k # "agent" /\ UNCHANGED <<forOwn, forStar, ownSeen, starSeen>>
        BY <2>9 DEF RuleLine, OtherLine, groupVars
      <3>2. (forOwn' <=> Addressed("own")') /\ (forStar' <=> Addressed("star")')
        BY <1>0, <2>7, <3>1 DEF GroupsRead
      <3>3. (ownSeen' <=> Named("own")') /\ (starSeen' <=> Named("star")')
        BY <1>0, <2>4, <3>1 DEF GroupsRead
      <3> QED
        BY <2>5, <3>2, <3>3 DEF GroupsRead
    <2> QED
      BY <2>1, <2>8, <2>9 DEF Read
  <1>2. CASE UNCHANGED vars
    BY <1>0, <1>2 DEF vars, groupVars, GroupsRead, Named, Addressed, Open, IsAgent, Closes
  <1> QED
    BY <1>1, <1>2

LEMMA NextLists == ParserInv /\ [ReadLine]_vars => ListsRead'
  <1> SUFFICES ASSUME ParserInv, [ReadLine]_vars PROVE ListsRead'
    OBVIOUS
  <1>0. GroupsRead /\ TextTyped /\ ListsRead
    BY DEF ParserInv
  <1>1. CASE ReadLine
    <2>1. PICK n, l : OneLine(n, l) /\ Read(l)
      BY <1>0, <1>1, LineRead
    <2> DEFINE counts == l.k = "disallow" /\ l.v # <<>>
    <2>2. /\ n \in Nat /\ \A i \in 1..n : text'[i] = text[i]
          /\ text'[n + 1].v = l.v /\ (counts => l.v \in Values)
      BY <2>1 DEF OneLine, Lines, Agents, Rules
    <2>3. /\ own' = IF counts /\ Addressed("own") THEN Append(own, l.v) ELSE own
          /\ star' = IF counts /\ Addressed("star") THEN Append(star, l.v) ELSE star
          /\ sitemaps' = IF l.k = "sitemap" THEN sitemaps + 1 ELSE sitemaps
      BY <1>0, <2>1 DEF Read, AgentLine, RuleLine, OtherLine, GroupsRead
    <2>4. ASSUME NEW who PROVE /\ KeptFor(who) \in SUBSET (1..n)
                               /\ KeptFor(who)' = KeptFor(who) \cup IF counts /\ Addressed(who) THEN {n + 1} ELSE {}
      BY <2>1, KeptNext
    <2>5. ASSUME NEW who, NEW q \in Seq(Values), Lists(text, q, KeptFor(who))
          PROVE  Lists(text', IF counts /\ Addressed(who) THEN Append(q, l.v) ELSE q, KeptFor(who)')
      <3>1. PICK I \in SUBSET (1..n) : I = KeptFor(who)
        BY <2>4
      <3>2. PICK u : u = text'
        OBVIOUS
      <3>3. Lists(text, q, I) /\ \A i \in 1..n : u[i] = text[i]
        BY <2>2, <2>5, <3>1, <3>2
      <3>4. CASE counts /\ Addressed(who)
        <4>1. u[n + 1].v \in Values
          BY <2>2, <3>2, <3>4
        <4>2. Lists(u, Append(q, u[n + 1].v), I \cup {n + 1})
          BY <2>2, <3>3, <4>1, ListGrows
        <4> QED
          BY <2>2, <2>4, <3>1, <3>2, <3>4, <4>2
      <3>5. CASE ~(counts /\ Addressed(who))
        <4>1. Lists(u, q, I)
          BY <2>2, <3>3, ListStays
        <4> QED
          BY <2>4, <3>1, <3>2, <3>5, <4>1
      <3> QED
        BY <3>4, <3>5
    <2>6. Lists(text', own', KeptFor("own")')
      BY <1>0, <2>3, <2>5 DEF TextTyped, ListsRead
    <2>7. Lists(text', star', KeptFor("star")')
      BY <1>0, <2>3, <2>5 DEF TextTyped, ListsRead
    <2>8. sitemaps' = Cardinality({i \in DOMAIN text' : text'[i].k = "sitemap"})
      <3>1. PICK S : S = {i \in DOMAIN text : text[i].k = "sitemap"}
        OBVIOUS
      <3>2. S \in SUBSET (1..n) /\ n \in Nat /\ n + 1 \notin S
        BY <2>1, <3>1 DEF OneLine
      <3>3. IsFiniteSet(S) /\ Cardinality(S) \in Nat
        <4>1. IsFiniteSet(1..n)
          BY <3>2, FS_Interval
        <4> QED
          BY <3>2, <4>1, FS_Subset, FS_CardinalityType
      <3>4. {i \in DOMAIN text' : text'[i].k = "sitemap"} = IF l.k = "sitemap" THEN S \cup {n + 1} ELSE S
        BY <2>1, <3>1 DEF OneLine
      <3>5. Cardinality(S \cup {n + 1}) = Cardinality(S) + 1
        BY <3>2, <3>3, FS_AddElement
      <3> QED
        BY <1>0, <2>3, <3>1, <3>4, <3>5 DEF ListsRead
    <2> QED
      BY <2>6, <2>7, <2>8 DEF ListsRead
  <1>2. CASE UNCHANGED vars
    <2>1. UNCHANGED <<text, own, star, sitemaps>>
      BY <1>2 DEF vars
    <2>2. \A b, i : Reaches(b, i)' <=> Reaches(b, i)
      BY <2>1 DEF Reaches, Closes, IsAgent
    <2>3. \A who : KeptFor(who)' = KeptFor(who)
      BY <2>1, <2>2 DEF KeptFor, LinesFor
    <2> QED
      BY <1>0, <2>1, <2>3 DEF ListsRead
  <1> QED
    BY <1>1, <1>2

LEMMA ParserInvariant == Spec => []ParserInv
  <1>1. Init => ParserInv
    <2> SUFFICES ASSUME Init PROVE ParserInv
      OBVIOUS
    <2>1. text = <<>> /\ own = <<>> /\ star = <<>> /\ sitemaps = 0 /\ DOMAIN text = {} /\ Len(own) = 0 /\ Len(star) = 0
      BY DEF Init
    <2>2. TextTyped
      BY <2>1 DEF TextTyped
    <2>3. GroupsRead
      BY <2>1 DEF Init, GroupsRead, Named, Addressed
    <2>4. \A who : KeptFor(who) = {}
      BY <2>1 DEF KeptFor, LinesFor
    <2>5. ListsRead
      BY <2>1, <2>4, FS_EmptySet DEF ListsRead, Lists
    <2> QED
      BY <2>2, <2>3, <2>5 DEF ParserInv
  <1>2. ParserInv /\ [ReadLine]_vars => ParserInv'
    BY NextTyped, NextGroups, NextLists DEF ParserInv
  <1> QED
    BY <1>1, <1>2, PTL DEF Spec

\* Where no crawl-delay splits a group, the parser's groups are the RFC's.
LEMMA SameGroups ==
  ASSUME TextTyped, Uninterrupted, NEW who
  PROVE  KeptFor(who) = {i \in RulesFor(who) : text[i].k = "disallow" /\ text[i].v # <<>>}
  <1>1. Len(text) \in Nat /\ DOMAIN text = 1..Len(text)
    BY LenProperties DEF TextTyped
  <1>2. ASSUME NEW b \in DOMAIN text, NEW i \in DOMAIN text, text[i].k = "disallow"
        PROVE  Reaches(b, i) <=> Governs(b, i)
    <2>1. \A j : IsRule(j) => Closes(j)
      BY DEF IsRule, Closes, RuleKinds
    <2>2. IsRule(i)
      BY <1>2 DEF IsRule
    <2>3. Reaches(b, i) => Governs(b, i)
      BY <2>1, <2>2 DEF Reaches, Governs, IsAgent
    <2>4. ASSUME Governs(b, i), NEW r \in (b + 1)..(i - 1), NEW a \in (b + 1)..(i - 1),
                 r < a, Closes(r), IsAgent(a)
          PROVE  FALSE
      <3>1. b \in Nat /\ i \in Nat /\ r \in Nat /\ a \in Nat /\ b < r /\ a < i /\ i <= Len(text)
        BY <1>1
      <3>2. r \in DOMAIN text /\ a \in DOMAIN text
        BY <1>1, <3>1
      <3>3. ~IsRule(r)
        BY <2>4 DEF Governs, IsAgent
      <3>4. text[r].k = "crawl-delay"
        BY <2>4, <3>3 DEF Closes, RuleKinds, IsRule
      <3>5. PICK s \in (b + 1)..(a - 1) : IsRule(s)
        BY <2>4, <3>1, <3>2, <3>4 DEF Uninterrupted, Governs, IsAgent
      <3>6. s \in (b + 1)..(i - 1) /\ s < a
        BY <3>1, <3>5
      <3> QED
        BY <2>4, <3>5, <3>6 DEF Governs, IsAgent
    <2> QED
      BY <2>1, <2>2, <2>3, <2>4 DEF Reaches, Governs, IsAgent
  <1> QED
    BY <1>2 DEF KeptFor, LinesFor, RulesFor

\* However many lines and groups a robots.txt has, and however they are declared, widened,
\* repeated and mixed with other lines, the rules in force after any of its lines are those
\* RFC 9309 selects, as long as no crawl-delay splits a group (parseRobots).
THEOREM RulesAreOurs == Spec => []GroupRules
  <1>1. ParserInv => GroupRules
    <2> SUFFICES ASSUME ParserInv, Uninterrupted PROVE GroupsFollowRFC
      BY DEF GroupRules
    <2>1. GroupsRead /\ ListsRead /\ TextTyped
      BY DEF ParserInv
    <2>2. \A who : KeptFor(who) = {i \in RulesFor(who) : text[i].k = "disallow" /\ text[i].v # <<>>}
      BY <2>1, SameGroups
    <2>3. CASE Named("own")
      <3>1. Disallow = own /\ Group = "token"
        BY <2>1, <2>3 DEF GroupsRead, Disallow, Group
      <3>2. Lists(text, own, {i \in RulesFor("own") : text[i].k = "disallow" /\ text[i].v # <<>>})
        BY <2>1, <2>2 DEF ListsRead
      <3> QED
        BY <2>1, <2>3, <3>1, <3>2 DEF ListsRead, Lists, OurRules, GroupsFollowRFC
    <2>4. CASE ~Named("own")
      <3>1. Disallow = star /\ Group = IF Named("star") THEN "*" ELSE "null"
        BY <2>1, <2>4 DEF GroupsRead, Disallow, Group
      <3>2. Lists(text, star, {i \in RulesFor("star") : text[i].k = "disallow" /\ text[i].v # <<>>})
        BY <2>1, <2>2 DEF ListsRead
      <3> QED
        BY <2>1, <2>4, <3>1, <3>2 DEF ListsRead, Lists, OurRules, GroupsFollowRFC
    <2> QED
      BY <2>3, <2>4
  <1> QED
    BY <1>1, ParserInvariant, PTL

-----------------------------------------------------------------------------
(* A plain value matches what begins with it, and there the pathname is what *)
(* the address was.                                                          *)

LEMMA LeastOf ==
  ASSUME NEW T, T \subseteq Nat, T # {}
  PROVE  \E x \in T : \A y \in T : x <= y
  <1> DEFINE R == {ss \in Nat \X Nat : ss[1] < ss[2]}
  <1>1. IsWellFoundedOn(R, Nat)
    BY NatLessThanWellFounded DEF OpToRel
  <1>2. PICK x \in T : \A y \in T : ~(<<y, x>> \in R)
    <2> HIDE DEF R
    <2> QED BY <1>1, WFMin
  <1>3. ASSUME NEW y \in T PROVE x <= y
    <2>1. x \in Nat /\ y \in Nat /\ <<y, x>> \notin R
      BY <1>2
    <2>2. <<y, x>> \in R <=> y < x
      BY <2>1
    <2> QED
      BY <2>1, <2>2
  <1> QED
    BY <1>3

LEMMA PlainPrefix ==
  ASSUME NEW u \in Addresses, NEW v \in Values, IsPlain(v), Matches(u, v)
  PROVE  Len(v) <= Len(u) /\ \A i \in 1..Len(v) : Canon[u[i]] = v[i]
  <1>1. Len(v) \in Nat /\ DOMAIN v = 1..Len(v) /\ Len(u) \in Nat /\ DOMAIN u = 1..Len(u)
    BY RobotsAssumption, LenProperties
  <1>2. PICK f \in [0..Len(v) -> 0..Len(u)] :
          /\ f[0] = 0
          /\ \A i \in DOMAIN v :
               CASE v[i] = "*" -> f[i - 1] <= f[i]
                 [] v[i] = "$" /\ i = Len(v) -> f[i - 1] = Len(u) /\ f[i] = Len(u)
                 [] OTHER -> f[i] = f[i - 1] + 1 /\ Canon[u[f[i]]] = Canon[v[i]]
    BY DEF Matches
  <1>3. \A i \in 1..Len(v) : f[i] = f[i - 1] + 1 /\ Canon[u[f[i]]] = v[i]
    BY <1>1, <1>2 DEF IsPlain, Special
  <1>4. \A i \in 0..Len(v) : f[i] = i
    <2> DEFINE T == {i \in 0..Len(v) : f[i] # i}
    <2> SUFFICES ASSUME T # {} PROVE FALSE
      OBVIOUS
    <2>1. T \subseteq Nat
      BY <1>1
    <2>2. PICK x \in T : \A y \in T : x <= y
      <3> HIDE DEF T
      <3> QED
        BY <2>1, LeastOf
    <2>3. x \in 1..Len(v)
      BY <1>1, <1>2
    <2>4. x - 1 \in 0..Len(v) /\ ~(x <= x - 1)
      BY <1>1, <2>3
    <2>5. f[x - 1] = x - 1
      BY <2>2, <2>4
    <2> QED
      BY <1>3, <2>3, <2>5
  <1>5. Len(v) <= Len(u)
    <2>1. Len(v) \in 0..Len(v) /\ f[Len(v)] \in 0..Len(u)
      BY <1>1
    <2> QED
      BY <1>1, <1>4, <2>1
  <1> QED
    BY <1>1, <1>3, <1>4, <1>5

LEMMA PlainMatch ==
  ASSUME NEW u \in Addresses, NEW v \in Values, IsPlain(v), IsCanonical(u), Matches(u, v)
  PROVE  StartsWith(Pathname(u), v)
  <1>1. /\ Len(v) \in Nat /\ DOMAIN v = 1..Len(v) /\ Len(u) \in Nat /\ DOMAIN u = 1..Len(u)
        /\ v = [i \in 1..Len(v) |-> v[i]] /\ \A i \in 1..Len(u) : u[i] \in Tokens
    BY RobotsAssumption, LenProperties, ElementOfSeq
  <1>2. Len(v) <= Len(u) /\ \A i \in 1..Len(v) : Canon[u[i]] = v[i]
    BY PlainPrefix
  <1>3. \A i \in 1..Len(v) : i \in 1..Len(u) /\ Parsed[u[i]] = v[i]
    BY <1>1, <1>2 DEF IsCanonical
  <1>4. \A i \in 1..Len(v) : u[i] # "?"
    <2> SUFFICES ASSUME NEW i \in 1..Len(v) PROVE u[i] # "?"
      OBVIOUS
    <2>1. v[i] # "?" /\ Canon[u[i]] = v[i] /\ u[i] \in Tokens
      BY <1>1, <1>2, <1>3 DEF IsPlain, Special
    <2> QED
      BY <2>1, RobotsAssumption DEF Special
  <1> DEFINE N == {n \in DOMAIN u : \A i \in 1..n : u[i] # "?"}
  <1>5. PathEnd(u) = Cardinality(N)
    BY DEF PathEnd
  <1>6. 1..Len(v) \subseteq N
    BY <1>1, <1>2, <1>4
  <1>7. N \subseteq 1..Len(u)
    BY <1>1
  <1> HIDE DEF N
  <1>8. PathEnd(u) \in Nat /\ Len(v) <= PathEnd(u)
    <2>0. Len(v) \in Int /\ Len(u) \in Int /\ 1 \in Int
      BY <1>1
    <2>1. IsFiniteSet(1..Len(u)) /\ Cardinality(1..Len(v)) = IF 1 > Len(v) THEN 0 ELSE Len(v) - 1 + 1
      BY <2>0, FS_Interval, Zenon
    <2>2. IsFiniteSet(N) /\ Cardinality(N) \in Nat
      BY <1>7, <2>1, FS_Subset, FS_CardinalityType
    <2>3. Cardinality(1..Len(v)) <= Cardinality(N)
      BY <1>6, <2>2, FS_Subset
    <2> QED
      BY <1>1, <1>5, <2>1, <2>2, <2>3
  <1> DEFINE p == Pathname(u)
  <1>9. p = [i \in 1..PathEnd(u) |-> Parsed[u[i]]]
    BY DEF Pathname
  <1> HIDE DEF p
  <1>10. p \in Seq({p[i] : i \in 1..PathEnd(u)}) /\ Len(p) = PathEnd(u)
    <2>1. p \in [1..PathEnd(u) -> {p[i] : i \in 1..PathEnd(u)}]
      BY <1>9
    <2> QED
      BY <1>8, <1>9, <2>1
  <1>11. SubSeq(p, 1, Len(v)) = [i \in 1..Len(v) |-> p[i]]
    BY <1>1, <1>8, <1>10, SubSeqProperties
  <1>12. \A i \in 1..Len(v) : p[i] = v[i]
    BY <1>1, <1>3, <1>8, <1>9
  <1>13. SubSeq(p, 1, Len(v)) = v
    BY <1>1, <1>11, <1>12
  <1> QED
    BY <1>8, <1>10, <1>13 DEF StartsWith, p

\* What a plain rule of ours refuses is not visited, whatever wildcards, queries, encodings
\* and allow lines the other rules hold (parseRobots and makeRobotsBlocker's prefixes of the
\* pathname).  For the other rules it does not hold.
THEOREM PlainRulesObeyed == Spec => []PlainStaysAway
  <1>1. TextTyped /\ GroupRules => PlainStaysAway
    <2> SUFFICES ASSUME TextTyped, GroupRules, Uninterrupted, NEW i \in OurRules, NEW u \in Addresses,
                        IsPlain(text[i].v), IsCanonical(u), Refuses(u, i)
                 PROVE  Blocks(u)
      BY DEF PlainStaysAway
    <2> DEFINE ours == {j \in OurRules : text[j].k = "disallow" /\ text[j].v # <<>>}
               upto(k) == {j \in ours : j <= k}
    <2>1. i \in ours /\ Matches(u, text[i].v)
      BY DEF Refuses
    <2>2. Len(Disallow) = Cardinality(ours) /\ Disallow[Cardinality(upto(i))] = text[i].v
      BY <2>1 DEF GroupRules, GroupsFollowRFC
    <2>3. /\ Len(text) \in Nat /\ DOMAIN text = 1..Len(text) /\ \A j \in DOMAIN text : text[j] \in Lines
          /\ Disallow \in Seq(Values)
      BY LenProperties, ElementOfSeq DEF TextTyped, Disallow
    <2>4. ours \subseteq 1..Len(text) /\ i \in 1..Len(text)
      BY <2>1, <2>3 DEF OurRules, RulesFor
    <2>5. text[i].v \in Values
      <3>1. text[i] \in Lines /\ text[i].k = "disallow" /\ text[i].v # <<>>
        BY <2>1, <2>3, <2>4
      <3> QED
        BY <3>1 DEF Lines, Agents, Rules
    <2>6. StartsWith(Pathname(u), text[i].v)
      BY <2>1, <2>5, PlainMatch
    <2>7. i \in upto(i) /\ upto(i) \subseteq ours
      BY <2>1, <2>4
    <2> HIDE DEF ours, upto
    <2>8. IsFiniteSet(ours) /\ Cardinality(ours) \in Nat
      <3>1. IsFiniteSet(1..Len(text))
        BY <2>3, FS_Interval
      <3> QED
        BY <2>4, <3>1, FS_Subset, FS_CardinalityType
    <2>9. IsFiniteSet(upto(i)) /\ Cardinality(upto(i)) \in Nat /\ Cardinality(upto(i)) <= Cardinality(ours)
      BY <2>7, <2>8, FS_Subset, FS_CardinalityType
    <2>10. Cardinality(upto(i)) # 0
      BY <2>7, <2>9, FS_EmptySet
    <2>11. Cardinality(upto(i)) \in DOMAIN Disallow
      BY <2>2, <2>3, <2>8, <2>9, <2>10, LenProperties
    <2> QED
      BY <2>2, <2>6, <2>11 DEF Blocks
  <1>2. ParserInv => TextTyped
    BY DEF ParserInv
  <1> QED
    BY <1>1, <1>2, RulesAreOurs, ParserInvariant, PTL
=============================================================================
