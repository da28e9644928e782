------------------------------ MODULE Robots -------------------------------
(***************************************************************************)
(* The reading of a robots.txt (capture/robots.mjs, parseRobots), line by  *)
(* line, and the check of an address against what was read                 *)
(* (makeRobotsBlocker), with RFC 9309, which the code says it follows, as  *)
(* reference.  A line stands for what is left of it without byte order     *)
(* mark, comment and blanks; an agent line for whom it names: our token,   *)
(* everybody (`*`) or another crawler.  A rule's value, and what follows   *)
(* the host in an address, are sequences of tokens, among them the special *)
(* "*", "$" and the "?" that begins a query.  Every text is the beginning  *)
(* of a longer one, so the parser is followed from line to line and its    *)
(* result compared after each.                                             *)
(***************************************************************************)
EXTENDS Naturals, Sequences, FiniteSets

CONSTANTS
  Tokens,      \* what values and addresses are made of
  Parsed,      \* what the URL parser makes of a token of a path: an accented letter becomes `%C3%A9`
  Canon,       \* the form in which RFC 9309, 2.2.2 compares it: so does it, and `%61` becomes `a`
  Values,      \* values of disallow and allow lines, besides the empty one
  Addresses,   \* addresses to visit
  MaxLines     \* bound on the text

Special == {"*", "$", "?"}

ASSUME RobotsAssumption ==
  /\ Values \subseteq Seq(Tokens) /\ Addresses \subseteq Seq(Tokens)
  /\ Parsed \in [Tokens -> Tokens] /\ Canon \in [Tokens -> Tokens]
  /\ \A t \in Tokens : \A c \in Special : (Parsed[t] = c <=> t = c) /\ (Canon[t] = c <=> t = c)

Agents == {[k |-> "agent", v |-> who] : who \in {"own", "star", "other"}}
Rules  == [k : {"disallow", "allow"}, v : Values \cup {<<>>}]
Lines  == Agents \cup Rules \cup {[k |-> k, v |-> <<>>] : k \in {"crawl-delay", "sitemap", "unknown"}}

VARIABLES
  text,                     \* history: the lines read
  own, star, sitemaps,      \* what the rules of the two groups and the sitemaps are so far
  ownSeen, starSeen,
  forOwn, forStar,          \* whom the group being read addresses
  inAgentLines

groupVars == <<ownSeen, starSeen, forOwn, forStar, inAgentLines>>
vars      == <<text, own, star, sitemaps, groupVars>>

Init ==
  /\ text = <<>> /\ own = <<>> /\ star = <<>> /\ sitemaps = 0
  /\ ownSeen = FALSE /\ starSeen = FALSE /\ forOwn = FALSE /\ forStar = FALSE
  /\ inAgentLines = FALSE

\* Mutant: every agent line starts a group.
WidenNever(mine, who) == who = mine

\* After another agent line one widens the group, after a rule it starts a new one.
Widen(mine, who) ==
  who = mine \/ (inAgentLines /\ IF mine = "own" THEN forOwn ELSE forStar)

AgentLine(l) ==
  /\ l.k = "agent"
  /\ forOwn' = Widen("own", l.v) /\ forStar' = Widen("star", l.v)
  /\ ownSeen' = (ownSeen \/ l.v = "own") /\ starSeen' = (starSeen \/ l.v = "star")
  /\ inAgentLines' = TRUE
  /\ UNCHANGED <<own, star, sitemaps>>

RuleLine(l) ==
  /\ l.k \in {"disallow", "allow", "crawl-delay"}
  /\ inAgentLines' = FALSE
  /\ LET counts == l.k = "disallow" /\ l.v # <<>> IN
     /\ own'  = IF counts /\ forOwn  THEN Append(own, l.v)  ELSE own
     /\ star' = IF counts /\ forStar THEN Append(star, l.v) ELSE star
  /\ UNCHANGED <<sitemaps, ownSeen, starSeen, forOwn, forStar>>

\* Sitemaps belong to no group and, like unknown lines, end none.
OtherLine(l) ==
  /\ l.k \in {"sitemap", "unknown"}
  /\ sitemaps' = IF l.k = "sitemap" THEN sitemaps + 1 ELSE sitemaps
  /\ UNCHANGED <<own, star, groupVars>>

ReadLine ==
  /\ Len(text) < MaxLines
  /\ \E l \in Lines :
       /\ text' = Append(text, l)
       /\ AgentLine(l) \/ RuleLine(l) \/ OtherLine(l)

Spec == Init /\ [][ReadLine]_vars

\* The result, were the text to end here.
Disallow == IF ownSeen THEN own ELSE star
Group    == IF ownSeen THEN "token" ELSE IF starSeen THEN "*" ELSE "null"

\* Mutant: a rule does not cover the very path it names.
StartsStrictly(p, v) == Len(v) < Len(p) /\ SubSeq(p, 1, Len(v)) = v

StartsWith(p, v) == Len(v) <= Len(p) /\ SubSeq(p, 1, Len(v)) = v

\* `new URL(u).pathname`: encoded, and without the query.
PathEnd(u)  == Cardinality({n \in DOMAIN u : \A i \in 1..n : u[i] # "?"})
Pathname(u) == [i \in 1..PathEnd(u) |-> Parsed[u[i]]]

\* The value is compared as it was written.
Blocks(u) == \E i \in DOMAIN Disallow : StartsWith(Pathname(u), Disallow[i])

-----------------------------------------------------------------------------
(* The reference *)

\* RFC 9309, 2.2.4: no other record ends a group, crawl-delay included.
IsRule(i) == text[i].k \in {"disallow", "allow"}

\* The rule of line i is for whom the agent line b names: nobody begins another group
\* between them.
Governs(b, i) ==
  /\ b < i /\ text[b].k = "agent" /\ IsRule(i)
  /\ ~ \E r, a \in (b + 1)..(i - 1) : r < a /\ IsRule(r) /\ text[a].k = "agent"

Named(who) == \E b \in DOMAIN text : text[b].k = "agent" /\ text[b].v = who
RulesFor(who) == {i \in DOMAIN text : \E b \in DOMAIN text : text[b].v = who /\ Governs(b, i)}
OurRules == IF Named("own") THEN RulesFor("own") ELSE RulesFor("star")

\* "*" stands for any tokens, a final "$" for the end of the address, query included; the
\* others are compared in their canonical form.  f[i] is how far the first i tokens of the
\* value reach.
Matches(u, v) ==
  \E f \in [0..Len(v) -> 0..Len(u)] :
    /\ f[0] = 0
    /\ \A i \in DOMAIN v :
         CASE v[i] = "*" -> f[i - 1] <= f[i]
           [] v[i] = "$" /\ i = Len(v) -> f[i - 1] = Len(u) /\ f[i] = Len(u)
           [] OTHER -> f[i] = f[i - 1] + 1 /\ Canon[u[f[i]]] = Canon[v[i]]

\* Rule i refuses the address: the longest rule that matches decides, between equals an allow
\* line.  Length counts tokens.
Refuses(u, i) ==
  /\ text[i].k = "disallow" /\ text[i].v # <<>> /\ Matches(u, text[i].v)
  /\ ~ \E j \in OurRules : text[j].k = "allow" /\ Len(text[j].v) >= Len(text[i].v) /\ Matches(u, text[j].v)

-----------------------------------------------------------------------------
(* Properties *)

\* The result is what RFC 9309 selects: the disallow lines of the groups that name us, or of
\* `*` if none does, all of them and in their order, and every sitemap (robots.mjs: "Group
\* selection follows RFC 9309").  It is not: see Uninterrupted.
GroupsFollowRFC ==
  LET ours == {i \in OurRules : text[i].k = "disallow" /\ text[i].v # <<>>}
      rank(i) == Cardinality({j \in ours : j <= i})
  IN /\ Len(Disallow) = Cardinality(ours)
     /\ \A i \in ours : Disallow[rank(i)] = text[i].v
     /\ Group = IF Named("own") THEN "token" ELSE IF Named("star") THEN "*" ELSE "null"
     /\ sitemaps = Cardinality({i \in DOMAIN text : text[i].k = "sitemap"})

\* No crawl-delay line comes between the agent lines of one group.
Uninterrupted ==
  \A b, c, a \in DOMAIN text :
    b < c /\ c < a /\ text[b].k = "agent" /\ text[c].k = "crawl-delay" /\ text[a].k = "agent"
      => \E r \in (b + 1)..(a - 1) : IsRule(r)

\* However groups are declared, widened, repeated and mixed with other lines, the rules in
\* force are those RFC 9309 selects, as long as no crawl-delay splits a group (parseRobots:
\* "Several groups naming the same crawler are merged, and consecutive `User-agent` lines
\* share the rules that follow them").
GroupRules == Uninterrupted => GroupsFollowRFC

\* robots.mjs: "`Allow` and wildcards are not interpreted, which can only make the crawler
\* stay away from more than it had to": what the site refuses is not visited.  (No run lists
\* this: TLC refutes it by the rules and addresses that PlainStaysAway leaves out.)
StaysAway == \A u \in Addresses : (\E i \in OurRules : Refuses(u, i)) => Blocks(u)

\* A value that means what it says: a path without special tokens, in canonical form; and an
\* address the URL parser leaves in that form.
IsPlain(v)     == \A i \in DOMAIN v : v[i] \notin Special /\ Canon[v[i]] = v[i]
IsCanonical(u) == \A i \in DOMAIN u : Parsed[u[i]] = Canon[u[i]]

\* What a plain rule refuses is not visited, whatever other rules stand beside it and
\* whatever query the address carries (makeRobotsBlocker's prefixes keep the promise above
\* for these rules; the others are literals that no pathname begins with).
PlainStaysAway ==
  Uninterrupted =>
    \A i \in OurRules : \A u \in Addresses :
      IsPlain(text[i].v) /\ IsCanonical(u) /\ Refuses(u, i) => Blocks(u)
=============================================================================
