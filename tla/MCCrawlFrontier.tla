-------------------------- MODULE MCCrawlFrontier --------------------------
(* Three small sites for the crawl: one with deep navigation, one that     *)
(* redirects, one with query variants under a rate limit.                  *)
EXTENDS CrawlFrontier

MCUrls == 1..9

Page1(u)     == {[kind |-> "html", final |-> u, settled |-> u]}
Limited(u)   == {[kind |-> "429", final |-> u, settled |-> u]}
Redirect(u)  == {[kind |-> "html", final |-> u, settled |-> u]}   \* by HTTP
Script(f, s) == {[kind |-> "html", final |-> f, settled |-> s]}
Pdf(u)       == {[kind |-> "other", final |-> u, settled |-> u]}
Nav(u)  == [to |-> u, tier |-> 0]
Body(u) == [to |-> u, tier |-> 1]

Plain ==
  [sitemap |-> <<>>, answers |-> [u \in MCUrls |-> Page1(u)], links |-> [u \in MCUrls |-> <<>>],
   path |-> [u \in MCUrls |-> NoPath],
   offsite |-> {}, excluded |-> {}, disallowed |-> {}, unsafe |-> {}]

\* Much navigation, body links and a sitemap; 4 is found in all three places.
Broad ==
  [Plain EXCEPT !.sitemap = <<4, 1, 9, 8>>,
     !.links[1] = <<Body(7), Nav(2), Nav(3), Body(6), Body(4), Nav(5)>>,
     !.links[2] = <<Nav(4), Nav(1), Body(6)>>,
     !.links[3] = <<Body(9), Body(5), Nav(7)>>,
     !.unsafe = {8}, !.disallowed = {5}]

\* 2 and 3 redirect to 4 by script, 5 by HTTP; 6 leaves the site, 7 is excluded.
Redirecting ==
  [Plain EXCEPT !.sitemap = <<5, 6>>,
     !.answers[2] = Script(2, 4) \cup Script(2, 6), !.answers[3] = Script(3, 4) \cup Script(7, 7),
     !.answers[5] = Redirect(4) \cup Redirect(6), !.answers[8] = Script(8, 7),
     !.links[1] = <<Nav(2), Body(3), Body(4), Nav(7)>>,
     !.links[4] = <<Body(8), Nav(5), Nav(3)>>,
     !.offsite = {6}, !.excluded = {7}]

\* 2, 3 and 4 are variants of one path; 2, 3 and 5 answer 429 now and then.
Limiting ==
  [Plain EXCEPT !.sitemap = <<5, 4>>,
     !.answers[2] = @ \cup Limited(2), !.answers[3] = @ \cup Limited(3),
     !.answers[5] = @ \cup Limited(5) \cup Pdf(5),
     !.links[1] = <<Body(2), Nav(3)>>, !.links[3] = <<Nav(2), Nav(5), Nav(4)>>,
     !.path[2] = "p", !.path[3] = "p", !.path[4] = "p"]

MCWebs == {Broad, Redirecting, Limiting}
=============================================================================
