------------------------------- MODULE MCShared --------------------------------
(* The structures every handler shares, each behind a lock of its own that is  *)
(* not held while a handler waits: the rate limiter, the guards on egress, the *)
(* crawler verifier's cache, the wait page's cache and the activity log.  They *)
(* share nothing with each other, so they are checked side by side: part says  *)
(* which of them a behaviour moves, and the others stay as they began.         *)
EXTENDS Limiter, Egress, CrawlerCache, PageCache, ActivityLog, TLC

CONSTANTS k1, k2, k3, r1, r2, r3, a1, a2, b1, header

\* Of the crawler's requests two come from one address and one from its
\* neighbour in the /64.
MCFrom == [r \in Req |-> IF r = r3 THEN a2 ELSE a1]
MCBlockOf == [a \in Addr |-> b1]

Alike == Permutations({k1, k2, k3}) \cup Permutations({r1, r2})

VARIABLE part

MCvars == <<part, vars, egressVars, crawlerVars, pageVars, activityVars>>

MCInit ==
  /\ part \in {"limiter", "egress", "crawlers", "pages", "activity"}
  /\ Init /\ EgressInit /\ ActivityInit
  /\ CrawlerInit /\ (part # "crawlers" => \A a \in Addr : ~ dns[a])
  /\ PageInit /\ (part # "pages" => \A p \in Page : file[p].form = "gone")

OnlyPart(p) ==
  /\ part = p /\ UNCHANGED part
  /\ p # "limiter" => UNCHANGED vars
  /\ p # "egress" => UNCHANGED egressVars
  /\ p # "crawlers" => UNCHANGED crawlerVars
  /\ p # "pages" => UNCHANGED pageVars
  /\ p # "activity" => UNCHANGED activityVars

MCNext ==
  \/ OnlyPart("limiter") /\ Next
  \/ OnlyPart("egress") /\ EgressNext
  \/ OnlyPart("crawlers") /\ CrawlerNext
  \/ OnlyPart("pages") /\ PageNext
  \/ OnlyPart("activity") /\ ActivityNext

MCSpec == MCInit /\ [][MCNext]_MCvars
================================================================================
