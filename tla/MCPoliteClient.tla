--------------------------- MODULE MCPoliteClient ---------------------------
(* Two hosts, the first with two pages, as law.com with its seven feeds.    *)
EXTENDS PoliteClient

CONSTANTS law, asia, feed, article, archive

MCOrigins == {law, asia}
MCPages == {feed, article, archive}
MCOriginOf == [p \in MCPages |-> IF p = archive THEN asia ELSE law]

\* One file that keeps the articles to itself and slows every agent down, one
\* that names this client.
MCFiles == {[allowed |-> {feed, archive}, own |-> None, star |-> 4],
            [allowed |-> MCPages, own |-> 1, star |-> 4]}

MCRedirectsTo == [o \in MCOrigins |-> IF o = law THEN {asia} ELSE {}]

-----------------------------------------------------------------------------
(* What comments and docs say and the code keeps only in part (README         *)
(* section 5).                                                              *)

\* "at least 10s between requests to the same origin" (client.py:8): of any two
\* requests the client makes, answered or not.
RequestsApart ==
  \A r, s \in requests : Before(r, s) => s.sent >= r.sent + MinInterval

\* "or the host's longer Crawl-delay" (client.py:9): robots.txt is no exception.
DelayAlways ==
  \A r, s \in requests : \A q \in readings :
    r.answered /\ Before(r, s) /\ InForce(q, s) => s.sent >= r.ended + q.policy.delay

\* "robots.txt consulted per origin" (client.py:7): a redirect leads to no host
\* whose robots.txt was not read.
HopsConsulted ==
  \A s \in requests : s.what = Redirected => \E q \in readings : InForce(q, s)
=============================================================================
