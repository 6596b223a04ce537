---------------------------- MODULE PoliteClient ----------------------------
(***************************************************************************)
(* tracker/net/client.py and tracker/net/robots.py: the one way a request  *)
(* leaves the tracker.  A process has one client and one thread, so a call *)
(* of fetch runs to its end before the next one; what makes it hard is     *)
(* that the client learns of a host only from the requests that succeed.   *)
(*                                                                         *)
(* The wall clock of the policies and the monotonic clock of the slots are *)
(* one clock here.  `requests` and `readings` are history: what the hosts  *)
(* saw, against what the client remembers.                                 *)
(***************************************************************************)
EXTENDS Integers

CONSTANTS
  Origins,      \* scheme and host
  Pages,        \* URLs a caller may ask for
  OriginOf,     \* [Pages -> Origins]
  Files,        \* the robots.txt a host may serve
  RedirectsTo,  \* [Origins -> SUBSET Origins], where its answers may lead
  MinInterval,  \* min_request_interval_seconds
  ROBOTS_TTL,
  Latencies,    \* how long a request takes, the time-out included
  MaxTime       \* bound on the time at which a call begins

None == -1
Robots == "robots.txt"
Redirected == "redirect"

\* A robots.txt as the client's agent reads it: the pages open to it, its own
\* Crawl-delay and the one of the wildcard agent, each of which may be absent.
File == [allowed : SUBSET Pages, own : Nat \cup {None}, star : Nat \cup {None}]

ASSUME ClientAssumption ==
  /\ OriginOf \in [Pages -> Origins]
  /\ {Robots, Redirected} \cap Pages = {}
  /\ Files \subseteq File
  /\ RedirectsTo \in [Origins -> SUBSET Origins]
  /\ MinInterval \in Nat \ {0}
  /\ ROBOTS_TTL \in Nat
  /\ Latencies \subseteq Nat \ {0}
  /\ MaxTime \in Nat

\* A policy just read is not stale: 24 hours against 10 and 20 seconds.
ASSUME TTLAssumption == \A latency \in Latencies : MinInterval + latency < ROBOTS_TTL

VARIABLES
  now,
  policy, policy_checked_at, last_request_at,   \* _OriginState of each origin
  pc,         \* where fetch is
  url,        \* its argument
  asked,      \* `now` in robots_policy, taken before the slot is waited for
  requests,   \* every request on the wire
  readings    \* every outcome of a request for robots.txt

memory == <<policy, policy_checked_at, last_request_at>>
vars == <<now, memory, pc, url, asked, requests, readings>>

Policy == [fetched : BOOLEAN, allowed : SUBSET Pages, delay : Nat]

Request == [origin : Origins, what : Pages \cup {Robots, Redirected},
            sent : Nat, ended : Nat, answered : BOOLEAN]

Reading == [origin : Origins, asked : Nat, at : Nat, policy : Policy]

Larger(a, b) == IF a >= b THEN a ELSE b

-----------------------------------------------------------------------------
(* Policies.                                                                *)

unavailable == [fetched |-> FALSE, allowed |-> {}, delay |-> 0]

parse(file) ==
  [fetched |-> TRUE, allowed |-> file.allowed,
   delay |-> Larger(IF file.own # None THEN file.own ELSE file.star, 0)]

\* 404: a genuine absence of restrictions.
NoFile == [allowed |-> Pages, own |-> None, star |-> None]

origin == OriginOf[url]

\* Mutant: a robots.txt that could not be read is asked for at the next call.
FreshIfRead(o) == policy[o].fetched /\ now - policy_checked_at[o] < ROBOTS_TTL

Fresh(o) == policy_checked_at[o] # None /\ now - policy_checked_at[o] < ROBOTS_TTL

\* Mutant: an unreadable robots.txt permits, as in the standard library.
AllowsUnread == url \in policy[origin].allowed \/ ~policy[origin].fetched

allows == policy[origin].fetched /\ url \in policy[origin].allowed

-----------------------------------------------------------------------------
(* Requests.                                                                *)

\* Mutant: the host's delay replaces the floor.
SlotByDelay(delay) ==
  IF last_request_at[origin] = None THEN now
  ELSE Larger(now, last_request_at[origin] + delay)

\* _wait_for_slot: when the request to this origin may leave.
Slot(delay) ==
  IF last_request_at[origin] = None THEN now
  ELSE Larger(now, last_request_at[origin] + Larger(MinInterval, delay))

Sent(o, what, sent, ended, answered) ==
  [origin |-> o, what |-> what, sent |-> sent, ended |-> ended, answered |-> answered]

\* One get of the HTTP client, which follows redirects by itself. When it raises,
\* the line that sets last_request_at is not reached.
Get(what, delay, answered) ==
  \E latency \in Latencies : \E hops \in SUBSET RedirectsTo[origin] :
    LET sent == Slot(delay)
        ended == sent + latency
    IN /\ now' = ended
       /\ requests' = requests \cup {Sent(origin, what, sent, ended, answered)}
                        \cup {Sent(o, Redirected, sent, ended, TRUE) : o \in hops}
       /\ last_request_at' =
            [last_request_at EXCEPT ![origin] = IF answered THEN ended ELSE @]

-----------------------------------------------------------------------------

Init ==
  /\ now = 0
  /\ policy = [o \in Origins |-> unavailable]
  /\ policy_checked_at = [o \in Origins |-> None]
  /\ last_request_at = [o \in Origins |-> None]
  /\ pc = "idle"
  /\ url \in Pages
  /\ asked = 0
  /\ requests = {}
  /\ readings = {}

\* The caller does something else.
Tick ==
  /\ pc = "idle"
  /\ now < MaxTime
  /\ now' = now + 1
  /\ UNCHANGED <<memory, pc, url, asked, requests, readings>>

Fetch(u) ==
  /\ pc = "idle"
  /\ now < MaxTime
  /\ url' = u
  /\ asked' = now
  /\ pc' = IF Fresh(OriginOf[u]) THEN "policy" ELSE "robots"
  /\ UNCHANGED <<now, memory, requests, readings>>

\* The request for robots.txt waits for the floor only.
AskRobots(learned, answered) ==
  /\ pc = "robots"
  /\ Get(Robots, 0, answered)
  /\ policy' = [policy EXCEPT ![origin] = learned]
  /\ policy_checked_at' = [policy_checked_at EXCEPT ![origin] = asked]
  /\ readings' = readings \cup
       {[origin |-> origin, asked |-> asked, at |-> now', policy |-> learned]}
  /\ pc' = "policy"
  /\ UNCHANGED <<url, asked>>

ReadRobots == \E file \in Files \cup {NoFile} : AskRobots(parse(file), TRUE)

RobotsRefused == AskRobots(unavailable, TRUE)

RobotsUnreachable == AskRobots(unavailable, FALSE)

\* RobotsDisallowed
Refuse ==
  /\ pc = "policy"
  /\ ~allows
  /\ pc' = "idle"
  /\ UNCHANGED <<now, memory, url, asked, requests, readings>>

GetPage(answered) ==
  /\ pc = "policy"
  /\ allows
  /\ Get(url, policy[origin].delay, answered)
  /\ pc' = "idle"
  /\ UNCHANGED <<policy, policy_checked_at, url, asked, readings>>

\* An answer of any status; raise_for_status changes nothing.
ReadPage == GetPage(TRUE)

PageUnreachable == GetPage(FALSE)

Next ==
  \/ Tick
  \/ \E u \in Pages : Fetch(u)
  \/ ReadRobots \/ RobotsRefused \/ RobotsUnreachable
  \/ Refuse \/ ReadPage \/ PageUnreachable

Spec == Init /\ [][Next]_vars

-----------------------------------------------------------------------------
(* Properties.                                                              *)

\* Types of all variables.
TypeOK ==
  /\ now \in Nat
  /\ policy \in [Origins -> Policy]
  /\ policy_checked_at \in [Origins -> Nat \cup {None}]
  /\ last_request_at \in [Origins -> Nat \cup {None}]
  /\ pc \in {"idle", "robots", "policy"}
  /\ url \in Pages
  /\ asked \in Nat
  /\ requests \in SUBSET Request
  /\ readings \in SUBSET Reading

\* The reading in force when a request left.
InForce(q, s) ==
  /\ q.origin = s.origin
  /\ q.at <= s.sent
  /\ \A p \in readings : p.origin = s.origin /\ p.at <= s.sent => p.at <= q.at

Before(r, s) ==
  /\ r.origin = s.origin
  /\ r.sent < s.sent
  /\ Redirected \notin {r.what, s.what}

\* After an answer of a host the next request to it waits for the floor, and one
\* for a page for the delay the host last declared (_wait_for_slot, 138-145).
Spaced ==
  \A r, s \in requests :
    r.answered /\ Before(r, s) =>
      /\ s.sent >= r.ended + MinInterval
      /\ \A q \in readings :
           InForce(q, s) /\ s.what \in Pages => s.sent >= r.ended + q.policy.delay

\* A page is asked for only under a robots.txt that was read, permits it, and was
\* no older than its lifetime when the wait for the slot began (fetch, 149-161).
Permitted ==
  \A s \in requests :
    s.what \in Pages =>
      \E q \in readings :
        /\ InForce(q, s)
        /\ q.policy.fetched
        /\ s.what \in q.policy.allowed
        /\ s.sent < q.asked + ROBOTS_TTL + Larger(MinInterval, q.policy.delay)

\* A host is asked for its robots.txt once in its lifetime, answered or not
\* (robots_policy, 102-136).
AskedOncePerTTL ==
  \A p, q \in readings :
    p.origin = q.origin /\ p # q => \/ q.asked >= p.asked + ROBOTS_TTL
                                    \/ p.asked >= q.asked + ROBOTS_TTL

-----------------------------------------------------------------------------
(* What the proofs add.                                                     *)

\* History lies in the past, and a call knows when it began.
TimesInv ==
  /\ \A s \in requests : s.sent < s.ended /\ s.ended <= now
  /\ \A q \in readings : q.asked < q.at /\ q.at <= now
  /\ pc = "robots" => asked = now /\ ~Fresh(origin)

\* The client remembers the last answer of each origin.
SlotInv ==
  \A r \in requests :
    r.answered /\ r.what # Redirected =>
      last_request_at[r.origin] # None /\ r.ended <= last_request_at[r.origin]

NowInv == \A o \in Origins : last_request_at[o] <= now

\* It remembers the last reading of each origin.
Newest(q) ==
  \A p \in readings :
    p.origin = q.origin => p = q \/ (p.at < q.at /\ p.asked < q.asked)

PolicyInv ==
  \A o \in Origins :
    IF policy_checked_at[o] = None THEN \A q \in readings : q.origin # o
    ELSE \E q \in readings :
           /\ q.origin = o
           /\ q.asked = policy_checked_at[o]
           /\ q.policy = policy[o]
           /\ Newest(q)

DecisionInv == pc = "policy" => Fresh(origin)

IInv ==
  /\ TypeOK /\ TimesInv /\ SlotInv /\ NowInv /\ PolicyInv /\ DecisionInv
  /\ Spaced /\ Permitted /\ AskedOncePerTTL
=============================================================================
