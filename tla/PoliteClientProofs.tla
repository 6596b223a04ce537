------------------------- MODULE PoliteClientProofs -------------------------
(***************************************************************************)
(* What the client of PoliteClient keeps for any hosts, policies, answers  *)
(* and latencies.  The invariant of the proofs is IInv: what the client    *)
(* remembers of a host is what the host last answered.                     *)
(***************************************************************************)
EXTENDS PoliteClient, TLAPS

USE DEF None, Robots, Redirected

LEMMA LargerBounds ==
  ASSUME NEW a \in Int, NEW b \in Int
  PROVE /\ Larger(a, b) \in Int
        /\ Larger(a, b) >= a
        /\ Larger(a, b) >= b
        /\ Larger(a, b) \in {a, b}
BY DEF Larger

LEMMA SlotAndLatency ==
  \A before, sent, ended, floor, limit \in Int :
    sent <= before + floor /\ floor + (ended - sent) < limit => ended - before < limit
OBVIOUS

LEMMA ParsedPolicy == \A file \in Files \cup {NoFile} : parse(file) \in Policy
BY ClientAssumption DEF parse, NoFile, File, Policy, Larger

LEMMA UnavailablePolicy == unavailable \in Policy
BY DEF unavailable, Policy

\* A request leaves when its slot has come, and not before it was asked for.
LEMMA SlotBounds ==
  ASSUME TypeOK, NEW delay \in Nat
  PROVE /\ Slot(delay) \in Nat
        /\ Slot(delay) >= now
        /\ last_request_at[origin] # None =>
             Slot(delay) >= last_request_at[origin] + Larger(MinInterval, delay)
        /\ last_request_at[origin] <= now => Slot(delay) <= now + Larger(MinInterval, delay)
<1>1. /\ origin \in Origins /\ now \in Nat /\ MinInterval \in Nat
      /\ last_request_at[origin] \in Nat \cup {None}
  BY ClientAssumption DEF TypeOK, origin
<1> QED
  BY <1>1 DEF Slot, Larger

-----------------------------------------------------------------------------
(* One get of the HTTP client, and what it leaves behind.                   *)

\* What is true after a get: time has passed, one request of the client and some
\* redirects are on the wire, and an answer has taken the slot.
Got(what, delay, answered, sent) ==
  /\ sent \in Nat
  /\ now' \in Nat
  /\ now <= sent
  /\ sent < now'
  /\ now' - sent \in Latencies
  /\ last_request_at[origin] # None =>
       sent >= last_request_at[origin] + Larger(MinInterval, delay)
  /\ last_request_at[origin] <= now => sent <= now + Larger(MinInterval, delay)
  /\ requests' \in SUBSET Request
  /\ requests \subseteq requests'
  /\ Sent(origin, what, sent, now', answered) \in requests'
  /\ \A s \in requests' \ requests :
       /\ s.sent = sent
       /\ s.ended = now'
       /\ s.what # Redirected => s = Sent(origin, what, sent, now', answered)
  /\ last_request_at' =
       [last_request_at EXCEPT ![origin] = IF answered THEN now' ELSE @]

LEMMA GetLeaves ==
  ASSUME TypeOK, NEW what \in Pages \cup {Robots}, NEW delay \in Nat,
         NEW answered \in BOOLEAN, Get(what, delay, answered)
  PROVE \E sent \in Nat : Got(what, delay, answered, sent)
<1> DEFINE sent == Slot(delay)
<1>1. /\ sent \in Nat
      /\ sent >= now
      /\ last_request_at[origin] # None =>
           sent >= last_request_at[origin] + Larger(MinInterval, delay)
      /\ last_request_at[origin] <= now => sent <= now + Larger(MinInterval, delay)
  BY SlotBounds
<1> HIDE DEF sent
<1>2. PICK latency \in Latencies, hops \in SUBSET RedirectsTo[origin] :
        /\ now' = sent + latency
        /\ requests' = requests \cup {Sent(origin, what, sent, sent + latency, answered)}
             \cup {Sent(o, Redirected, sent, sent + latency, TRUE) : o \in hops}
        /\ last_request_at' =
             [last_request_at EXCEPT ![origin] = IF answered THEN sent + latency ELSE @]
  BY DEF Get, sent
<1>3. /\ latency \in Nat /\ latency > 0
      /\ origin \in Origins /\ hops \subseteq Origins
      /\ now \in Nat /\ requests \subseteq Request
  BY ClientAssumption DEF TypeOK, origin
<1>4. \A o \in Origins, w \in Pages \cup {Robots, Redirected}, a \in BOOLEAN :
        Sent(o, w, sent, sent + latency, a) \in Request
  BY <1>1, <1>3 DEF Sent, Request
<1>5. requests' \in SUBSET Request
  BY <1>2, <1>3, <1>4
<1>6. \A s \in requests' \ requests :
        /\ s.sent = sent
        /\ s.ended = now'
        /\ s.what # Redirected => s = Sent(origin, what, sent, now', answered)
  BY <1>2 DEF Sent
<1>7. now' \in Nat /\ sent < now' /\ now' - sent = latency
  BY <1>1, <1>2, <1>3
<1>8. Sent(origin, what, sent, now', answered) \in requests' /\ requests \subseteq requests'
  BY <1>2
<1>9. last_request_at' =
        [last_request_at EXCEPT ![origin] = IF answered THEN now' ELSE @]
  BY <1>2
<1>10. Got(what, delay, answered, sent)
  BY <1>1, <1>5, <1>6, <1>7, <1>8, <1>9 DEF Got
<1> QED
  BY <1>1, <1>10

-----------------------------------------------------------------------------

\* Every variable keeps its type.
THEOREM TypeCorrect == Spec => []TypeOK
<1>1. Init => TypeOK
  BY ClientAssumption, UnavailablePolicy DEF Init, TypeOK
<1>2. TypeOK /\ [Next]_vars => TypeOK'
  <2> SUFFICES ASSUME TypeOK, [Next]_vars PROVE TypeOK'
    OBVIOUS
  <2> origin \in Origins
    BY ClientAssumption DEF TypeOK, origin
  <2>1. CASE Tick
    BY <2>1 DEF Tick, TypeOK, memory
  <2>2. CASE \E u \in Pages : Fetch(u)
    BY <2>2 DEF Fetch, TypeOK, memory
  <2>3. ASSUME NEW learned \in Policy, NEW answered \in BOOLEAN, AskRobots(learned, answered)
        PROVE TypeOK'
    <3>1. Get(Robots, 0, answered)
      BY <2>3 DEF AskRobots
    <3>2. PICK sent \in Nat : Got(Robots, 0, answered, sent)
      BY <3>1, GetLeaves
    <3>3. /\ now' \in Nat
          /\ requests' \in SUBSET Request
          /\ last_request_at' \in [Origins -> Nat \cup {None}]
      BY <3>2 DEF Got, TypeOK
    <3>4. /\ readings' \in SUBSET Reading
          /\ policy' \in [Origins -> Policy]
          /\ policy_checked_at' \in [Origins -> Nat \cup {None}]
      BY <2>3, <3>3 DEF AskRobots, Reading, TypeOK
    <3> QED
      BY <2>3, <3>3, <3>4 DEF AskRobots, TypeOK
  <2>4. CASE Refuse
    BY <2>4 DEF Refuse, TypeOK, memory
  <2>5. ASSUME NEW answered \in BOOLEAN, GetPage(answered)
        PROVE TypeOK'
    <3>1. policy[origin].delay \in Nat /\ url \in Pages
      BY DEF TypeOK, Policy
    <3>2. Get(url, policy[origin].delay, answered)
      BY <2>5 DEF GetPage
    <3>3. PICK sent \in Nat : Got(url, policy[origin].delay, answered, sent)
      BY <3>1, <3>2, GetLeaves
    <3>4. /\ now' \in Nat
          /\ requests' \in SUBSET Request
          /\ last_request_at' \in [Origins -> Nat \cup {None}]
      BY <3>3 DEF Got, TypeOK
    <3> QED
      BY <2>5, <3>4 DEF GetPage, TypeOK
  <2>6. CASE UNCHANGED vars
    BY <2>6 DEF vars, memory, TypeOK
  <2> QED
    BY <2>1, <2>2, <2>3, <2>4, <2>5, <2>6, ParsedPolicy, UnavailablePolicy
       DEF Next, ReadRobots, RobotsRefused, RobotsUnreachable, ReadPage, PageUnreachable
<1> QED
  BY <1>1, <1>2, PTL DEF Spec

-----------------------------------------------------------------------------
(* A get keeps what is known of the history.                                *)

\* In any two requests of the client to one host the later one is the one just
\* made, or both were there before.
LEMMA GetSpaces ==
  ASSUME TypeOK, TimesInv, SlotInv,
         NEW what \in Pages \cup {Robots}, NEW delay \in Nat, NEW answered \in BOOLEAN,
         NEW sent \in Nat, Got(what, delay, answered, sent),
         NEW r \in requests', NEW s \in requests', r.answered, Before(r, s)
  PROVE /\ r \in requests
        /\ s \notin requests =>
             /\ s = Sent(origin, what, sent, now', answered)
             /\ s.sent >= r.ended + Larger(MinInterval, delay)
<1>1. /\ now \in Nat /\ now' \in Nat /\ now <= sent /\ requests' \subseteq Request
      /\ \A t \in requests' \ requests :
           /\ t.sent = sent
           /\ t.what # Redirected => t = Sent(origin, what, sent, now', answered)
  BY DEF Got, TypeOK
<1>2. \A t \in requests : t.sent < now
  BY <1>1 DEF TimesInv, TypeOK, Request
<1>3. r \in requests
  BY <1>1, <1>2 DEF Before, Request
<1>4. ASSUME s \notin requests
      PROVE  /\ s = Sent(origin, what, sent, now', answered)
             /\ s.sent >= r.ended + Larger(MinInterval, delay)
  <2>1. s = Sent(origin, what, sent, now', answered)
    BY <1>1, <1>4 DEF Before
  <2>2. r.origin = origin /\ r.what # Redirected
    BY <2>1 DEF Before, Sent
  <2>3. last_request_at[origin] # None /\ r.ended <= last_request_at[origin]
    BY <1>3, <2>2 DEF SlotInv
  <2>4. sent >= last_request_at[origin] + Larger(MinInterval, delay)
    BY <2>3 DEF Got
  <2>5. last_request_at[origin] \in Int
    BY ClientAssumption DEF TypeOK, origin
  <2>6. r.ended \in Int
    BY <1>1 DEF Request
  <2>7. Larger(MinInterval, delay) \in Int
    BY ClientAssumption, LargerBounds
  <2> QED
    BY <2>1, <2>3, <2>4, <2>5, <2>6, <2>7 DEF Sent
<1> QED
  BY <1>3, <1>4

LEMMA GetKeepsMemory ==
  ASSUME TypeOK, TimesInv, SlotInv, NowInv,
         NEW what \in Pages \cup {Robots}, NEW delay \in Nat, NEW answered \in BOOLEAN,
         NEW sent \in Nat, Got(what, delay, answered, sent)
  PROVE /\ SlotInv'
        /\ NowInv'
        /\ \A s \in requests' : s.sent < s.ended /\ s.ended <= now'
<1>1. /\ now \in Nat /\ now' \in Nat /\ now <= sent /\ sent < now'
      /\ requests \subseteq Request
      /\ last_request_at' =
           [last_request_at EXCEPT ![origin] = IF answered THEN now' ELSE @]
      /\ last_request_at \in [Origins -> Nat \cup {None}]
      /\ origin \in Origins
  BY ClientAssumption DEF Got, TypeOK, origin
<1>2. \A s \in requests' \ requests :
        /\ s.sent = sent
        /\ s.ended = now'
        /\ s.what # Redirected => s.origin = origin /\ s.answered = answered
  BY DEF Got, Sent
<1>3. \A s \in requests' : s.sent < s.ended /\ s.ended <= now'
  BY <1>1, <1>2 DEF TimesInv, Request
<1>4. NowInv'
  BY <1>1 DEF NowInv
<1>5. SlotInv'
  <2> SUFFICES ASSUME NEW r \in requests', r.answered, r.what # Redirected
               PROVE  /\ last_request_at'[r.origin] # None
                      /\ r.ended <= last_request_at'[r.origin]
    BY DEF SlotInv
  <2>1. CASE r \notin requests
    BY <1>1, <1>2, <2>1
  <2>2. CASE r \in requests
    <3>1. /\ r.origin \in Origins /\ r.ended \in Nat
          /\ r.ended <= now
          /\ last_request_at[r.origin] # None
          /\ r.ended <= last_request_at[r.origin]
      BY <1>1, <2>2 DEF SlotInv, TimesInv, Request
    <3> QED
      BY <1>1, <3>1
  <2> QED
    BY <2>1, <2>2
<1> QED
  BY <1>3, <1>4, <1>5

-----------------------------------------------------------------------------
(* The two requests.                                                        *)

LEMMA AskRobotsStep ==
  ASSUME IInv, TypeOK', NEW learned \in Policy, NEW answered \in BOOLEAN,
         AskRobots(learned, answered)
  PROVE IInv'
<1> PICK new : new = [origin |-> origin, asked |-> asked, at |-> now', policy |-> learned]
  OBVIOUS
<1> USE DEF IInv
<1>1. PICK sent \in Nat : Got(Robots, 0, answered, sent)
  BY GetLeaves DEF AskRobots
<1>2. /\ pc = "robots" /\ pc' = "policy" /\ asked' = asked /\ url' = url
      /\ origin' = origin
      /\ policy' = [policy EXCEPT ![origin] = learned]
      /\ policy_checked_at' = [policy_checked_at EXCEPT ![origin] = asked]
      /\ readings' = readings \cup {new}
  BY DEF AskRobots, origin
<1>3. /\ asked = now /\ ~Fresh(origin)
      /\ \A q \in readings : q.asked < q.at /\ q.at <= now
      /\ \A s \in requests : s.sent < s.ended /\ s.ended <= now
  BY <1>2 DEF TimesInv
<1>4. /\ now \in Nat /\ now' \in Nat /\ sent < now' /\ now <= sent
      /\ requests \subseteq Request /\ requests' \subseteq Request
      /\ readings \subseteq Reading
      /\ policy \in [Origins -> Policy]
      /\ policy_checked_at \in [Origins -> Nat \cup {None}]
      /\ origin \in Origins
  BY <1>1, ClientAssumption DEF Got, TypeOK, origin
<1>5. SlotInv' /\ NowInv' /\ \A s \in requests' : s.sent < s.ended /\ s.ended <= now'
  BY <1>1, GetKeepsMemory
<1>6. /\ new.origin = origin /\ new.asked = now /\ new.at = now' /\ new.policy = learned
      /\ \A q \in readings : q.at \in Nat /\ q.asked \in Nat /\ q.at < new.at /\ q.asked < new.asked
  BY <1>3, <1>4 DEF Reading
<1>7. TimesInv'
  BY <1>2, <1>3, <1>4, <1>5, <1>6 DEF TimesInv
<1>8. \A s \in requests' \ requests : s.what \notin Pages
  <2>1. \A s \in requests' \ requests :
          s.what # Redirected => s = Sent(origin, Robots, sent, now', answered)
    BY <1>1 DEF Got
  <2> QED
    BY <2>1, ClientAssumption DEF Sent
<1>9. \A s \in requests : s.sent \in Nat /\ s.sent < now'
  BY <1>3, <1>4 DEF Request
<1>10. \A s \in requests : \A q \in readings' : InForce(q, s)' <=> q \in readings /\ InForce(q, s)
  BY <1>2, <1>4, <1>6, <1>9 DEF InForce
<1>11. Spaced'
  <2> SUFFICES ASSUME NEW r \in requests', NEW s \in requests', r.answered, Before(r, s)
               PROVE  /\ s.sent >= r.ended + MinInterval
                      /\ \A q \in readings' :
                           InForce(q, s)' /\ s.what \in Pages => s.sent >= r.ended + q.policy.delay
    BY DEF Spaced, Before
  <2>1. /\ r \in requests
        /\ s \notin requests => s.sent >= r.ended + Larger(MinInterval, 0)
    BY <1>1, GetSpaces
  <2>2. Larger(MinInterval, 0) = MinInterval
    BY ClientAssumption DEF Larger
  <2>3. CASE s \in requests
    BY <1>10, <2>1, <2>3 DEF Spaced
  <2>4. CASE s \notin requests
    BY <1>8, <2>1, <2>2, <2>4
  <2> QED
    BY <2>3, <2>4
<1>12. Permitted'
  BY <1>2, <1>8, <1>10 DEF Permitted
<1>13. AskedOncePerTTL'
  <2>1. ASSUME NEW p \in readings, p.origin = origin PROVE new.asked >= p.asked + ROBOTS_TTL
    <3>1. policy_checked_at[origin] # None
      BY <1>4, <2>1 DEF PolicyInv
    <3>2. now >= policy_checked_at[origin] + ROBOTS_TTL
      BY <1>3, <1>4, <3>1, ClientAssumption DEF Fresh
    <3>3. PICK q \in readings : /\ q.origin = origin
                                /\ q.asked = policy_checked_at[origin]
                                /\ Newest(q)
      BY <1>4, <3>1 DEF PolicyInv
    <3>4. p.asked <= q.asked
      BY <1>6, <2>1, <3>3 DEF Newest
    <3>5. policy_checked_at[origin] \in Int /\ ROBOTS_TTL \in Int
      BY <1>4, <3>1, ClientAssumption
    <3>6. p.asked \in Int /\ q.asked \in Int
      BY <1>6, <2>1, <3>3
    <3> QED
      BY <1>4, <1>6, <3>2, <3>3, <3>4, <3>5, <3>6
  <2> QED
    BY <1>2, <1>6, <2>1 DEF AskedOncePerTTL
<1>14. PolicyInv'
  <2> SUFFICES ASSUME NEW o \in Origins
               PROVE  IF policy_checked_at'[o] = None THEN \A q \in readings' : q.origin # o
                      ELSE \E q \in readings' :
                             /\ q.origin = o
                             /\ q.asked = policy_checked_at'[o]
                             /\ q.policy = policy'[o]
                             /\ Newest(q)'
    BY DEF PolicyInv
  <2>1. CASE o = origin
    <3>1. Newest(new)'
      BY <1>2, <1>6 DEF Newest
    <3>2. policy_checked_at'[o] = now /\ policy'[o] = learned /\ now # None
      BY <1>2, <1>3, <1>4, <2>1
    <3> QED
      BY <1>2, <1>6, <2>1, <3>1, <3>2
  <2>2. CASE o # origin
    <3>1. policy_checked_at'[o] = policy_checked_at[o] /\ policy'[o] = policy[o]
      BY <1>2, <1>4, <2>2
    <3>2. \A q \in readings : q.origin = o /\ Newest(q) => Newest(q)'
      BY <1>2, <1>6, <2>2 DEF Newest
    <3> QED
      BY <1>2, <1>6, <2>2, <3>1, <3>2 DEF PolicyInv
  <2> QED
    BY <2>1, <2>2
<1>15. DecisionInv'
  <2>1. sent <= now + MinInterval /\ now' - sent \in Latencies
    <3>1. Larger(MinInterval, 0) = MinInterval
      BY ClientAssumption DEF Larger
    <3> QED
      BY <1>1, <1>4, <3>1 DEF Got, NowInv
  <2>2. now' - now < ROBOTS_TTL
    <3>1. MinInterval + (now' - sent) < ROBOTS_TTL
      BY <2>1, TTLAssumption
    <3>2. MinInterval \in Int /\ ROBOTS_TTL \in Int /\ sent \in Int
      BY ClientAssumption
    <3>3. now \in Int /\ now' \in Int /\ sent <= now + MinInterval
      BY <1>4, <2>1
    <3> QED
      BY <3>1, <3>2, <3>3, SlotAndLatency
  <2>3. policy_checked_at'[origin] = now
    BY <1>2, <1>3, <1>4
  <2> QED
    BY <1>2, <1>4, <2>2, <2>3 DEF DecisionInv, Fresh
<1> QED
  BY <1>5, <1>7, <1>11, <1>12, <1>13, <1>14, <1>15

LEMMA GetPageStep ==
  ASSUME IInv, TypeOK', NEW answered \in BOOLEAN, GetPage(answered)
  PROVE IInv'
<1> DEFINE delay == policy[origin].delay
<1> USE DEF IInv
<1>1. delay \in Nat /\ url \in Pages /\ origin \in Origins
  BY ClientAssumption DEF TypeOK, Policy, origin
<1>2. PICK sent \in Nat : Got(url, delay, answered, sent)
  BY <1>1, GetLeaves DEF GetPage
<1>3. /\ pc = "policy" /\ pc' = "idle" /\ allows
      /\ UNCHANGED <<policy, policy_checked_at, url, asked, readings>>
  BY DEF GetPage
<1>4. /\ now \in Nat /\ now' \in Nat /\ sent < now' /\ now <= sent
      /\ requests \subseteq Request /\ requests' \subseteq Request
      /\ readings \subseteq Reading
      /\ policy_checked_at \in [Origins -> Nat \cup {None}]
  BY <1>2 DEF Got, TypeOK
<1>5. SlotInv' /\ NowInv' /\ \A s \in requests' : s.sent < s.ended /\ s.ended <= now'
  BY <1>1, <1>2, GetKeepsMemory
<1>6. \A q \in readings : /\ q.asked < q.at /\ q.at <= now
                          /\ q.asked \in Nat /\ q.at \in Nat
  BY <1>4 DEF TimesInv, Reading
<1>7. TimesInv'
  BY <1>3, <1>4, <1>5, <1>6 DEF TimesInv
<1>8. /\ policy_checked_at[origin] # None
      /\ now - policy_checked_at[origin] < ROBOTS_TTL
  BY <1>3 DEF DecisionInv, Fresh
<1>9. PICK q \in readings : /\ q.origin = origin
                            /\ q.asked = policy_checked_at[origin]
                            /\ q.policy = policy[origin]
                            /\ Newest(q)
  BY <1>1, <1>8 DEF PolicyInv
<1>10. \A s \in requests', p \in readings : InForce(p, s)' <=> InForce(p, s)
  BY <1>3 DEF InForce
<1>11. \A s \in requests' \ requests :
         s.what # Redirected => s = Sent(origin, url, sent, now', answered)
  BY <1>2 DEF Got
<1>12. \A s \in requests' :
         s = Sent(origin, url, sent, now', answered) =>
           InForce(q, s) /\ \A p \in readings : InForce(p, s) => p = q
  BY <1>4, <1>6, <1>9 DEF InForce, Newest, Sent
<1> HIDE DEF delay
<1>13. Spaced'
  <2> SUFFICES ASSUME NEW r \in requests', NEW s \in requests', r.answered, Before(r, s)
               PROVE  /\ s.sent >= r.ended + MinInterval
                      /\ \A p \in readings :
                           InForce(p, s) /\ s.what \in Pages => s.sent >= r.ended + p.policy.delay
    BY <1>3, <1>10 DEF Spaced, Before
  <2>1. /\ r \in requests
        /\ s \notin requests => /\ s = Sent(origin, url, sent, now', answered)
                                /\ s.sent >= r.ended + Larger(MinInterval, delay)
    BY <1>1, <1>2, GetSpaces
  <2>2. CASE s \in requests
    BY <2>1, <2>2 DEF Spaced
  <2>3. CASE s \notin requests
    <3>1. /\ Larger(MinInterval, delay) >= MinInterval
          /\ Larger(MinInterval, delay) >= delay
          /\ Larger(MinInterval, delay) \in Int
          /\ MinInterval \in Nat
      BY <1>1, ClientAssumption, LargerBounds
    <3>2. s.sent \in Nat /\ r.ended \in Nat
      BY <1>4 DEF Request
    <3>3. \A p \in readings : InForce(p, s) => p.policy.delay = delay
      BY <1>9, <1>12, <2>1, <2>3 DEF delay
    <3> QED
      BY <1>1, <2>1, <2>3, <3>1, <3>2, <3>3
  <2> QED
    BY <2>2, <2>3
<1>14. Permitted'
  <2> SUFFICES ASSUME NEW s \in requests', s.what \in Pages
               PROVE  \E p \in readings :
                        /\ InForce(p, s)
                        /\ p.policy.fetched
                        /\ s.what \in p.policy.allowed
                        /\ s.sent < p.asked + ROBOTS_TTL + Larger(MinInterval, p.policy.delay)
    BY <1>3, <1>10 DEF Permitted
  <2>1. CASE s \in requests
    BY <2>1 DEF Permitted
  <2>2. CASE s \notin requests
    <3>1. s = Sent(origin, url, sent, now', answered)
      BY <1>11, <2>2, ClientAssumption
    <3>2. s.sent = sent /\ s.what = url
      BY <3>1 DEF Sent
    <3>3. sent <= now + Larger(MinInterval, delay)
      BY <1>1, <1>2 DEF Got, NowInv
    <3>4. Larger(MinInterval, delay) \in Int
      BY <1>1, ClientAssumption, LargerBounds
    <3>5. sent < q.asked + ROBOTS_TTL + Larger(MinInterval, delay)
      BY <1>4, <1>6, <1>8, <1>9, <3>3, <3>4, ClientAssumption
    <3> QED
      BY <1>3, <1>9, <1>12, <3>1, <3>2, <3>5 DEF allows, delay
  <2> QED
    BY <2>1, <2>2
<1>15. AskedOncePerTTL' /\ PolicyInv'
  BY <1>3 DEF AskedOncePerTTL, PolicyInv, Newest
<1>16. DecisionInv'
  BY <1>3 DEF DecisionInv
<1> QED
  BY <1>5, <1>7, <1>13, <1>14, <1>15, <1>16

-----------------------------------------------------------------------------

LEMMA Initially == Init => IInv
<1> SUFFICES ASSUME Init PROVE IInv
  OBVIOUS
<1>1. TypeOK
  BY ClientAssumption, UnavailablePolicy DEF Init, TypeOK
<1>2. /\ TimesInv /\ SlotInv /\ NowInv /\ PolicyInv /\ DecisionInv
  BY DEF Init, TimesInv, SlotInv, NowInv, PolicyInv, DecisionInv
<1>3. Spaced /\ Permitted /\ AskedOncePerTTL
  BY DEF Init, Spaced, Permitted, AskedOncePerTTL
<1> QED
  BY <1>1, <1>2, <1>3 DEF IInv

\* A step that sends nothing leaves the history alone.
LEMMA SilentStep ==
  ASSUME IInv, TypeOK', UNCHANGED <<memory, requests, readings>>, now' >= now,
         TimesInv', DecisionInv'
  PROVE IInv'
<1>1. SlotInv' /\ PolicyInv'
  BY DEF IInv, SlotInv, PolicyInv, Newest, memory
<1>2. NowInv'
  BY DEF IInv, NowInv, TypeOK, memory
<1>3. Spaced' /\ Permitted' /\ AskedOncePerTTL'
  BY DEF IInv, Spaced, Permitted, AskedOncePerTTL, InForce, Before
<1> QED
  BY <1>1, <1>2, <1>3 DEF IInv

LEMMA Inductive == IInv /\ TypeOK' /\ [Next]_vars => IInv'
<1> SUFFICES ASSUME IInv, TypeOK', [Next]_vars PROVE IInv'
  OBVIOUS
<1>1. CASE Tick
  <2>1. TimesInv' /\ DecisionInv' /\ now' >= now
    BY <1>1 DEF IInv, TypeOK, TimesInv, DecisionInv, Tick, Request, Reading
  <2> QED
    BY <1>1, <2>1, SilentStep DEF Tick
<1>2. CASE \E u \in Pages : Fetch(u)
  <2>1. TimesInv' /\ DecisionInv'
    BY <1>2 DEF IInv, TimesInv, DecisionInv, Fetch, Fresh, origin, memory
  <2>2. now' >= now
    BY <1>2 DEF IInv, TypeOK, Fetch
  <2> QED
    BY <1>2, <2>1, <2>2, SilentStep DEF Fetch
<1>3. CASE Refuse
  <2>1. TimesInv' /\ DecisionInv' /\ now' >= now
    BY <1>3 DEF IInv, TypeOK, TimesInv, DecisionInv, Refuse
  <2> QED
    BY <1>3, <2>1, SilentStep DEF Refuse
<1>4. CASE UNCHANGED vars
  <2>1. TimesInv' /\ DecisionInv' /\ now' >= now
    BY <1>4 DEF IInv, TypeOK, TimesInv, DecisionInv, Fresh, origin, vars, memory
  <2> QED
    BY <1>4, <2>1, SilentStep DEF vars
<1>5. CASE ReadRobots \/ RobotsRefused \/ RobotsUnreachable
  BY <1>5, AskRobotsStep, ParsedPolicy, UnavailablePolicy
     DEF ReadRobots, RobotsRefused, RobotsUnreachable
<1>6. CASE ReadPage \/ PageUnreachable
  BY <1>6, GetPageStep DEF ReadPage, PageUnreachable
<1> QED
  BY <1>1, <1>2, <1>3, <1>4, <1>5, <1>6 DEF Next

THEOREM InductiveInvariant == Spec => []IInv
BY Initially, Inductive, TypeCorrect, PTL DEF Spec

\* A host that has answered is left alone for the floor and for its own delay.
THEOREM AnswersAreSpaced == Spec => []Spaced
<1>1. IInv => Spaced
  BY DEF IInv
<1> QED
  BY <1>1, InductiveInvariant, PTL

\* No page is asked for without a robots.txt that was read and permits it.
THEOREM PagesArePermitted == Spec => []Permitted
<1>1. IInv => Permitted
  BY DEF IInv
<1> QED
  BY <1>1, InductiveInvariant, PTL

\* An unreadable robots.txt is not asked for again before its lifetime is over.
THEOREM RobotsAskedOnce == Spec => []AskedOncePerTTL
<1>1. IInv => AskedOncePerTTL
  BY DEF IInv
<1> QED
  BY <1>1, InductiveInvariant, PTL
=============================================================================
