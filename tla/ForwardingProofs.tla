--------------------------- MODULE ForwardingProofs ---------------------------
(***************************************************************************)
(* The request path, for every set of requests, upstreams, replies and     *)
(* clocks.  A round loses no candidate between two steps (RoundOK), from   *)
(* which failover in order and giving up late follow; the throttler's      *)
(* windows are bounded by the backoff of their counts (WindowsOK), which   *)
(* grows with the count and never passes MaxBackoff.  A listing has a      *)
(* round for each token it counted (CountOK).                              *)
(***************************************************************************)
EXTENDS Forwarding, NodeListsProofs
-----------------------------------------------------------------------------
(* The backoff *)

\* One more turn of the loop of Mark429.
Twice(b) == IF 2 * b < MaxBackoff THEN 2 * b ELSE MaxBackoff

\* The loop's first n values.
Loops(n, f) ==
    /\ f \in [0..n -> Nat]
    /\ \A k \in 0..n : f[k] = IF k <= 1 THEN Base ELSE Twice(f[k - 1])

LEMMA TwiceType == \A b \in Nat : Twice(b) \in Nat /\ Twice(b) <= MaxBackoff
BY ThrottlerAssumption DEF Twice

\* The values of shorter loops are those of longer ones.
LEMMA LoopsAgree ==
    ASSUME NEW n \in Nat, NEW m \in Nat, NEW f, NEW g, Loops(n, f), Loops(m, g)
    PROVE  \A k \in 0..n : k <= m => f[k] = g[k]
<1> DEFINE Differ == {k \in 0..n : k <= m /\ f[k] # g[k]}
<1> SUFFICES ASSUME Differ # {} PROVE FALSE
  OBVIOUS
<1>1. PICK k \in Differ : \A j \in Differ : k <= j
  <2>1. Differ \in SUBSET Nat
    OBVIOUS
  <2> HIDE DEF Differ
  <2> QED  BY <2>1, LeastNat
<1>2. k \in 0..n /\ k <= m /\ f[k] # g[k]
  BY <1>1
<1>3. CASE k <= 1
  BY <1>2, <1>3 DEF Loops
<1>4. CASE k > 1
  <2>1. k - 1 \in 0..n /\ k - 1 <= m /\ k - 1 \notin Differ
    BY <1>1, <1>2, <1>4
  <2>2. f[k - 1] = g[k - 1]
    BY <2>1
  <2>3. f[k] = Twice(f[k - 1]) /\ g[k] = Twice(g[k - 1])
    BY <1>2, <1>4 DEF Loops
  <2> QED  BY <1>2, <2>2, <2>3
<1> QED  BY <1>2, <1>3, <1>4

LEMMA LoopsExist == \A n \in Nat : \E f : Loops(n, f)
<1> DEFINE Bad == {n \in Nat : ~\E f : Loops(n, f)}
<1> SUFFICES ASSUME Bad # {} PROVE FALSE
  OBVIOUS
<1>1. PICK n \in Bad : \A j \in Bad : n <= j
  <2>1. Bad \in SUBSET Nat
    OBVIOUS
  <2> HIDE DEF Bad
  <2> QED  BY <2>1, LeastNat
<1>2. n \in Nat /\ ~\E f : Loops(n, f)
  BY <1>1
<1>3. n # 0
  <2> SUFFICES ASSUME n = 0 PROVE FALSE
    OBVIOUS
  <2> DEFINE f == [k \in 0..0 |-> Base]
  <2>1. Loops(0, f)
    BY ThrottlerAssumption DEF Loops
  <2> QED  BY <1>2, <2>1
<1>4. n - 1 \in Nat /\ n - 1 \notin Bad
  BY <1>1, <1>2, <1>3
<1>5. PICK g : Loops(n - 1, g)
  BY <1>4
<1> DEFINE f == [k \in 0..n |-> IF k <= 1 THEN Base ELSE Twice(g[k - 1])]
<1>6. \A k \in 0..(n - 1) : g[k] \in Nat /\ g[k] = IF k <= 1 THEN Base ELSE Twice(g[k - 1])
  BY <1>5 DEF Loops
<1>7. \A k \in 0..n : f[k] \in Nat
  BY <1>2, <1>3, <1>6, TwiceType, ThrottlerAssumption
<1>8. \A k \in 0..n : f[k] = IF k <= 1 THEN Base ELSE Twice(f[k - 1])
  <2>0. \A k \in 0..n : k <= 1 => f[k] = Base
    OBVIOUS
  <2> SUFFICES ASSUME NEW k \in 0..n, k > 1 PROVE f[k] = Twice(f[k - 1])
    <3> HIDE DEF f
    <3> QED  BY <1>2, <2>0
  <2>1. k - 1 \in 0..(n - 1) /\ k - 1 \in 0..n
    BY <1>2
  <2>2. f[k - 1] = IF k - 1 <= 1 THEN Base ELSE Twice(g[(k - 1) - 1])
    BY <2>1
  <2>3. g[k - 1] = f[k - 1]
    BY <1>6, <2>1, <2>2
  <2> QED  BY <2>3
<1>9. f \in [0..n -> Nat]
  BY <1>7
<1> HIDE DEF f
<1>10. Loops(n, f)
  BY <1>8, <1>9 DEF Loops
<1> QED  BY <1>2, <1>10

\* What Doubled is: Base, then twice as much each time, up to the cap.
LEMMA DoubledValue ==
    \A n \in Nat : Doubled[n] = IF n <= 1 THEN Base ELSE Twice(Doubled[n - 1])
<1> DEFINE h == [n \in Nat |-> (CHOOSE f : Loops(n, f))[n]]
<1>1. \A n \in Nat : Loops(n, CHOOSE f : Loops(n, f))
  BY LoopsExist
<1>2. ASSUME NEW n \in Nat
      PROVE  h[n] = IF n <= 1 THEN Base ELSE Twice(h[n - 1])
  <2> DEFINE f == CHOOSE f : Loops(n, f)
             g == CHOOSE g : Loops(n - 1, g)
  <2>1. Loops(n, f) /\ h[n] = f[n]
    BY <1>1
  <2>4. f[n] = IF n <= 1 THEN Base ELSE Twice(f[n - 1])
    <3> HIDE DEF f
    <3>1. n \in 0..n
      OBVIOUS
    <3> QED  BY <2>1, <3>1 DEF Loops
  <2>2. CASE n <= 1
    BY <2>1, <2>2, <2>4
  <2>3. CASE n > 1
    <3>1. n - 1 \in Nat
      BY <2>3
    <3>2. Loops(n - 1, g) /\ h[n - 1] = g[n - 1]
      BY <1>1, <3>1
    <3>3. f[n - 1] = g[n - 1]
      <4> HIDE DEF f, g
      <4> QED  BY <2>1, <3>1, <3>2, LoopsAgree
    <3>4. f[n] = Twice(f[n - 1])
      BY <2>3, <2>4
    <3> QED  BY <2>1, <2>3, <3>2, <3>3, <3>4
  <2> QED  BY <2>2, <2>3
<1> HIDE DEF h
<1>3. h = [n \in Nat |-> IF n <= 1 THEN Base
                         ELSE LET twice == 2 * h[n - 1]
                              IN  IF twice < MaxBackoff THEN twice ELSE MaxBackoff]
  <2>1. h = [n \in Nat |-> h[n]]
    BY DEF h
  <2> QED  BY <1>2, <2>1 DEF Twice
<1>4. Doubled = [n \in Nat |-> IF n <= 1 THEN Base
                               ELSE LET twice == 2 * Doubled[n - 1]
                                    IN  IF twice < MaxBackoff THEN twice ELSE MaxBackoff]
  BY <1>3 DEF Doubled
<1> QED  BY <1>4 DEF Twice

\* A backoff is at least Base, at most MaxBackoff, and never shorter than the
\* one before.
LEMMA BackoffGrows ==
    \A n \in Nat : /\ Backoff(n) \in Base..MaxBackoff
                   /\ Backoff(n) <= Backoff(n + 1)
<1>1. \A n \in Nat : Doubled[n] \in Base..MaxBackoff
  <2> DEFINE Bad == {n \in Nat : Doubled[n] \notin Base..MaxBackoff}
  <2> SUFFICES ASSUME Bad # {} PROVE FALSE
    OBVIOUS
  <2>1. PICK n \in Bad : \A j \in Bad : n <= j
    <3>1. Bad \in SUBSET Nat
      OBVIOUS
    <3> HIDE DEF Bad
    <3> QED  BY <3>1, LeastNat
  <2>2. n \in Nat /\ Doubled[n] \notin Base..MaxBackoff
    BY <2>1
  <2>3. n > 1
    BY <2>2, DoubledValue, ThrottlerAssumption
  <2>4. n - 1 \in Nat /\ Doubled[n - 1] \in Base..MaxBackoff
    BY <2>1, <2>2, <2>3
  <2>5. Doubled[n] = Twice(Doubled[n - 1])
    BY <2>2, <2>3, DoubledValue
  <2> QED  BY <2>2, <2>4, <2>5, ThrottlerAssumption DEF Twice
<1>2. ASSUME NEW n \in Nat PROVE Doubled[n] <= Doubled[n + 1]
  <2>1. Doubled[n] \in Base..MaxBackoff /\ Base \in Nat /\ MaxBackoff \in Nat
    BY <1>1, ThrottlerAssumption
  <2>2. CASE n = 0
    BY <2>2, <2>1, DoubledValue
  <2>3. CASE n > 0
    <3>1. Doubled[n + 1] = Twice(Doubled[(n + 1) - 1])
      BY <2>3, DoubledValue
    <3>2. (n + 1) - 1 = n
      OBVIOUS
    <3> QED  BY <2>1, <3>1, <3>2 DEF Twice
  <2> QED  BY <2>2, <2>3
<1> QED  BY <1>1, <1>2 DEF Backoff
-----------------------------------------------------------------------------
(* The windows *)

\* What happens to the throttler in one step of a round.
Throttled == \/ UNCHANGED <<now, until, backoffs>>
             \/ \E url \in Urls : (Mark429(url) \/ Reset(url)) /\ UNCHANGED now
             \/ now' = now + 1 /\ UNCHANGED <<until, backoffs>>

LEMMA WindowsStep ==
    ASSUME ThrottlerTypeOK, WindowsOK, Throttled
    PROVE  /\ ThrottlerTypeOK' /\ WindowsOK'
           /\ \A url \in Urls : backoffs'[url] > backoffs[url] => until'[url] >= until[url]
<1> USE DEF ThrottlerTypeOK
<1>0. /\ now \in Nat
      /\ \A url \in Urls : until[url] \in Nat /\ backoffs[url] \in Nat
      /\ \A n \in Nat : Backoff(n) \in Nat
      /\ \A n \in Nat : Backoff(n) > 0 /\ Backoff(n) <= Backoff(n + 1)
  BY BackoffGrows, ThrottlerAssumption
<1>1. CASE UNCHANGED <<now, until, backoffs>>
  BY <1>0, <1>1 DEF WindowsOK
<1>2. CASE now' = now + 1 /\ UNCHANGED <<until, backoffs>>
  BY <1>0, <1>2 DEF WindowsOK
<1>3. ASSUME NEW url \in Urls, Mark429(url), UNCHANGED now
      PROVE  /\ ThrottlerTypeOK' /\ WindowsOK'
             /\ \A u \in Urls : backoffs'[u] > backoffs[u] => until'[u] >= until[u]
  <2> DEFINE n == backoffs[url]
  <2>1. n + 1 \in Nat /\ now + Backoff(n + 1) \in Nat
    BY <1>0
  <2>2. ThrottlerTypeOK'
    BY <1>3, <2>1 DEF Mark429
  <2>3. \A u \in Urls : /\ backoffs'[u] = IF u = url THEN n + 1 ELSE backoffs[u]
                        /\ until'[u] = IF u = url THEN now + Backoff(n + 1) ELSE until[u]
    BY <1>3 DEF Mark429
  <2> HIDE DEF n
  <2>4. WindowsOK'
    BY <1>0, <1>3, <2>1, <2>3 DEF WindowsOK, n
  <2>5. until[url] <= now + Backoff(n + 1)
    <3>1. CASE n = 0
      <4>1. until[url] = 0
        BY <3>1 DEF WindowsOK, n
      <4> QED  BY <1>0, <2>1, <4>1
    <3>2. CASE n # 0
      <4>1. n \in Nat /\ until[url] <= now + Backoff(n)
        BY <1>0, <3>2 DEF WindowsOK, n
      <4> QED  BY <1>0, <2>1, <4>1
    <3> QED  BY <3>1, <3>2
  <2> QED  BY <1>0, <2>2, <2>3, <2>4, <2>5
<1>4. ASSUME NEW url \in Urls, Reset(url), UNCHANGED now
      PROVE  /\ ThrottlerTypeOK' /\ WindowsOK'
             /\ \A u \in Urls : backoffs'[u] > backoffs[u] => until'[u] >= until[u]
  <2>1. ThrottlerTypeOK'
    BY <1>4 DEF Reset
  <2>2. \A u \in Urls : /\ backoffs'[u] = IF u = url THEN 0 ELSE backoffs[u]
                        /\ until'[u] = IF u = url THEN 0 ELSE until[u]
    BY <1>4 DEF Reset
  <2> QED  BY <1>0, <1>4, <2>1, <2>2 DEF WindowsOK
<1>5. \A url \in Urls : until[url] >= until[url]
  BY <1>0
<1> QED  BY <1>0, <1>1, <1>2, <1>3, <1>4, <1>5 DEF Throttled
-----------------------------------------------------------------------------
(* What a request is made into *)

Adapted == [shape : Shapes, hosts : SUBSET Hosts, body : Bodies]

LEMMA MadeType ==
    /\ \A shape \in Shapes, hosts \in SUBSET Hosts : Made(shape, hosts) \in Adapted
    /\ \A hosts \in SUBSET Hosts, body \in Bodies : AsIs(hosts, body) \in Adapted
BY DEF Made, AsIs, Adapted, Shapes, Bodies

LEMMA AdaptType ==
    ASSUME NEW o \in Requests, o.op = "Serve", NEW url \in Urls
    PROVE  Adapt(o, url) \in Adapted
<1> DEFINE body == LogSafe(o.body)
<1>0. body \in Bodies
  BY DEF LogSafe, Bodies
<1> HIDE DEF body
<1>1. Host[url] \in Hosts /\ Hosts \subseteq Shapes
  BY ForwardingAssumption DEF Shapes
<1>2. /\ o.chain \in {"btc", "doge", "evm", "ltc", "sol", "trx", "other"}
      /\ o.method \in {"GET", "POST"} /\ o.tail \in Tails
  BY ForwardingAssumption DEF Requested
<1>3. /\ {"blockstream", "tatum"} \in SUBSET Hosts /\ {"tatum"} \in SUBSET Hosts
      /\ {"trongrid"} \in SUBSET Hosts /\ Hosts \in SUBSET Hosts
  BY DEF Hosts
<1>4. {"tipheight", "fees", "balance", "getslot", "get", "ownerof", "known", "getblockcount", "core"}
         \subseteq Shapes
  BY DEF Shapes
<1>5. adaptBTC(o.tail, body) \in Adapted
  BY <1>0, <1>3, <1>4, MadeType DEF adaptBTC
<1>6. adaptTRX(o.tail, body) \in Adapted
  BY <1>0, <1>3, <1>4, MadeType DEF adaptTRX
<1>7. adaptSOL(o.method, o.tail, body) \in Adapted
  BY <1>0, <1>3, <1>4, MadeType DEF adaptSOL
<1>8. adaptEVM(o.method, o.tail, body) \in Adapted
  BY <1>0, <1>3, <1>4, MadeType DEF adaptEVM
<1>9. adaptLTC(Host[url], o.tail, body) \in Adapted
  BY <1>0, <1>1, <1>3, <1>4, MadeType DEF adaptLTC
<1>10. adaptDOGE(Host[url], o.tail, body) \in Adapted
  BY <1>0, <1>1, <1>3, <1>4, MadeType DEF adaptDOGE
<1>11. AsIs(Hosts, body) \in Adapted
  BY <1>0, <1>3, MadeType
<1> QED
  BY <1>2, <1>5, <1>6, <1>7, <1>8, <1>9, <1>10, <1>11 DEF Adapt, body
-----------------------------------------------------------------------------
(* Rounds *)

LEMMA IdleType ==
    /\ Idle \in Request /\ RoundOK(Idle)
    /\ [Idle EXCEPT !.pc = "done"] \in Request /\ RoundOK([Idle EXCEPT !.pc = "done"])
<1>1. <<>> \in Seq(Node)
  OBVIOUS
<1> QED  BY <1>1 DEF Idle, Request, Shapes, Bodies, Answers, RoundOK

LEMMA DoneType ==
    ASSUME NEW o \in Requests, req[o] \in Request,
           NEW answer \in Answers
    PROVE  Done(o, answer) \in Request /\ Done(o, answer).pc = "done"
<1>1. <<>> \in Seq(Node)
  OBVIOUS
<1>2. req[o].max \in Nat /\ req[o].items \in Nat
  BY DEF Request
<1> QED  BY <1>1, <1>2 DEF Done, Idle, Request, Shapes, Bodies

LEMMA NextRoundType ==
    ASSUME NEW r \in Request, r.nodes # <<>>
    PROVE  NextRound(r) \in Request /\ RoundOK(NextRound(r))
<1> DEFINE r2 == NextRound(r)
<1>1. /\ r2 \in Request /\ r2.pc = "group" /\ r2.seen = 0 /\ r2.nodes = r.nodes
      /\ r2.todo = {} /\ r2.skipped = {} /\ r2.failed = {}
  BY DEF NextRound, Request
<1>2. r.nodes \in Seq(Node)
  BY DEF Request
<1> HIDE DEF r2
<1>3. Len(r2.nodes) \in Nat /\ 0 < Len(r2.nodes)
  BY <1>1, <1>2
<1> QED  BY <1>1, <1>3 DEF RoundOK, r2

\* The type of one request and the place it is in.
Good(r) == r \in Request /\ RoundOK(r)

LEMMA HandleGood ==
    ASSUME TypeOK, RoundsOK, NEW o \in Requests, NEW r, Good(r), Handle(o, r)
    PROVE  req' \in [Requests -> Request] /\ RoundsOK'
<1>1. \A p \in Requests : req'[p] = IF p = o THEN r ELSE req[p]
  BY DEF TypeOK, Handle
<1>2. req' \in [Requests -> Request]
  BY DEF TypeOK, Handle, Good
<1> QED  BY <1>1, <1>2 DEF RoundsOK, Good

\* The candidates that pass the filter of the adapter are candidates.
LEMMA AllowedType ==
    ASSUME NEW list \in Seq(Node), NEW hosts
    PROVE  Allowed(list, hosts) \in Seq(Node)
BY KeptIsList DEF Allowed

LEMMA ServeGood ==
    ASSUME TypeOK, NEW o \in Requests, o.op = "Serve", NEW list \in Seq(Node), list # <<>>
    PROVE  Good(Serve(o, list))
<1> DEFINE ad == Adapt(o, list[1].url)
           nodes == Allowed(list, ad.hosts)
           r == [Idle EXCEPT !.pc = "send", !.nodes = nodes, !.todo = DOMAIN nodes,
                             !.shape = ad.shape, !.sent = ad.body]
<1>1. list[1] \in Node
  BY Len(list) > 0
<1>2. ad \in Adapted
  BY <1>1, AdaptType DEF Node
<1> HIDE DEF ad
<1>3. nodes \in Seq(Node)
  BY AllowedType
<1>4. CASE nodes = <<>>
  <2>1. Serve(o, list) = Done(o, "503")
    BY <1>4 DEF Serve, ad
  <2> QED  BY <2>1, DoneType DEF TypeOK, Good, RoundOK, Answers
<1>5. CASE nodes # <<>>
  <2>1. Serve(o, list) = r
    BY <1>5 DEF Serve, ad
  <2>2. ad.shape \in Shapes /\ ad.body \in Bodies
    BY <1>2 DEF Adapted
  <2> HIDE DEF nodes
  <2>3. DOMAIN nodes \in SUBSET Nat
    BY <1>3
  <2>4. /\ r \in Request /\ r.pc = "send" /\ r.nodes = nodes /\ r.todo = DOMAIN nodes
        /\ r.skipped = {} /\ r.failed = {}
    BY <1>3, <2>2, <2>3 DEF Idle, Request, Bodies, Answers
  <2> HIDE DEF r
  <2>5. RoundOK(r)
    BY <1>5, <2>4 DEF RoundOK
  <2> QED  BY <2>1, <2>4, <2>5 DEF Good
<1> QED  BY <1>4, <1>5

\* There is a first candidate, and it comes before the others.
LEMMA FirstIsFirst ==
    ASSUME TypeOK, NEW o \in Requests, RoundOK(req[o]), req[o].pc = "wait"
    PROVE  /\ First(o) \in req[o].todo
           /\ First(o) \in DOMAIN req[o].nodes
           /\ Tried(o) \in Node
           /\ \A j \in req[o].todo : First(o) = j \/ Before(o, First(o), j)
<1> DEFINE todo == req[o].todo  nodes == req[o].nodes
<1>1. /\ nodes \in Seq(Node) /\ todo # {} /\ todo \subseteq DOMAIN nodes
      /\ DOMAIN nodes = 1..Len(nodes) /\ Len(nodes) \in Nat
  BY DEF TypeOK, Request, RoundOK
<1>2. todo \in SUBSET Nat
  BY <1>1
<1> HIDE DEF todo, nodes
<1>3. \A i \in todo : nodes[i] \in Node /\ nodes[i].prio \in Prios /\ nodes[i].prio \in Int
  <2>1. \A i \in todo : nodes[i] \in Node
    BY <1>1
  <2>2. \A n \in Node : n.prio \in Prios /\ n.prio \in Int
    BY NodesAssumption DEF Node
  <2> QED  BY <2>1, <2>2
<1>4. \E i \in todo : \A j \in todo : i = j \/ Before(o, i, j)
  <2>1. CASE o.op = "Serve"
    <3>1. PICK i \in todo : \A j \in todo : i <= j
      BY <1>1, <1>2, LeastNat
    <3> QED  BY <1>2, <2>1, <3>1 DEF Before
  <2>2. CASE o.op # "Serve"
    <3> DEFINE P == {nodes[i].prio : i \in todo}
    <3>1. P \in SUBSET Prios /\ P # {}
      BY <1>1, <1>3
    <3>2. PICK p \in P : \A q \in P : p <= q
      <4> HIDE DEF P
      <4> QED  BY <3>1, Extremes, NodesAssumption
    <3> DEFINE I == {i \in todo : nodes[i].prio = p}
    <3>3. I # {} /\ I \in SUBSET Nat
      BY <1>2
    <3>4. PICK i \in I : \A j \in I : i <= j
      <4> HIDE DEF I
      <4> QED  BY <3>3, LeastNat
    <3>5. ASSUME NEW j \in todo PROVE i = j \/ Before(o, i, j)
      <4>1. nodes[i].prio = p /\ p <= nodes[j].prio
        BY <3>2, <3>4
      <4>2. i \in Nat /\ j \in Nat /\ i \in todo
        BY <1>2, <3>4
      <4>3. CASE nodes[j].prio = p
        <5>1. i <= j
          BY <3>4, <4>3
        <5> QED  BY <2>2, <4>1, <4>2, <4>3, <5>1 DEF Before, nodes
      <4>4. CASE nodes[j].prio # p
        BY <1>3, <2>2, <4>1, <4>2, <4>4 DEF Before, nodes
      <4> QED  BY <4>3, <4>4
    <3> QED  BY <3>4, <3>5
  <2> QED  BY <2>1, <2>2
<1>5. First(o) \in todo /\ \A j \in todo : First(o) = j \/ Before(o, First(o), j)
  BY <1>4 DEF First, todo
<1> QED  BY <1>1, <1>3, <1>5 DEF Tried, todo, nodes

\* Nodes of a request in a round, and its fields.
LEMMA RoundFields ==
    ASSUME TypeOK, RoundsOK, NEW o \in Requests
    PROVE  LET r == req[o]
           IN  /\ Good(r) /\ r.nodes \in Seq(Node) /\ Len(r.nodes) \in Nat
               /\ DOMAIN r.nodes = 1..Len(r.nodes)
               /\ r.seen \in Nat /\ r.round \in Nat /\ r.max \in Nat /\ r.items \in Nat
               /\ r.todo \in SUBSET Nat /\ r.skipped \in SUBSET Nat /\ r.failed \in SUBSET Nat
<1>1. Good(req[o])
  BY DEF TypeOK, RoundsOK, Good
<1> QED  BY <1>1 DEF Good, Request

LEMMA ArriveGood ==
    ASSUME TypeOK, RoundsOK, NEW o \in Requests, Arrive(o)
    PROVE  req' \in [Requests -> Request] /\ RoundsOK'
<1>1. PICK list \in Lists :
         Handle(o, CASE list = <<>> -> Done(o, "503")
                     [] list # <<>> /\ o.op = "Serve" -> Serve(o, list)
                     [] OTHER -> NextRound([Idle EXCEPT !.nodes = list]))
  BY DEF Arrive
<1>2. list \in Seq(Node)
  BY ForwardingAssumption
<1>3. CASE list = <<>>
  <2>1. Handle(o, Done(o, "503"))
    BY <1>1, <1>3
  <2>2. Good(Done(o, "503"))
    BY DoneType DEF TypeOK, Good, RoundOK, Answers
  <2> QED  BY <2>1, <2>2, HandleGood
<1>4. CASE list # <<>> /\ o.op = "Serve"
  <2>1. Handle(o, Serve(o, list))
    BY <1>1, <1>4
  <2> QED  BY <1>2, <1>4, <2>1, HandleGood, ServeGood
<1>5. CASE list # <<>> /\ o.op # "Serve"
  <2> DEFINE r == [Idle EXCEPT !.nodes = list]
  <2>1. Handle(o, NextRound(r))
    BY <1>1, <1>5
  <2>2. r \in Request /\ r.nodes = list
    BY <1>2, IdleType DEF Idle, Request
  <2> HIDE DEF r
  <2> QED  BY <1>5, <2>1, <2>2, HandleGood, NextRoundType DEF Good
<1> QED  BY <1>3, <1>4, <1>5

LEMMA GroupGood ==
    ASSUME TypeOK, RoundsOK, NEW o \in Requests, Group(o)
    PROVE  req' \in [Requests -> Request] /\ RoundsOK'
<1> DEFINE r == req[o]
           i == r.seen + 1
           out == IsThrottled(r.nodes[i].url)
           todo == IF out THEN r.todo ELSE r.todo \cup {i}
           skipped == IF out THEN r.skipped \cup {i} ELSE r.skipped
           pc == IF i = Len(r.nodes) THEN "send" ELSE r.pc
           r2 == [r EXCEPT !.seen = i, !.todo = todo, !.skipped = skipped, !.pc = pc]
<1>1. /\ r \in Request /\ RoundOK(r) /\ Len(r.nodes) \in Nat /\ DOMAIN r.nodes = 1..Len(r.nodes)
      /\ r.seen \in Nat /\ r.todo \in SUBSET Nat /\ r.skipped \in SUBSET Nat
      /\ r.nodes \in Seq(Node)
  BY RoundFields DEF Good
<1>2. r.pc = "group" /\ Handle(o, r2)
  BY DEF Group
<1>3. /\ r.seen < Len(r.nodes) /\ r.todo \cup r.skipped = 1..r.seen /\ r.failed = {}
  BY <1>1, <1>2 DEF RoundOK
<1>4. i \in Nat /\ i <= Len(r.nodes) /\ 1..i = 1..r.seen \cup {i}
  BY <1>1, <1>3
<1>5. todo \cup skipped = 1..i /\ todo \in SUBSET Nat /\ skipped \in SUBSET Nat
  BY <1>1, <1>3, <1>4
<1>6. pc \in {"group", "send"} /\ (pc = "group" => i < Len(r.nodes)) /\ (pc = "send" => i = Len(r.nodes))
  BY <1>1, <1>2, <1>4
<1> HIDE DEF todo, skipped, pc, i
<1>7. /\ r2 \in Request /\ r2.pc = pc /\ r2.seen = i /\ r2.todo = todo /\ r2.skipped = skipped
      /\ r2.failed = r.failed /\ r2.nodes = r.nodes
  BY <1>1, <1>4, <1>5, <1>6 DEF Request
<1> HIDE DEF r2
<1>8. RoundOK(r2)
  <2>1. CASE pc = "group"
    BY <1>3, <1>5, <1>6, <1>7, <2>1 DEF RoundOK
  <2>2. CASE pc = "send"
    <3>1. r.nodes # <<>>
      BY <1>1, <1>3
    <3> QED  BY <1>1, <1>3, <1>5, <1>6, <1>7, <2>2, <3>1 DEF RoundOK
  <2> QED  BY <1>6, <2>1, <2>2
<1> QED  BY <1>2, <1>7, <1>8, HandleGood DEF Good

LEMMA SendGood ==
    ASSUME TypeOK, RoundsOK, NEW o \in Requests, Send(o)
    PROVE  req' \in [Requests -> Request] /\ RoundsOK'
<1> DEFINE r == req[o]  r2 == [r EXCEPT !.pc = "wait"]
<1>1. r \in Request /\ RoundOK(r)
  BY RoundFields DEF Good
<1>2. r.pc = "send" /\ r.todo # {} /\ Handle(o, r2)
  BY DEF Send
<1>3. /\ r2 \in Request /\ r2.pc = "wait" /\ r2.nodes = r.nodes /\ r2.todo = r.todo
      /\ r2.skipped = r.skipped /\ r2.failed = r.failed
  BY <1>1 DEF Request
<1> HIDE DEF r2
<1>4. RoundOK(r2)
  BY <1>1, <1>2, <1>3 DEF RoundOK
<1> QED  BY <1>2, <1>3, <1>4, HandleGood DEF Good

LEMMA SendPanicsGood ==
    ASSUME TypeOK, RoundsOK, NEW o \in Requests, SendPanics(o)
    PROVE  req' \in [Requests -> Request] /\ RoundsOK'
<1>1. Handle(o, Done(o, "broken"))
  BY DEF SendPanics
<1>2. Good(Done(o, "broken"))
  BY DoneType, RoundFields DEF Good, RoundOK, Answers
<1> QED  BY <1>1, <1>2, HandleGood

LEMMA GoOnGood ==
    ASSUME TypeOK, RoundsOK, NEW o \in Requests, req[o].pc = "wait", GoOn(o)
    PROVE  req' \in [Requests -> Request] /\ RoundsOK'
<1> DEFINE r == req[o]
           i == First(o)
           todo == r.todo \ {i}
           failed == r.failed \cup {i}
           r2 == [r EXCEPT !.pc = "send", !.todo = todo, !.failed = failed]
<1>1. /\ r \in Request /\ RoundOK(r) /\ DOMAIN r.nodes = 1..Len(r.nodes) /\ Len(r.nodes) \in Nat
      /\ r.todo \in SUBSET Nat /\ r.failed \in SUBSET Nat
  BY RoundFields DEF Good
<1>2. i \in r.todo /\ i \in Nat
  BY <1>1, FirstIsFirst
<1>3. Handle(o, r2)
  BY DEF GoOn
<1>4. todo \in SUBSET Nat /\ failed \in SUBSET Nat
  BY <1>1, <1>2
<1>5. todo \cup failed = r.todo \cup r.failed
  BY <1>2
<1> HIDE DEF todo, failed, i
<1>6. /\ r2 \in Request /\ r2.pc = "send" /\ r2.nodes = r.nodes /\ r2.todo = todo
      /\ r2.skipped = r.skipped /\ r2.failed = failed
  BY <1>1, <1>4 DEF Request
<1> HIDE DEF r2
<1>7. RoundOK(r2)
  BY <1>1, <1>5, <1>6 DEF RoundOK
<1> QED  BY <1>3, <1>6, <1>7, HandleGood DEF Good

LEMMA AfterTokenGood ==
    ASSUME NEW o \in Requests, NEW r \in Request, r.nodes # <<>>
    PROVE  Good(AfterToken(o, r))
<1>1. CASE r.round - 2 < r.max
  <2> DEFINE r2 == [r EXCEPT !.round = @ + 1]
  <2>1. r2 \in Request /\ r2.nodes = r.nodes
    <3>1. r.round + 1 \in Nat
      BY DEF Request
    <3> QED  BY <3>1 DEF Request
  <2>2. AfterToken(o, r) = NextRound(r2)
    BY <1>1 DEF AfterToken
  <2> HIDE DEF r2
  <2> QED  BY <2>1, <2>2, NextRoundType DEF Good
<1>2. CASE ~(r.round - 2 < r.max)
  <2> DEFINE r2 == [Idle EXCEPT !.pc = "done", !.answer = "200", !.round = r.round,
                        !.max = r.max, !.items = r.items]
  <2>1. r.round \in Nat /\ r.max \in Nat /\ r.items \in Nat
    BY DEF Request
  <2>2. <<>> \in Seq(Node)
    OBVIOUS
  <2>3. r2 \in Request /\ r2.pc = "done"
    BY <2>1, <2>2 DEF Idle, Request, Shapes, Bodies, Answers
  <2>4. AfterToken(o, r) = r2
    BY <1>2 DEF AfterToken
  <2> HIDE DEF r2
  <2> QED  BY <2>3, <2>4 DEF Good, RoundOK
<1> QED  BY <1>1, <1>2

LEMMA ExhaustedGood ==
    ASSUME TypeOK, RoundsOK, NEW o \in Requests, Exhausted(o)
    PROVE  req' \in [Requests -> Request] /\ RoundsOK'
<1>1. req[o] \in Request /\ req[o].nodes # <<>>
  BY RoundFields DEF Good, RoundOK, Exhausted
<1>2. Good(Done(o, "502"))
  BY <1>1, DoneType DEF Good, RoundOK, Answers
<1>3. Good(AfterToken(o, req[o]))
  BY <1>1, AfterTokenGood
<1>4. Handle(o, AfterToken(o, req[o])) \/ Handle(o, Done(o, "502"))
  BY DEF Exhausted
<1> QED  BY <1>2, <1>3, <1>4, HandleGood

LEMMA PassedGood ==
    ASSUME TypeOK, RoundsOK, NEW o \in Requests, Passed(o)
    PROVE  req' \in [Requests -> Request] /\ RoundsOK'
<1>1. PICK back \in Bodies : Handle(o, [Done(o, "passed") EXCEPT !.back = back])
  BY DEF Passed, LogSafe, Bodies
<1>2. Done(o, "passed") \in Request /\ Done(o, "passed").pc = "done"
  BY DoneType, RoundFields DEF Good, Answers
<1> DEFINE r == [Done(o, "passed") EXCEPT !.back = back]
<1>3. r \in Request /\ r.pc = "done"
  BY <1>2 DEF Request
<1> HIDE DEF r
<1>4. Good(r)
  BY <1>3 DEF Good, RoundOK
<1> QED  BY <1>1, <1>4, HandleGood DEF r

\* A count of tokens is a number that fits an unsigned integer, or the limit.
LEMMA TokenCountType ==
    ASSUME NEW o \in Requests, o.op = "NFTGetAllNFTs", NEW total \in 0..MaxTotal
    PROVE  TokenCount(o, total) \in Nat
<1>1. o.limit \in Nat /\ o.offset \in Nat
  BY ForwardingAssumption DEF Requested
<1>2. (total - o.offset) \in Int /\ Width \in Nat \ {0}
  BY <1>1, ForwardingAssumption
<1>3. (total - o.offset) % Width \in 0..(Width - 1)
  BY <1>2
<1>4. (total - o.offset) % Width \in Nat
  BY <1>2, <1>3
<1> QED  BY <1>1, <1>4 DEF TokenCount

LEMMA RoundPassedGood ==
    ASSUME TypeOK, RoundsOK, NEW o \in Requests, RoundPassed(o)
    PROVE  req' \in [Requests -> Request] /\ RoundsOK'
<1> DEFINE r == req[o]
<1>1. r \in Request /\ r.nodes # <<>> /\ r.items \in Nat /\ o.op = "NFTGetAllNFTs"
  BY RoundFields DEF Good, RoundOK, RoundPassed
<1>2. PICK reply \in Replies : SupportPassed(o) \/ BalancePassed(o, reply) \/ TokenPassed(o, reply)
  BY DEF RoundPassed
<1>3. CASE SupportPassed(o)
  <2> DEFINE r2 == [r EXCEPT !.round = 2]
  <2>1. r2 \in Request /\ r2.nodes # <<>>
    BY <1>1 DEF Request
  <2>2. Handle(o, NextRound(r2))
    BY <1>3 DEF SupportPassed
  <2> HIDE DEF r2
  <2> QED  BY <2>1, <2>2, NextRoundType, HandleGood DEF Good
<1>4. CASE BalancePassed(o, reply)
  <2>0. MaxTotal \in Nat
    BY ForwardingAssumption
  <2>1. PICK total \in 0..MaxTotal :
           \/ Handle(o, Done(o, "502"))
           \/ Handle(o, Done(o, "broken"))
           \/ Handle(o, AfterToken(o, [r EXCEPT !.max = TokenCount(o, total)]))
    <3>1. PICK total \in 0..MaxTotal :
             Handle(o, CASE reply.body = "empty" -> Done(o, "502")
                         [] reply.body # "empty" /\ TokenCount(o, total) > MaxCap -> Done(o, "broken")
                         [] OTHER -> AfterToken(o, [r EXCEPT !.max = TokenCount(o, total)]))
      BY <1>4, <2>0 DEF BalancePassed
    <3>2. CASE reply.body = "empty"
      BY <3>1, <3>2
    <3>3. CASE reply.body # "empty" /\ TokenCount(o, total) > MaxCap
      BY <3>1, <3>3
    <3>4. CASE reply.body # "empty" /\ ~(TokenCount(o, total) > MaxCap)
      BY <3>1, <3>4
    <3> QED  BY <3>2, <3>3, <3>4
  <2> DEFINE r2 == [r EXCEPT !.max = TokenCount(o, total)]
  <2>2. TokenCount(o, total) \in Nat
    BY <1>1, TokenCountType
  <2>3. r2 \in Request /\ r2.nodes # <<>>
    BY <1>1, <2>2 DEF Request
  <2>4. Good(Done(o, "502")) /\ Good(Done(o, "broken"))
    BY <1>1, DoneType DEF Good, RoundOK, Answers
  <2> HIDE DEF r2
  <2>5. Good(AfterToken(o, r2))
    BY <2>3, AfterTokenGood
  <2> QED  BY <2>1, <2>4, <2>5, HandleGood DEF r2
<1>5. CASE TokenPassed(o, reply)
  <2> DEFINE items == IF reply.body = "result" THEN r.items + 1 ELSE r.items
             r2 == [r EXCEPT !.items = items]
  <2>1. Handle(o, AfterToken(o, r2))
    BY <1>5 DEF TokenPassed
  <2>2. items \in Nat
    BY <1>1
  <2> HIDE DEF items
  <2>3. r2 \in Request /\ r2.nodes # <<>>
    BY <1>1, <2>2 DEF Request
  <2> HIDE DEF r2
  <2> QED  BY <2>1, <2>3, AfterTokenGood, HandleGood
<1> QED  BY <1>2, <1>3, <1>4, <1>5
-----------------------------------------------------------------------------
(* Listings *)

LEMMA HandleCount ==
    ASSUME TypeOK, CountsOK, NEW o \in Requests, NEW r, CountOK(r), Handle(o, r)
    PROVE  CountsOK'
<1>1. \A p \in Requests : req'[p] = IF p = o THEN r ELSE req[p]
  BY DEF TypeOK, Handle
<1>2. \A p \in Requests : CountOK(req'[p])
  BY <1>1 DEF CountsOK
<1> QED  BY <1>2 DEF CountsOK, CountOK

LEMMA SameCount ==
    ASSUME CountsOK, UNCHANGED req
    PROVE  CountsOK'
<1>1. \A p \in Requests : req'[p] = req[p]
  OBVIOUS
<1>2. \A p \in Requests : CountOK(req'[p])
  BY <1>1 DEF CountsOK
<1> QED  BY <1>2 DEF CountsOK, CountOK

\* A handler that ends otherwise than with a listing.
LEMMA DoneCount ==
    ASSUME NEW o, NEW answer, answer # "200"
    PROVE  CountOK(Done(o, answer))
<1>1. Done(o, answer).pc = "done" /\ Done(o, answer).answer = answer
  BY DEF Done, Idle
<1> QED  BY <1>1 DEF CountOK

LEMMA NextRoundCount ==
    ASSUME NEW r \in Request, r.answer # "200",
           IF r.round <= 2 THEN r.items = 0 ELSE r.items <= r.round - 3 /\ r.round - 2 <= r.max
    PROVE  CountOK(NextRound(r))
<1> DEFINE r2 == NextRound(r)
<1>1. r2.round = r.round /\ r2.items = r.items /\ r2.max = r.max /\ r2.answer = r.answer
  BY DEF NextRound, Request
<1> HIDE DEF r2
<1>2. CountOK(r2)
  BY <1>1 DEF CountOK
<1> QED  BY <1>2 DEF r2

\* After the call for a token, or after the balance.
LEMMA AfterTokenCount ==
    ASSUME NEW o, NEW r \in Request, r.answer # "200", r.round >= 2,
           r.items <= r.round - 2, r.round - 2 <= r.max
    PROVE  CountOK(AfterToken(o, r))
<1>0. r.round \in Nat /\ r.items \in Nat /\ r.max \in Nat
  BY DEF Request
<1>1. CASE r.round - 2 < r.max
  <2> DEFINE r2 == [r EXCEPT !.round = @ + 1]
  <2>1. /\ r2 \in Request /\ r2.round = r.round + 1 /\ r2.items = r.items
        /\ r2.max = r.max /\ r2.answer = r.answer
    <3>1. r.round + 1 \in Nat
      BY <1>0
    <3> QED  BY <3>1 DEF Request
  <2>2. AfterToken(o, r) = NextRound(r2)
    BY <1>1 DEF AfterToken
  <2> HIDE DEF r2
  <2> QED  BY <1>0, <1>1, <2>1, <2>2, NextRoundCount
<1>2. CASE ~(r.round - 2 < r.max)
  <2> DEFINE r2 == [Idle EXCEPT !.pc = "done", !.answer = "200", !.round = r.round,
                                !.max = r.max, !.items = r.items]
  <2>1. AfterToken(o, r) = r2
    BY <1>2 DEF AfterToken
  <2>2. /\ r2.pc = "done" /\ r2.answer = "200" /\ r2.round = r.round
        /\ r2.max = r.max /\ r2.items = r.items
    BY DEF Idle
  <2> HIDE DEF r2
  <2>3. CountOK(r2)
    BY <1>0, <1>2, <2>2 DEF CountOK
  <2> QED  BY <2>1, <2>3
<1> QED  BY <1>1, <1>2

LEMMA ArriveCount ==
    ASSUME TypeOK, CountsOK, NEW o \in Requests, Arrive(o)
    PROVE  CountsOK'
<1>1. PICK list \in Lists :
         Handle(o, CASE list = <<>> -> Done(o, "503")
                     [] list # <<>> /\ o.op = "Serve" -> Serve(o, list)
                     [] OTHER -> NextRound([Idle EXCEPT !.nodes = list]))
  BY DEF Arrive
<1>2. CASE list = <<>>
  BY <1>1, <1>2, DoneCount, HandleCount
<1>3. CASE list # <<>> /\ o.op = "Serve"
  <2>1. Handle(o, Serve(o, list))
    BY <1>1, <1>3
  <2>2. CountOK(Serve(o, list))
    <3> DEFINE nodes == Allowed(list, Adapt(o, list[1].url).hosts)
               r == [Idle EXCEPT !.pc = "send", !.nodes = nodes, !.todo = DOMAIN nodes,
                                 !.shape = Adapt(o, list[1].url).shape, !.sent = Adapt(o, list[1].url).body]
    <3>1. Serve(o, list) = Done(o, "503") \/ Serve(o, list) = r
      BY DEF Serve
    <3>2. r.answer = "none" /\ r.round = 1 /\ r.items = 0
      BY DEF Idle
    <3> HIDE DEF r
    <3>3. CountOK(r)
      BY <3>2 DEF CountOK
    <3> QED  BY <3>1, <3>3, DoneCount
  <2> QED  BY <2>1, <2>2, HandleCount
<1>4. CASE list # <<>> /\ o.op # "Serve"
  <2> DEFINE r == [Idle EXCEPT !.nodes = list]
  <2>1. Handle(o, NextRound(r))
    BY <1>1, <1>4
  <2>2. r \in Request /\ r.answer = "none" /\ r.round = 1 /\ r.items = 0
    <3>1. list \in Seq(Node)
      BY ForwardingAssumption
    <3> QED  BY <3>1, IdleType DEF Idle, Request
  <2> HIDE DEF r
  <2>3. CountOK(NextRound(r))
    BY <2>2, NextRoundCount
  <2> QED  BY <2>1, <2>3, HandleCount
<1> QED  BY <1>2, <1>3, <1>4

\* A step within a round leaves the counts alone.
LEMMA InRoundCount ==
    ASSUME TypeOK, CountsOK, NEW o \in Requests, req[o].pc \in {"group", "send", "wait"},
           NEW r, Handle(o, r), r.pc \in {"group", "send", "wait"},
           r.round = req[o].round, r.items = req[o].items, r.max = req[o].max,
           r.answer = req[o].answer
    PROVE  CountsOK'
<1>1. CountOK(req[o])
  BY DEF CountsOK
<1>2. CountOK(r)
  BY <1>1 DEF CountOK
<1> QED  BY <1>2, HandleCount

LEMMA RoundPassedCount ==
    ASSUME TypeOK, CountsOK, NEW o \in Requests, RoundPassed(o)
    PROVE  CountsOK'
<1> DEFINE r == req[o]
<1>1. /\ r \in Request /\ r.round \in Nat /\ r.items \in Nat /\ r.max \in Nat
      /\ o.op = "NFTGetAllNFTs" /\ r.pc = "wait"
  BY DEF TypeOK, Request, RoundPassed
<1>2. /\ IF r.round <= 2 THEN r.items = 0 ELSE r.items <= r.round - 3 /\ r.round - 2 <= r.max
      /\ r.answer # "200"
  BY <1>1 DEF CountsOK, CountOK
<1>3. PICK reply \in Replies : SupportPassed(o) \/ BalancePassed(o, reply) \/ TokenPassed(o, reply)
  BY DEF RoundPassed
<1>4. CASE SupportPassed(o)
  <2> DEFINE r2 == [r EXCEPT !.round = 2]
  <2>1. r.round = 1 /\ Handle(o, NextRound(r2))
    BY <1>4 DEF SupportPassed
  <2>2. r2 \in Request /\ r2.round = 2 /\ r2.items = r.items /\ r2.answer = r.answer
    BY <1>1 DEF Request
  <2> HIDE DEF r2
  <2>3. CountOK(NextRound(r2))
    BY <1>2, <2>1, <2>2, NextRoundCount
  <2> QED  BY <2>1, <2>3, HandleCount
<1>5. CASE BalancePassed(o, reply)
  <2>0. MaxTotal \in Nat
    BY ForwardingAssumption
  <2>1. r.round = 2 /\ r.items = 0
    BY <1>2, <1>5 DEF BalancePassed
  <2>2. PICK total \in 0..MaxTotal :
           Handle(o, CASE reply.body = "empty" -> Done(o, "502")
                       [] reply.body # "empty" /\ TokenCount(o, total) > MaxCap -> Done(o, "broken")
                       [] OTHER -> AfterToken(o, [r EXCEPT !.max = TokenCount(o, total)]))
    BY <1>5, <2>0 DEF BalancePassed
  <2> DEFINE count == TokenCount(o, total)
             r2 == [r EXCEPT !.max = count]
  <2>3. count \in Nat
    BY <1>1, TokenCountType
  <2>4. /\ r2 \in Request /\ r2.round = 2 /\ r2.items = 0 /\ r2.max = count
        /\ r2.answer = r.answer
    BY <1>1, <2>1, <2>3 DEF Request
  <2> HIDE DEF r2, count
  <2>5. CountOK(AfterToken(o, r2))
    BY <1>2, <2>3, <2>4, AfterTokenCount
  <2>6. CASE reply.body = "empty"
    BY <2>2, <2>6, DoneCount, HandleCount
  <2>7. CASE reply.body # "empty" /\ count > MaxCap
    BY <2>2, <2>7, DoneCount, HandleCount DEF count
  <2>8. CASE reply.body # "empty" /\ ~(count > MaxCap)
    <3>1. Handle(o, AfterToken(o, r2))
      BY <2>2, <2>8 DEF count, r2
    <3> QED  BY <2>5, <3>1, HandleCount
  <2> QED  BY <2>6, <2>7, <2>8
<1>6. CASE TokenPassed(o, reply)
  <2> DEFINE items == IF reply.body = "result" THEN r.items + 1 ELSE r.items
             r2 == [r EXCEPT !.items = items]
  <2>1. r.round > 2 /\ Handle(o, AfterToken(o, r2))
    BY <1>6 DEF TokenPassed
  <2>2. items \in Nat /\ items <= r.items + 1
    BY <1>1
  <2> HIDE DEF items
  <2>3. /\ r2 \in Request /\ r2.round = r.round /\ r2.items = items /\ r2.max = r.max
        /\ r2.answer = r.answer
    BY <1>1, <2>2 DEF Request
  <2> HIDE DEF r2
  <2>4. CountOK(AfterToken(o, r2))
    BY <1>1, <1>2, <2>1, <2>2, <2>3, AfterTokenCount
  <2> QED  BY <2>1, <2>4, HandleCount
<1> QED  BY <1>3, <1>4, <1>5, <1>6

LEMMA CountStep ==
    ASSUME TypeOK, CountsOK, NEW o \in Requests, Step(o)
    PROVE  CountsOK'
<1> DEFINE r == req[o]
<1>0. r \in Request /\ r.round \in Nat /\ r.items \in Nat /\ r.max \in Nat
  BY DEF TypeOK, Request
<1>1. CASE Group(o)
  <2> DEFINE i == r.seen + 1
             out == IsThrottled(r.nodes[i].url)
             r2 == [r EXCEPT !.seen = i,
                             !.todo = IF out THEN @ ELSE @ \cup {i},
                             !.skipped = IF out THEN @ \cup {i} ELSE @,
                             !.pc = IF i = Len(r.nodes) THEN "send" ELSE @]
  <2>1. r.pc = "group" /\ Handle(o, r2)
    BY <1>1 DEF Group
  <2>2. /\ r2.pc \in {"group", "send"} /\ r2.round = r.round /\ r2.items = r.items
        /\ r2.max = r.max /\ r2.answer = r.answer
    BY <1>0, <2>1 DEF Request
  <2> HIDE DEF r2
  <2> QED  BY <2>1, <2>2, InRoundCount
<1>2. CASE Send(o)
  <2> DEFINE r2 == [r EXCEPT !.pc = "wait"]
  <2>1. r.pc = "send" /\ Handle(o, r2)
    BY <1>2 DEF Send
  <2>2. /\ r2.pc = "wait" /\ r2.round = r.round /\ r2.items = r.items /\ r2.max = r.max
        /\ r2.answer = r.answer
    BY <1>0 DEF Request
  <2> HIDE DEF r2
  <2> QED  BY <2>1, <2>2, InRoundCount
<1>3. CASE SendPanics(o)
  BY <1>3, DoneCount, HandleCount DEF SendPanics
<1>4. CASE Refused(o) \/ Limited(o)
  <2> DEFINE r2 == [r EXCEPT !.pc = "send", !.todo = @ \ {First(o)}, !.failed = @ \cup {First(o)}]
  <2>1. r.pc = "wait" /\ Handle(o, r2)
    BY <1>4 DEF Refused, Limited, GoOn
  <2>2. /\ r2.pc = "send" /\ r2.round = r.round /\ r2.items = r.items /\ r2.max = r.max
        /\ r2.answer = r.answer
    BY <1>0 DEF Request
  <2> HIDE DEF r2
  <2> QED  BY <2>1, <2>2, InRoundCount
<1>5. CASE Exhausted(o)
  <2>1. /\ r.pc = "send"
        /\ Handle(o, IF o.op = "NFTGetAllNFTs" /\ r.round > 2 THEN AfterToken(o, r) ELSE Done(o, "502"))
    BY <1>5 DEF Exhausted
  <2>2. /\ IF r.round <= 2 THEN r.items = 0 ELSE r.items <= r.round - 3 /\ r.round - 2 <= r.max
        /\ r.answer # "200"
    BY <2>1 DEF CountsOK, CountOK
  <2>3. CASE o.op = "NFTGetAllNFTs" /\ r.round > 2
    <3>1. CountOK(AfterToken(o, r))
      BY <1>0, <2>2, <2>3, AfterTokenCount
    <3> QED  BY <2>1, <2>3, <3>1, HandleCount
  <2>4. CASE ~(o.op = "NFTGetAllNFTs" /\ r.round > 2)
    BY <2>1, <2>4, DoneCount, HandleCount
  <2> QED  BY <2>3, <2>4
<1>6. CASE Passed(o)
  <2>1. PICK back : Handle(o, [Done(o, "passed") EXCEPT !.back = back])
    BY <1>6 DEF Passed
  <2> DEFINE r2 == [Done(o, "passed") EXCEPT !.back = back]
  <2>2. r2.pc = "done" /\ r2.answer = "passed"
    BY DEF Done, Idle
  <2> HIDE DEF r2
  <2>3. CountOK(r2)
    BY <2>2 DEF CountOK
  <2> QED  BY <2>1, <2>3, HandleCount DEF r2
<1>7. CASE RoundPassed(o)
  BY <1>7, RoundPassedCount
<1> QED  BY <1>1, <1>2, <1>3, <1>4, <1>5, <1>6, <1>7 DEF Step

-----------------------------------------------------------------------------
(* The theorems *)

ForwardInv == TypeOK /\ RoundsOK /\ WindowsOK

LEMMA ForwardInit == Init => ForwardInv
<1> SUFFICES ASSUME Init PROVE ForwardInv
  OBVIOUS
<1>1. TypeOK /\ RoundsOK
  BY IdleType DEF Init, NewThrottler, TypeOK, ThrottlerTypeOK, RoundsOK
<1>2. WindowsOK
  BY DEF Init, NewThrottler, WindowsOK
<1> QED  BY <1>1, <1>2 DEF ForwardInv

\* What a step does to the throttler and to the requests.
LEMMA ForwardMoves ==
    ASSUME ForwardInv, [Next]_vars
    PROVE  Throttled /\ req' \in [Requests -> Request] /\ RoundsOK'
<1> USE DEF ForwardInv
<1>1. CASE UNCHANGED vars
  BY <1>1 DEF vars, Throttled, TypeOK, RoundsOK
<1>2. CASE Tick
  BY <1>2 DEF Tick, Throttled, TypeOK, RoundsOK
<1>3. ASSUME NEW o \in Requests, Arrive(o) \/ Step(o)
      PROVE  Throttled /\ req' \in [Requests -> Request] /\ RoundsOK'
  <2>1. CASE Arrive(o)
    BY <2>1, ArriveGood DEF Arrive, Throttled
  <2>2. CASE Group(o)
    BY <2>2, GroupGood DEF Group, Throttled
  <2>3. CASE Send(o)
    BY <2>3, SendGood DEF Send, Throttled
  <2>10. CASE SendPanics(o)
    BY <2>10, SendPanicsGood DEF SendPanics, Throttled
  <2>4. CASE Refused(o)
    BY <2>4, GoOnGood DEF Refused, Throttled
  <2>5. ASSUME req[o].pc = "wait" PROVE Tried(o).url \in Urls
    <3>1. Tried(o) \in Node
      BY <2>5, RoundFields, FirstIsFirst DEF Good
    <3> QED  BY <3>1 DEF Node
  <2>6. CASE Limited(o)
    BY <2>5, <2>6, GoOnGood DEF Limited, Throttled
  <2>7. CASE Exhausted(o)
    BY <2>7, ExhaustedGood DEF Exhausted, Throttled
  <2>8. CASE Passed(o)
    BY <2>5, <2>8, PassedGood DEF Passed, Throttled
  <2>9. CASE RoundPassed(o)
    BY <2>5, <2>9, RoundPassedGood DEF RoundPassed, Throttled
  <2> QED  BY <1>3, <2>1, <2>2, <2>3, <2>4, <2>6, <2>7, <2>8, <2>9, <2>10 DEF Step
<1> QED  BY <1>1, <1>2, <1>3 DEF Next

LEMMA ForwardStep == ForwardInv /\ [Next]_vars => ForwardInv'
<1> SUFFICES ASSUME ForwardInv, [Next]_vars PROVE ForwardInv'
  OBVIOUS
<1>1. Throttled /\ req' \in [Requests -> Request] /\ RoundsOK'
  BY ForwardMoves
<1>2. ThrottlerTypeOK' /\ WindowsOK'
  BY <1>1, WindowsStep DEF ForwardInv, TypeOK
<1> QED  BY <1>1, <1>2 DEF ForwardInv, TypeOK

\* Every request is in a place the handlers know, and no candidate of a round
\* is lost.
THEOREM TypeCorrect == Spec => [](TypeOK /\ RoundsOK)
<1>1. ForwardInv => TypeOK /\ RoundsOK
  BY DEF ForwardInv
<1> QED  BY ForwardInit, ForwardStep, <1>1, PTL DEF Spec

\* However many requests mark and reset an upstream at once, it is never left
\* alone for longer than MaxBackoff, and a window always comes with a count.
THEOREM Bounded == Spec => []BackoffBounded
<1>1. ForwardInv => BackoffBounded
  <2> SUFFICES ASSUME ForwardInv, NEW url \in Urls
               PROVE  /\ until[url] <= now + MaxBackoff
                      /\ until[url] = 0 <=> backoffs[url] = 0
    BY DEF BackoffBounded
  <2>1. until[url] \in Nat /\ backoffs[url] \in Nat /\ now \in Nat /\ MaxBackoff \in Nat
    BY ThrottlerAssumption DEF ForwardInv, TypeOK, ThrottlerTypeOK
  <2>2. Backoff(backoffs[url]) \in Nat /\ Backoff(backoffs[url]) <= MaxBackoff
    BY <2>1, BackoffGrows, ThrottlerAssumption
  <2> QED  BY <2>1, <2>2 DEF ForwardInv, WindowsOK
<1> QED  BY ForwardInit, ForwardStep, <1>1, PTL DEF Spec

\* One more 429 answer never shortens a window.
THEOREM Grows == Spec => WindowGrows
<1>1. ForwardInv /\ [Next]_vars =>
         [\A url \in Urls : backoffs'[url] > backoffs[url] => until'[url] >= until[url]]_<<until, backoffs>>
  BY ForwardMoves, WindowsStep DEF ForwardInv, TypeOK
<1> QED  BY ForwardInit, ForwardStep, <1>1, PTL DEF Spec, WindowGrows

\* Failover goes by the order of the list, or by priority.
THEOREM InOrder == Spec => []PrimaryFirst
<1>1. ForwardInv => PrimaryFirst
  <2> SUFFICES ASSUME ForwardInv, NEW o \in Requests, req[o].pc = "wait",
                      NEW j \in DOMAIN req[o].nodes, Before(o, j, First(o))
               PROVE  j \in req[o].failed \cup req[o].skipped
    BY DEF PrimaryFirst
  <2> DEFINE r == req[o]  i == First(o)
  <2>1. /\ RoundOK(r) /\ r.nodes \in Seq(Node) /\ DOMAIN r.nodes = 1..Len(r.nodes)
        /\ Len(r.nodes) \in Nat
    BY RoundFields DEF ForwardInv, Good
  <2>2. /\ i \in DOMAIN r.nodes
        /\ \A k \in r.todo : i = k \/ Before(o, i, k)
    BY <2>1, FirstIsFirst DEF ForwardInv
  <2>3. j \in r.todo \cup r.skipped \cup r.failed
    BY <2>1 DEF RoundOK
  <2>4. j \notin r.todo
    <3> SUFFICES ASSUME j \in r.todo PROVE FALSE
      OBVIOUS
    <3>1. i = j \/ Before(o, i, j)
      BY <2>2
    <3>2. /\ r.nodes[i].prio \in Int /\ r.nodes[j].prio \in Int /\ i \in Nat /\ j \in Nat
      <4>1. r.nodes[i] \in Node /\ r.nodes[j] \in Node
        BY <2>1, <2>2
      <4>2. \A n \in Node : n.prio \in Int
        BY NodesAssumption DEF Node
      <4> QED  BY <2>1, <2>2, <4>1, <4>2
    <3> HIDE DEF i
    <3>3. Before(o, j, i)
      BY DEF i
    <3> QED  BY <3>1, <3>2, <3>3 DEF Before
  <2> QED  BY <2>3, <2>4
<1> QED  BY ForwardInit, ForwardStep, <1>1, PTL DEF Spec

\* A round is given up only when every candidate failed or was left out.
THEOREM NoneForgotten == Spec => GivesUpLate
<1>1. ForwardInv /\ [Next]_vars =>
         [\A o \in Requests : Exhausted(o) =>
             req[o].failed \cup req[o].skipped = DOMAIN req[o].nodes]_vars
  BY DEF ForwardInv, RoundsOK, RoundOK, Exhausted
<1> QED  BY ForwardInit, ForwardStep, <1>1, PTL DEF Spec, GivesUpLate

CountInv == ForwardInv /\ CountsOK

\* Whatever the upstreams answer and however the balance wraps around, a
\* listing that is answered had a round for each token that it counted and
\* lists no more than those.
THEOREM ListsAll == Spec => []ListingComplete
<1>1. Init => CountInv
  <2> SUFFICES ASSUME Init PROVE CountsOK
    BY ForwardInit DEF CountInv
  <2>1. CountOK(Idle) /\ CountOK([Idle EXCEPT !.pc = "done"])
    BY DEF CountOK, Idle
  <2> QED  BY <2>1 DEF Init, CountsOK
<1>2. CountInv /\ [Next]_vars => CountInv'
  <2> SUFFICES ASSUME CountInv, [Next]_vars PROVE CountInv'
    OBVIOUS
  <2>1. TypeOK /\ CountsOK
    BY DEF CountInv, ForwardInv
  <2>2. ForwardInv'
    BY ForwardStep DEF CountInv
  <2>3. ASSUME NEW o \in Requests, Arrive(o) \/ Step(o) PROVE CountsOK'
    BY <2>1, <2>3, ArriveCount, CountStep
  <2>4. ASSUME UNCHANGED req PROVE CountsOK'
    BY <2>1, <2>4, SameCount
  <2> QED  BY <2>2, <2>3, <2>4 DEF CountInv, Next, Tick, vars
<1>3. CountInv => ListingComplete
  BY DEF CountInv, CountsOK, CountOK, ListingComplete
<1> QED  BY <1>1, <1>2, <1>3, PTL DEF Spec

=============================================================================
