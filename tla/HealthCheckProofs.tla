-------------------------- MODULE HealthCheckProofs --------------------------
(***************************************************************************)
(* One call of UpdateNetwork, for every list of nodes, every protocol and  *)
(* whatever the upstreams reply.  The loop that looks for the fastest of a *)
(* group is followed turn by turn (FastestIsLeast); with ResultsOK, which  *)
(* says what the checks have found so far, the answer is shown to be what  *)
(* the callers of UpdateNetwork rely on, and one of the Outcomes by which  *)
(* ControlPlane represents a check.                                        *)
(***************************************************************************)
EXTENDS HealthCheck, NodeListsProofs
-----------------------------------------------------------------------------
(* The fastest of a group *)

\* The values that fastest takes in the first n turns of the loop.
Turns(group, n, f) ==
    /\ DOMAIN f = 1..n
    /\ \A i \in 1..n :
          f[i] = IF i = 1 \/ group[i].ping < f[i - 1].ping THEN group[i] ELSE f[i - 1]

LEMMA TurnsExist ==
    ASSUME NEW group
    PROVE  \A n \in Nat : \E f : Turns(group, n, f)
<1> DEFINE Bad == {n \in Nat : ~\E f : Turns(group, n, f)}
<1> SUFFICES ASSUME Bad # {} PROVE FALSE
  OBVIOUS
<1>1. PICK n \in Bad : \A j \in Bad : n <= j
  <2>1. Bad \in SUBSET Nat
    OBVIOUS
  <2> HIDE DEF Bad
  <2> QED  BY <2>1, LeastNat
<1>2. n \in Nat /\ ~\E f : Turns(group, n, f)
  BY <1>1
<1>3. n # 0
  <2> SUFFICES ASSUME n = 0 PROVE FALSE
    OBVIOUS
  <2> DEFINE f == [i \in 1..0 |-> 0]
  <2>1. Turns(group, 0, f)
    BY DEF Turns
  <2> QED  BY <1>2, <2>1
<1>4. n - 1 \in Nat /\ n - 1 \notin Bad
  BY <1>1, <1>2, <1>3
<1>5. PICK g : Turns(group, n - 1, g)
  BY <1>4
<1> DEFINE f == [i \in 1..n |-> IF i = 1 \/ group[i].ping < g[i - 1].ping THEN group[i] ELSE g[i - 1]]
<1>6. ASSUME NEW i \in 1..n
      PROVE  f[i] = IF i = 1 \/ group[i].ping < f[i - 1].ping THEN group[i] ELSE f[i - 1]
  <2>1. CASE i = 1
    BY <2>1
  <2>2. CASE i # 1
    <3>1. i - 1 \in 1..(n - 1) /\ i - 1 \in 1..n
      BY <1>2, <2>2
    <3>2. g[i - 1] = IF i - 1 = 1 \/ group[i - 1].ping < g[(i - 1) - 1].ping
                     THEN group[i - 1] ELSE g[(i - 1) - 1]
      BY <1>5, <3>1 DEF Turns
    <3>3. f[i - 1] = g[i - 1]
      BY <3>1, <3>2
    <3> QED  BY <3>3
  <2> QED  BY <2>1, <2>2
<1>7. DOMAIN f = 1..n
  OBVIOUS
<1> HIDE DEF f
<1>8. Turns(group, n, f)
  BY <1>6, <1>7 DEF Turns
<1> QED  BY <1>2, <1>8

\* Whatever turns the loop takes, the last value is a node of the group, and
\* no node seen before is faster.
LEMMA TurnsLeast ==
    ASSUME NEW group, NEW n \in Nat, NEW f, Turns(group, n, f),
           \A i \in 1..n : group[i].ping \in Nat
    PROVE  \A k \in 1..n : /\ \E i \in 1..k : f[k] = group[i]
                           /\ \A i \in 1..k : f[k].ping <= group[i].ping
<1> DEFINE Fine(k) == /\ \E i \in 1..k : f[k] = group[i]
                      /\ \A i \in 1..k : f[k].ping <= group[i].ping
           Bad == {k \in 1..n : ~Fine(k)}
<1> SUFFICES ASSUME Bad # {} PROVE FALSE
  OBVIOUS
<1>1. PICK k \in Bad : \A j \in Bad : k <= j
  <2>1. Bad \in SUBSET Nat
    OBVIOUS
  <2> HIDE DEF Bad
  <2> QED  BY <2>1, LeastNat
<1>2. k \in 1..n /\ ~Fine(k)
  BY <1>1
<1>3. f[k] = IF k = 1 \/ group[k].ping < f[k - 1].ping THEN group[k] ELSE f[k - 1]
  BY <1>2 DEF Turns
<1>4. CASE k = 1
  <2>1. f[k] = group[1] /\ 1..k = {1} /\ group[1].ping \in Nat
    BY <1>2, <1>3, <1>4
  <2> QED  BY <1>2, <2>1
<1>5. CASE k # 1
  <2>1. k - 1 \in 1..n /\ k - 1 \notin Bad /\ 1..k = 1..(k - 1) \cup {k}
    BY <1>1, <1>2, <1>5
  <2>2. Fine(k - 1)
    BY <2>1
  <2>3. PICK j \in 1..(k - 1) : f[k - 1] = group[j]
    BY <2>2
  <2>4. f[k - 1].ping \in Nat /\ group[k].ping \in Nat /\ j \in 1..k
    BY <1>2, <2>1, <2>3
  <2>5. CASE group[k].ping < f[k - 1].ping
    <3>1. f[k] = group[k]
      BY <1>3, <2>5
    <3>2. \A i \in 1..(k - 1) : group[k].ping <= group[i].ping
      BY <1>2, <2>2, <2>4, <2>5
    <3> QED  BY <1>2, <2>1, <2>4, <3>1, <3>2
  <2>6. CASE ~(group[k].ping < f[k - 1].ping)
    <3>1. f[k] = f[k - 1]
      BY <1>3, <1>5, <2>6
    <3> QED  BY <1>2, <2>1, <2>2, <2>3, <2>4, <2>6, <3>1
  <2> QED  BY <2>5, <2>6
<1> QED  BY <1>4, <1>5

\* The parts of a result.
LEMMA CheckedParts ==
    ASSUME NEW c \in Checked
    PROVE  /\ c.url \in Urls /\ c.prio \in Prios /\ c.prio \in Int
           /\ c.ping \in Nat
           /\ AsNode(c) \in Node /\ AsNode(c).url = c.url /\ AsNode(c).prio = c.prio
<1>1. c.url \in Urls /\ c.prio \in Prios /\ c.ping \in Pings \cup {0}
  BY DEF Checked
<1>2. Pings \cup {0} \subseteq Nat /\ Prios \subseteq Int
  BY HealthCheckAssumption, NodesAssumption
<1>3. c.ping \in Nat /\ c.prio \in Int
  BY <1>1, <1>2
<1> QED  BY <1>1, <1>3 DEF AsNode, Node

\* Fastest answers a node of the group, and none of the group is faster.
LEMMA FastestIsLeast ==
    ASSUME NEW group \in Seq(Checked), group # <<>>
    PROVE  /\ \E i \in DOMAIN group : Fastest(group) = group[i]
           /\ \A i \in DOMAIN group : Fastest(group).ping <= group[i].ping
<1> DEFINE n == Len(group)
           Is(f) == f = [i \in 1..n |-> IF i = 1 \/ group[i].ping < f[i - 1].ping
                                        THEN group[i] ELSE f[i - 1]]
<1>1. n \in Nat /\ n >= 1 /\ DOMAIN group = 1..n
  OBVIOUS
<1>2. \E f : Is(f)
  <2>1. PICK f : Turns(group, n, f)
    BY <1>1, TurnsExist
  <2>2. DOMAIN f = 1..n
    BY <2>1 DEF Turns
  <2> DEFINE g == [i \in 1..n |-> f[i]]
  <2>3. ASSUME NEW i \in 1..n
        PROVE  g[i] = IF i = 1 \/ group[i].ping < g[i - 1].ping THEN group[i] ELSE g[i - 1]
    <3>1. f[i] = IF i = 1 \/ group[i].ping < f[i - 1].ping THEN group[i] ELSE f[i - 1]
      BY <2>1, <2>3 DEF Turns
    <3>2. i # 1 => i - 1 \in 1..n
      BY <1>1
    <3>3. g[i] = f[i] /\ (i # 1 => g[i - 1] = f[i - 1])
      BY <3>2
    <3> HIDE DEF g
    <3> QED  BY <3>1, <3>3
  <2>4. g = [i \in 1..n |-> g[i]]
    OBVIOUS
  <2> HIDE DEF g
  <2>5. Is(g)
    BY <2>3, <2>4
  <2> QED  BY <2>5
<1> DEFINE h == CHOOSE f : Is(f)
<1>3. Is(h)
  BY <1>2
<1>4. Fastest(group) = h[n]
  BY DEF Fastest
<1> HIDE DEF h
<1>5. Turns(group, n, h)
  BY <1>3 DEF Turns
<1>6. \A i \in 1..n : group[i].ping \in Nat
  <2>1. \A i \in 1..n : group[i] \in Checked
    BY <1>1
  <2>2. \A c \in Checked : c.ping \in Nat
    BY CheckedParts
  <2> QED  BY <2>1, <2>2
<1> HIDE DEF n
<1>7. \A k \in 1..n : /\ \E i \in 1..k : h[k] = group[i]
                      /\ \A i \in 1..k : h[k].ping <= group[i].ping
  BY <1>1, <1>5, <1>6, TurnsLeast
<1>8. /\ \E i \in 1..n : h[n] = group[i]
      /\ \A i \in 1..n : h[n].ping <= group[i].ping
  BY <1>1, <1>7
<1> QED  BY <1>1, <1>4, <1>8

\* The fastest of the nodes that I holds of one priority.
LEMMA GroupFastest ==
    ASSUME NEW checked \in Seq(Checked), NEW I \in SUBSET DOMAIN checked,
           NEW p \in {checked[i].prio : i \in I}
    PROVE  /\ \E i \in I : checked[i].prio = p /\ Fastest(Group(checked, I, p)) = checked[i]
           /\ \A i \in I : checked[i].prio = p =>
                 Fastest(Group(checked, I, p)).ping <= checked[i].ping
<1> DEFINE J == {i \in I : checked[i].prio = p}
           g == Group(checked, I, p)
<1>1. J \in SUBSET DOMAIN checked /\ J # {}
  OBVIOUS
<1>2. g = Kept(checked, J)
  BY DEF Group
<1>3. /\ g \in Seq(Checked) /\ Elements(g) = {checked[i] : i \in J}
  <2> HIDE DEF J, g
  <2> QED  BY <1>1, <1>2, KeptIsList
<1>4. g # <<>>
  <2>1. PICK i \in J : TRUE
    BY <1>1
  <2>2. checked[i] \in Elements(g)
    BY <1>3, <2>1
  <2> HIDE DEF g
  <2>3. \E k \in DOMAIN g : g[k] = checked[i]
    BY <2>2 DEF Elements
  <2> QED  BY <2>3
<1> HIDE DEF g
<1>5. /\ \E k \in DOMAIN g : Fastest(g) = g[k]
      /\ \A k \in DOMAIN g : Fastest(g).ping <= g[k].ping
  BY <1>3, <1>4, FastestIsLeast
<1>6. \E i \in J : Fastest(g) = checked[i]
  BY <1>3, <1>5 DEF Elements
<1>7. \A i \in J : Fastest(g).ping <= checked[i].ping
  <2> TAKE i \in J
  <2>1. PICK k \in DOMAIN g : g[k] = checked[i]
    BY <1>3 DEF Elements
  <2> QED  BY <1>5, <2>1
<1> QED  BY <1>6, <1>7 DEF g

-----------------------------------------------------------------------------
(* The answer *)

\* The priorities of some results are finitely many integers.
LEMMA PriosFinite ==
    ASSUME NEW checked \in Seq(Checked), NEW I \in SUBSET DOMAIN checked
    PROVE  /\ {checked[i].prio : i \in I} \in SUBSET Int
           /\ IsFiniteSet({checked[i].prio : i \in I})
<1>1. \A i \in I : checked[i] \in Checked
  OBVIOUS
<1>2. {checked[i].prio : i \in I} \subseteq Prios
  BY <1>1, CheckedParts
<1> QED  BY <1>2, NodesAssumption, FS_Subset

\* One node per priority, in order of priority, none slower than another of
\* its priority.
LEMMA AnswerFacts ==
    ASSUME NEW checked \in Seq(Checked), NEW I \in SUBSET DOMAIN checked
    PROVE  LET A == FastestOf(checked, I)
               P == {checked[i].prio : i \in I}
           IN  /\ DOMAIN A = 1..Cardinality(P)
               /\ \A k \in DOMAIN A :
                     /\ A[k].prio = Nth(P, k)
                     /\ \E i \in I : A[k] = checked[i]
                     /\ \A i \in I : checked[i].prio = A[k].prio => A[k].ping <= checked[i].ping
               /\ Ordered(A)
               /\ PriosOf(Elements(A)) = P
<1> DEFINE A == FastestOf(checked, I)
           P == {checked[i].prio : i \in I}
<1>1. P \in SUBSET Int /\ IsFiniteSet(P)
  BY PriosFinite
<1>2. DOMAIN A = 1..Cardinality(P)
  BY DEF FastestOf
<1>3. ASSUME NEW k \in 1..Cardinality(P)
      PROVE  /\ A[k].prio = Nth(P, k)
             /\ \E i \in I : A[k] = checked[i]
             /\ \A i \in I : checked[i].prio = A[k].prio => A[k].ping <= checked[i].ping
  <2>1. Nth(P, k) \in P
    <3> HIDE DEF P
    <3> QED  BY <1>1, NthRank
  <2>2. A[k] = Fastest(Group(checked, I, Nth(P, k)))
    BY DEF FastestOf
  <2>3. /\ \E i \in I : checked[i].prio = Nth(P, k) /\ A[k] = checked[i]
        /\ \A i \in I : checked[i].prio = Nth(P, k) => A[k].ping <= checked[i].ping
    <3>1. PICK p \in P : p = Nth(P, k)
      BY <2>1
    <3>2. A[k] = Fastest(Group(checked, I, p))
      BY <2>2, <3>1
    <3>3. /\ \E i \in I : checked[i].prio = p /\ Fastest(Group(checked, I, p)) = checked[i]
          /\ \A i \in I : checked[i].prio = p =>
                Fastest(Group(checked, I, p)).ping <= checked[i].ping
      BY GroupFastest
    <3> HIDE DEF A, P
    <3> QED  BY <3>1, <3>2, <3>3
  <2> HIDE DEF A, P
  <2> QED  BY <2>3
<1> HIDE DEF A
<1>4. Ordered(A)
  <2> SUFFICES ASSUME NEW i \in DOMAIN A, NEW j \in DOMAIN A, i < j
               PROVE  A[i].prio < A[j].prio
    BY DEF Ordered
  <2>1. Nth(P, i) < Nth(P, j)
    <3> HIDE DEF P
    <3> QED  BY <1>1, <1>2, NthIncreasing
  <2> QED  BY <1>2, <1>3, <2>1
<1>5. PriosOf(Elements(A)) = P
  <2>1. \A k \in DOMAIN A : A[k].prio \in P
    BY <1>2, <1>3
  <2>2. ASSUME NEW p \in P PROVE \E k \in DOMAIN A : A[k].prio = p
    <3>1. PICK k \in 1..Cardinality(P) : Nth(P, k) = p
      <4> HIDE DEF P
      <4> QED  BY <1>1, <2>2, NthOnto
    <3> QED  BY <1>2, <1>3, <3>1
  <2> HIDE DEF P
  <2> QED  BY <2>1, <2>2 DEF PriosOf, Elements
<1> HIDE DEF P
<1>6. \A k \in DOMAIN A :
         /\ A[k].prio = Nth(P, k)
         /\ \E i \in I : A[k] = checked[i]
         /\ \A i \in I : checked[i].prio = A[k].prio => A[k].ping <= checked[i].ping
  BY <1>2, <1>3
<1> QED  BY <1>2, <1>4, <1>5, <1>6 DEF A, P

-----------------------------------------------------------------------------
(* The checks, one after the other *)

IInv == TypeOK /\ ResultsOK

\* A URL is marked only when its check did not find it alive, and what is
\* alive answered with success.
LEMMA CheckFacts ==
    ASSUME NEW url, NEW reply \in Replies, protocol \in Protocols
    PROVE  /\ Check(url, reply).alive \in BOOLEAN
           /\ Check(url, reply).alive => Success(reply)
           /\ Check(url, reply).mark => ~Check(url, reply).alive
<1>1. Fatal(url, reply) => ~Success(reply)
  BY DEF Fatal, Success
<1>2. Success(reply) \in BOOLEAN
  BY DEF Success
<1> DEFINE Fair(v) == /\ v.alive \in BOOLEAN
                      /\ v.alive => Success(reply)
                      /\ v.mark => ~v.alive
<1>3. Fair(checkEVM(url, reply))
  BY <1>1, <1>2 DEF checkEVM
<1>4. Fair(checkStatus(url, reply))
  BY <1>1, <1>2 DEF checkStatus
<1>5. Fair(checkBTC(url, reply))
  BY <1>4 DEF checkBTC
<1>6. Fair([alive |-> FALSE, mark |-> FALSE])
  OBVIOUS
<1>7. \/ Check(url, reply) = checkEVM(url, reply)
      \/ Check(url, reply) = checkStatus(url, reply)
      \/ Check(url, reply) = checkBTC(url, reply)
      \/ Check(url, reply) = [alive |-> FALSE, mark |-> FALSE]
  BY Zenon DEF Check, Protocols, checkTRX, checkLTC, checkDOGE, checkSOL
<1> HIDE DEF Fair
<1>8. Fair(Check(url, reply))
  BY <1>3, <1>4, <1>5, <1>6, <1>7
<1> QED  BY <1>8 DEF Fair

LEMMA InitOK == Init => IInv
<1> SUFFICES ASSUME Init PROVE IInv
  OBVIOUS
<1>1. nodes \in Seq(Node)
  BY DEF Init
<1>2. res = <<>> /\ dropURLs = {} /\ protocol \in Protocols
  BY DEF Init
<1> QED  BY <1>1, <1>2 DEF IInv, TypeOK, ResultsOK

LEMMA StepOK == IInv /\ [Next]_vars => IInv'
<1> SUFFICES ASSUME IInv, [Next]_vars PROVE IInv'
  OBVIOUS
<1> USE DEF IInv
<1>1. ASSUME NEW reply \in Replies, NEW ping \in Pings, CheckNext(reply, ping)
      PROVE  IInv'
  <2> DEFINE l == Len(res) + 1
             n == nodes[l]
             verdict == Check(n.url, reply)
             r == [url |-> n.url, prio |-> n.prio, alive |-> verdict.alive,
                   ping |-> IF verdict.alive THEN ping ELSE 0]
  <2>1. /\ Len(res) < Len(nodes)
        /\ Possible(n.url, reply)
        /\ res' = Append(res, r)
        /\ dropURLs' = IF verdict.mark THEN dropURLs \cup {n.url} ELSE dropURLs
        /\ UNCHANGED <<protocol, nodes>>
    BY <1>1 DEF CheckNext
  <2>2. /\ nodes \in Seq(Node) /\ res \in Seq(Checked)
        /\ dropURLs \subseteq Urls /\ protocol \in Protocols
    BY DEF TypeOK
  <2>3. l \in Nat /\ l \in 1..Len(nodes) /\ n \in Node
    BY <2>1, <2>2
  <2>4. n.url \in Urls /\ n.prio \in Prios /\ n = [url |-> n.url, prio |-> n.prio]
    BY <2>3 DEF Node
  <2>5. /\ verdict.alive \in BOOLEAN
        /\ verdict.alive => Success(reply)
        /\ verdict.mark => ~verdict.alive
    BY <2>2, CheckFacts
  <2> HIDE DEF verdict
  <2>6. r \in Checked
    BY <2>4, <2>5 DEF Checked
  <2>7. AsNode(r) = n /\ (r.alive => n.url \notin NeverAlive) /\ r.url = n.url
        /\ r.alive = verdict.alive
    BY <2>1, <2>4, <2>5 DEF AsNode, Possible
  <2> HIDE DEF r, n
  <2>8. TypeOK'
    BY <2>1, <2>2, <2>4, <2>6 DEF TypeOK
  <2>9. Len(res') = l /\ DOMAIN res' = 1..l /\ res'[l] = r
        /\ \A i \in DOMAIN res : i \in DOMAIN res' /\ res'[i] = res[i]
    BY <2>1, <2>2
  <2>10. Len(res') <= Len(nodes')
    BY <2>1, <2>3, <2>9
  <2>11. ASSUME NEW i \in DOMAIN res'
         PROVE  AsNode(res'[i]) = nodes'[i] /\ (res'[i].alive => nodes'[i].url \notin NeverAlive)
    <3>1. CASE i = l
      BY <2>1, <2>7, <2>9, <3>1 DEF n
    <3>2. CASE i # l
      <4>1. i \in DOMAIN res
        BY <2>2, <2>9, <3>2
      <4>2. AsNode(res[i]) = nodes[i] /\ (res[i].alive => nodes[i].url \notin NeverAlive)
        BY <4>1 DEF ResultsOK
      <4> QED  BY <2>1, <2>9, <4>1, <4>2
    <3> QED  BY <3>1, <3>2
  <2>12. ASSUME NEW url \in dropURLs'
         PROVE  \E i \in DOMAIN res' : ~res'[i].alive /\ res'[i].url = url
    <3>1. CASE url \in dropURLs
      <4>1. PICK i \in DOMAIN res : ~res[i].alive /\ res[i].url = url
        BY <3>1 DEF ResultsOK
      <4> QED  BY <2>9, <4>1
    <3>2. CASE url \notin dropURLs
      <4>1. verdict.mark /\ url = n.url
        BY <2>1, <3>2
      <4>2. l \in DOMAIN res'
        BY <2>3, <2>9
      <4> QED  BY <2>5, <2>7, <2>9, <4>1, <4>2
    <3> QED  BY <3>1, <3>2
  <2>13. ResultsOK'
    BY <2>10, <2>11, <2>12 DEF ResultsOK, AsNode
  <2> QED  BY <2>8, <2>13
<1>2. CASE UNCHANGED vars
  BY <1>2 DEF vars, TypeOK, ResultsOK, AsNode
<1> QED  BY <1>1, <1>2 DEF Next

\* Type correctness of a check: UpdateNetwork appends one well-formed result
\* per node and marks only URLs of the list it was given.
THEOREM TypeCorrect == Spec => []TypeOK
<1>1. IInv => TypeOK
  BY DEF IInv
<1> QED  BY InitOK, StepOK, <1>1, PTL DEF Spec

LEMMA IInvAlways == Spec => []IInv
BY InitOK, StepOK, PTL DEF Spec

LEMMA AnswerFine == IInv => AnswerIsFastest
<1> SUFFICES ASSUME IInv PROVE AnswerIsFastest
  OBVIOUS
<1> DEFINE I == AliveIn(res)
<1>1. res \in Seq(Checked) /\ I \in SUBSET DOMAIN res
  BY DEF IInv, TypeOK, AliveIn
<1>2. Answer = FastestOf(res, I)
  BY DEF Answer, PickFastestPerPriority
<1>3. I = {i \in DOMAIN res : res[i].alive}
  BY DEF AliveIn
<1> HIDE DEF I
<1>4. /\ \A k \in DOMAIN Answer :
            /\ \E i \in I : Answer[k] = res[i]
            /\ \A i \in I : res[i].prio = Answer[k].prio => Answer[k].ping <= res[i].ping
      /\ Ordered(Answer)
      /\ PriosOf(Elements(Answer)) = {res[i].prio : i \in I}
  BY <1>1, <1>2, AnswerFacts
<1>5. \A k \in DOMAIN Answer : Answer[k].alive
  BY <1>3, <1>4
<1> QED  BY <1>3, <1>4, <1>5 DEF AnswerIsFastest

\* The failover list of a check is the one its callers rely on, for every
\* list of nodes and every set of results: PickFastestPerPriority's map of
\* groups, its search for the fastest and its sort.
THEOREM FastestAnswered == Spec => []AnswerIsFastest
BY IInvAlways, AnswerFine, PTL

\* The answer and the marks of a finished check are among the Outcomes of its
\* nodes.
LEMMA Foreseen == IInv => ForeseenOutcome
<1> SUFFICES ASSUME IInv, Done
             PROVE  [best |-> [i \in DOMAIN Answer |-> AsNode(Answer[i])], fatal |-> dropURLs]
                       \in Outcomes(nodes)
  BY DEF ForeseenOutcome
<1> DEFINE I == AliveIn(res)
           S == {nodes[i] : i \in I}
           P == {res[i].prio : i \in I}
           best == [i \in DOMAIN Answer |-> AsNode(Answer[i])]
           f == [p \in P |-> AsNode(Fastest(Group(res, I, p)))]
<1>1. /\ res \in Seq(Checked) /\ nodes \in Seq(Node)
      /\ I \in SUBSET DOMAIN res /\ DOMAIN res = DOMAIN nodes
      /\ I = {i \in DOMAIN res : res[i].alive}
  BY DEF IInv, TypeOK, AliveIn, Done
<1>2. /\ \A i \in DOMAIN nodes : /\ AsNode(res[i]) = nodes[i]
                                 /\ res[i].alive => nodes[i].url \notin NeverAlive
      /\ \A url \in dropURLs : \E i \in DOMAIN nodes : ~res[i].alive /\ res[i].url = url
  BY <1>1 DEF IInv, ResultsOK
<1>3. \A i \in DOMAIN nodes : nodes[i].prio = res[i].prio /\ nodes[i].url = res[i].url
  BY <1>2 DEF AsNode
<1> HIDE DEF I
<1>4. PriosOf(S) = P
  BY <1>1, <1>3 DEF PriosOf
<1>5. ASSUME NEW p \in P
      PROVE  f[p] \in S /\ f[p].prio = p
  <2>1. PICK i \in I : res[i].prio = p /\ Fastest(Group(res, I, p)) = res[i]
    BY <1>1, GroupFastest
  <2>2. f[p] = nodes[i]
    BY <1>1, <1>2, <2>1
  <2> QED  BY <1>1, <1>3, <2>1, <2>2
<1>6. P \in SUBSET Int /\ IsFiniteSet(P)
  BY <1>1, PriosFinite
<1>7. best = [k \in 1..Cardinality(P) |-> f[Nth(P, k)]]
  <2>1. Answer = [k \in 1..Cardinality(P) |-> Fastest(Group(res, I, Nth(P, k)))]
    BY DEF Answer, PickFastestPerPriority, FastestOf, I
  <2>2. ASSUME NEW k \in 1..Cardinality(P)
        PROVE  Nth(P, k) \in P
    <3> HIDE DEF P
    <3> QED  BY <1>6, NthRank
  <2>3. ASSUME NEW k \in 1..Cardinality(P)
        PROVE  AsNode(Answer[k]) = f[Nth(P, k)]
    BY <2>1, <2>2
  <2>4. DOMAIN Answer = 1..Cardinality(P)
    BY <2>1
  <2> HIDE DEF f, P
  <2> QED  BY <2>3, <2>4
<1>8. best \in Selections(S)
  <2>1. f \in [P -> S]
    BY <1>5
  <2> HIDE DEF f, S, P, best
  <2> QED  BY <1>4, <1>5, <1>7, <2>1 DEF Selections
<1>9. dropURLs \in SUBSET {nodes[i].url : i \in DOMAIN nodes \ I}
  BY <1>1, <1>2, <1>3
<1>10. I \in SUBSET {i \in DOMAIN nodes : nodes[i].url \notin NeverAlive}
  BY <1>1, <1>2
<1> HIDE DEF best, S
<1>11. [best |-> best, fatal |-> dropURLs]
          \in [best : Selections(S), fatal : SUBSET {nodes[i].url : i \in DOMAIN nodes \ I}]
  BY <1>8, <1>9
<1> QED  BY <1>10, <1>11 DEF Outcomes, best, S

\* What ControlPlane assumes of a check holds of the checks themselves: the
\* answer and the marks of UpdateNetwork, whatever the upstreams reply and
\* whichever protocol is checked, are Outcomes of the nodes it was given.
THEOREM OutcomesForeseen == Spec => []ForeseenOutcome
BY IInvAlways, Foreseen, PTL

LEMMA NotMarked == IInv => ServedNotMarked
<1> SUFFICES ASSUME IInv, NEW n \in Elements(Answer),
                    Cardinality({i \in DOMAIN res : res[i].url = n.url}) = 1,
                    n.url \in dropURLs
             PROVE  FALSE
  BY DEF ServedNotMarked
<1> DEFINE I == AliveIn(res)
           Same == {i \in DOMAIN res : res[i].url = n.url}
<1>1. res \in Seq(Checked) /\ I \in SUBSET DOMAIN res
  BY DEF IInv, TypeOK, AliveIn
<1>2. Answer = FastestOf(res, I)
  BY DEF Answer, PickFastestPerPriority
<1>3. PICK k \in DOMAIN Answer : n = Answer[k]
  BY DEF Elements
<1>4. PICK i \in I : n = res[i]
  <2> HIDE DEF I
  <2> QED  BY <1>1, <1>2, <1>3, AnswerFacts
<1>5. res[i].alive /\ i \in Same
  BY <1>4 DEF AliveIn
<1>6. PICK j \in DOMAIN res : ~res[j].alive /\ res[j].url = n.url
  BY DEF IInv, ResultsOK
<1>7. i # j /\ j \in Same
  BY <1>5, <1>6
<1>8. Same \in SUBSET DOMAIN res
  OBVIOUS
<1> HIDE DEF Same
<1>9. IsFiniteSet(Same)
  BY <1>1, <1>8, PositionsFinite
<1>10. \E x : Same = {x}
  BY <1>9, FS_Singleton DEF Same
<1> QED  BY <1>5, <1>7, <1>10

\* The answer and the marks of one call agree on every node that is listed
\* once, whichever check ran: fatal errors and fatal statuses never come with
\* an answer that counts as alive.
THEOREM MarksAgree == Spec => []ServedNotMarked
BY IInvAlways, NotMarked, PTL

\* What a check marks is what failed for good.
LEMMA MarkedFor ==
    ASSUME NEW url, NEW reply \in Replies, protocol \in Protocols
    PROVE  Check(url, reply).mark <=> Asked(url) /\ Lasting(url, reply)
<1>1. Fatal(url, reply) <=> Lasting(url, reply)
  <2>1. CASE IsError(reply)
    <3>1. reply \in [err : FatalErrors \cup OtherErrors]
      BY <2>1 DEF Replies, IsError
    <3> QED  BY <2>1, <3>1 DEF Fatal, Lasting, isFatalNetErr, FatalErrors, OtherErrors
  <2>2. CASE ~IsError(reply)
    <3>1. reply.status \in 100..599
      BY <2>2, HealthCheckAssumption DEF Replies, IsError
    <3> QED  BY <2>2, <3>1 DEF Fatal, Lasting, isFatalHTTPStatus, Success
  <2> QED  BY <2>1, <2>2
<1>2. checkEVM(url, reply).mark = Fatal(url, reply) /\ checkStatus(url, reply).mark = Fatal(url, reply)
  BY DEF checkEVM, checkStatus
<1>3. checkBTC(url, reply).mark <=> url \notin NotProbed /\ Fatal(url, reply)
  BY <1>2 DEF checkBTC
<1>4. CASE protocol = "evm"
  BY <1>1, <1>2, <1>4 DEF Check, Asked
<1>5. CASE protocol = "btc"
  BY <1>1, <1>3, <1>5 DEF Check, Asked
<1>6. CASE protocol \in {"trx", "ltc", "doge", "sol"}
  BY <1>1, <1>2, <1>6 DEF Check, Asked, checkTRX, checkLTC, checkDOGE, checkSOL
<1>7. CASE protocol = "unknown"
  BY <1>7 DEF Check, Asked
<1> QED  BY <1>4, <1>5, <1>6, <1>7 DEF Protocols

\* A check marks a URL exactly for the failures that will last, whichever
\* protocol is checked, for all status codes, URLs and lists of nodes.
THEOREM MarksLast == Spec => LastingIsMarked
<1> DEFINE Url == nodes[Len(res) + 1].url
           Right(reply) == Url \in dropURLs' <=> Url \in dropURLs \/ (Asked(Url) /\ Lasting(Url, reply))
<1>1. ASSUME IInv, NEW reply \in Replies, NEW ping \in Pings, CheckNext(reply, ping)
      PROVE  Right(reply)
  <2>1. dropURLs' = IF Check(Url, reply).mark THEN dropURLs \cup {Url} ELSE dropURLs
    BY <1>1 DEF CheckNext
  <2>2. Check(Url, reply).mark <=> Asked(Url) /\ Lasting(Url, reply)
    BY <1>1, MarkedFor DEF IInv, TypeOK
  <2> HIDE DEF Url
  <2> QED  BY <2>1, <2>2
<1>2. IInv /\ [Next]_vars =>
         [Len(res) < Len(nodes) =>
             LET url == nodes[Len(res) + 1].url
             IN  \A reply \in Replies :
                    \/ url \in dropURLs' <=> url \in dropURLs \/ (Asked(url) /\ Lasting(url, reply))
                    \/ \A ping \in Pings : ~CheckNext(reply, ping)]_vars
  <2> SUFFICES ASSUME IInv
               PROVE  \A reply \in Replies : Right(reply) \/ \A ping \in Pings : ~CheckNext(reply, ping)
    OBVIOUS
  <2> HIDE DEF Right
  <2> QED  BY <1>1
<1> QED  BY InitOK, StepOK, <1>2, PTL DEF Spec, LastingIsMarked

=============================================================================
