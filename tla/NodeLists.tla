------------------------------ MODULE NodeLists ------------------------------
(***************************************************************************)
(* Nodes and lists of nodes, the data every part of mezzium passes around. *)
(* A node is an upstream endpoint: the URL that identifies it and the      *)
(* priority its operator gave it.  Headers, Tor flags and protocol names   *)
(* play no role in how the registry treats a node and are left out.        *)
(*                                                                         *)
(* The registry's loops keep the order of the list they filter             *)
(* (dst = append(dst, n) under a condition) and PickFastestPerPriority     *)
(* orders its answer by priority.  Both are expressed with Nth, the i-th   *)
(* smallest member of a set of integers.                                   *)
(***************************************************************************)
EXTENDS Integers, Sequences, FiniteSets

CONSTANTS Urls,         \* URLs of upstream nodes
          Prios,        \* priorities, smaller is preferred
          NeverAlive    \* URLs that pass no health check: ws:// upstreams, dead hosts

ASSUME NodesAssumption == /\ IsFiniteSet(Prios)
                          /\ Prios \subseteq Int
                          /\ NeverAlive \subseteq Urls

Node == [url : Urls, prio : Prios]

UrlsOf(S) == {n.url : n \in S}

PriosOf(S) == {n.prio : n \in S}

Elements(s) == {s[i] : i \in DOMAIN s}

\* The i-th smallest member of the finite set of integers S.
Nth(S, i) == CHOOSE k \in S : Cardinality({j \in S : j <= k}) = i

\* The members of list s at the positions I, in the order of s.
Kept(s, I) == [i \in 1..Cardinality(I) |-> s[Nth(I, i)]]

\* Mutant of Without: the slot is cleared, the list is not compacted.
WithoutCompaction(s, url) ==
    [i \in DOMAIN s |-> IF s[i].url # url THEN s[i] ELSE [url |-> "", prio |-> 0]]

\* What a filtering loop leaves of a list of nodes when url is taken out.
Without(s, url) == Kept(s, {i \in DOMAIN s : s[i].url # url})

\* Mutant of Selections: the priorities are taken in the order of the map.
SelectionsUnsorted(S) ==
    LET P     == PriosOf(S)
        Picks == {f \in [1..Cardinality(P) -> S] : \A i, j \in DOMAIN f : i # j => f[i].prio # f[j].prio}
    IN  Picks

\* Every answer PickFastestPerPriority can give when the nodes of S are
\* alive, whatever their pings: one node of S per priority that S has, in
\* order of priority.
Selections(S) ==
    LET P     == PriosOf(S)
        Picks == {f \in [P -> S] : \A p \in P : f[p].prio = p}
    IN  {[i \in 1..Cardinality(P) |-> f[Nth(P, i)]] : f \in Picks}

\* Mutant of Outcomes: PickFastestPerPriority does not look at Alive.
OutcomesOfAll(nodes) ==
    UNION {[best  : Selections({nodes[i] : i \in DOMAIN nodes}),
            fatal : SUBSET {nodes[i].url : i \in DOMAIN nodes \ alive}] :
              alive \in SUBSET {i \in DOMAIN nodes : nodes[i].url \notin NeverAlive}}

\* What Checker.UpdateNetwork can answer for a list of nodes, and the URLs it
\* marks for removal meanwhile: any entry that is not NeverAlive may be alive,
\* and any entry that is not alive may have failed fatally.  A node listed
\* twice is checked twice.  (HealthCheck has the checks themselves.)
Outcomes(nodes) ==
    UNION {[best  : Selections({nodes[i] : i \in alive}),
            fatal : SUBSET {nodes[i].url : i \in DOMAIN nodes \ alive}] :
              alive \in SUBSET {i \in DOMAIN nodes : nodes[i].url \notin NeverAlive}}

\* A failover list: at most one node per priority, best priority first.
Ordered(s) == \A i, j \in DOMAIN s : i < j => s[i].prio < s[j].prio

=============================================================================
