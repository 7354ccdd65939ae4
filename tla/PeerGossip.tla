------------------------------ MODULE PeerGossip -----------------------------
(***************************************************************************)
(* Several mezzium processes: how they come to know each other             *)
(* (cmd/app/bootstrap.go, pkg/bootstrap, pkg/peers) and how upstreams that *)
(* one of them serves come to be served by the others (pkg/gossip/         *)
(* state.go), while processes crash and restart, messages get lost and     *)
(* upstreams fail.                                                         *)
(*                                                                         *)
(* A process has one address for good and a new ID each time it starts.    *)
(* It announces itself once, before it listens.  BootstrapURL may lead to  *)
(* more than one process (in k8s/full-minimal-example.yaml it is the       *)
(* address of the deployment itself).                                      *)
(*                                                                         *)
(* gossip.Start has no caller, so that nobody sends to /gossip and nothing *)
(* removes a peer from a store: entries of earlier starts stay.            *)
(*                                                                         *)
(* The registry of a process is the routing table that ControlPlane shows  *)
(* it to be: for one network, the upstreams it knows and those it serves.  *)
(* An advert without nodes changes nothing and is left out; nobody knows   *)
(* so many upstreams that the cap of 20 on Discovered is met.              *)
(*                                                                         *)
(* Bound: the processes start at most MaxStarts times, all together.       *)
(***************************************************************************)
EXTENDS Naturals, FiniteSets, Functions

CONSTANTS
    Procs,      \* the processes, by their addresses
    Bootstraps, \* those that BootstrapURL leads to; none if it is empty
    MaxStarts,  \* bound on the starts of all together
    Mortal,     \* those that may crash
    Urls,       \* the upstreams of the network
    Prio,       \* their priorities
    Config      \* the upstreams that are configured at each process

ASSUME PeerAssumption ==
    /\ Bootstraps \subseteq Procs
    /\ MaxStarts \in Nat
    /\ Mortal \subseteq Procs
    /\ Prio \in [Urls -> Nat]
    /\ Config \in [Procs -> SUBSET Urls]

VARIABLES
    starts,     \* how often each process has started
    pc,         \* what it does
    via,        \* who answered its announcement
    peers,      \* its peer store
    known,      \* its registry: the upstreams of All and Discovered
    best,       \* those of Best
    upstream,   \* whether each upstream works or fails in a way checks find final
    net         \* what is on its way between processes, and the handlers of
                \* announcements

registry == <<known, best>>
vars == <<starts, pc, via, peers, registry, upstream, net>>

Peer == [addr : Procs, start : Nat \ {0}]

\* The answer to the announcement that a process sent when nobody answered it.
Nobody == [addr |-> "nobody", start |-> 0]

ID(p, n) == [addr |-> p, start |-> n]

Self(p) == ID(p, starts[p])

Messages ==
    [type : {"announce"}, from : Peer]
    \cup [type : {"listing"}, from : Peer, by : Peer]
    \cup [type : {"answer"}, to : Peer, by : Peer, peers : SUBSET Peer]
    \cup [type : {"state"}, from : Peer, to : Procs, nodes : SUBSET Urls]

\* Stores hold processes that have started, and messages are well formed.
TypeOK ==
    /\ starts \in [Procs -> Nat]
    /\ pc \in [Procs -> {"down", "announcing", "booting", "up"}]
    /\ via \in [Procs -> Peer \cup {Nobody}]
    /\ peers \in [Procs -> SUBSET Peer]
    /\ \A p \in Procs : \A peer \in peers[p] : peer.start <= starts[peer.addr]
    /\ known \in [Procs -> SUBSET Urls]
    /\ best \in [Procs -> SUBSET Urls]
    /\ upstream \in [Urls -> {"live", "gone"}]
    /\ net \subseteq Messages

Init ==
    /\ starts = [p \in Procs |-> 0]
    /\ pc = [p \in Procs |-> "down"]
    /\ via = [p \in Procs |-> Nobody]
    /\ peers = [p \in Procs |-> {}]
    /\ known = [p \in Procs |-> {}]
    /\ best = [p \in Procs |-> {}]
    /\ upstream = [u \in Urls |-> "live"]
    /\ net = {}

-----------------------------------------------------------------------------
(* The health round *)

\* PickFastestPerPriority of the nodes that a check finds alive.
Selection(urls) ==
    LET alive == {u \in urls : upstream[u] = "live"}
    IN  {s \in SUBSET alive : \A u \in alive : Cardinality({v \in s : Prio[v] = Prio[u]}) = 1}

\* What isFatalHTTPStatus or isFatalNetErr takes for final.  (A node that fails
\* otherwise stays known; HealthCheck and ControlPlane model that.)
Fatal(urls) == {u \in urls : upstream[u] = "gone"}

\* A round of the health loop: PruneAndMerge, UpdateNetwork, SetBest, and
\* RemoveNodeEverywhere of what was marked.
HealthRound(p) ==
    /\ pc[p] = "up"
    /\ \E s \in Selection(known[p]) : best' = [best EXCEPT ![p] = s]
    /\ known' = [known EXCEPT ![p] = @ \ Fatal(@)]
    /\ UNCHANGED <<starts, pc, via, peers, upstream, net>>

-----------------------------------------------------------------------------
(* Start and end of a process *)

\* Mutant of Start: the store is filled before the process has its new ID.
StartUnnamed(p) ==
    /\ pc[p] = "down"
    /\ SumFunction(starts) < MaxStarts
    /\ starts' = [starts EXCEPT ![p] = @ + 1]
    /\ pc' = [pc EXCEPT ![p] = "announcing"]
    /\ peers' = [peers EXCEPT ![p] = {Self(p)}]
    /\ net' = net \cup {[type |-> "announce", from |-> ID(p, starts[p] + 1)]}
    /\ UNCHANGED <<via, registry, upstream>>

Start(p) ==
    /\ pc[p] = "down"
    /\ SumFunction(starts) < MaxStarts
    /\ starts' = [starts EXCEPT ![p] = @ + 1]
    /\ pc' = [pc EXCEPT ![p] = "announcing"]
    /\ peers' = [peers EXCEPT ![p] = {ID(p, starts[p] + 1)}]
    /\ net' = net \cup {[type |-> "announce", from |-> ID(p, starts[p] + 1)]}
    /\ UNCHANGED <<via, registry, upstream>>

\* The initial check is over, the publisher starts and the server listens.
Boot(p) ==
    /\ pc[p] = "booting"
    /\ pc' = [pc EXCEPT ![p] = "up"]
    /\ known' = [known EXCEPT ![p] = Config[p]]
    /\ \E s \in Selection(Config[p]) : best' = [best EXCEPT ![p] = s]
    /\ UNCHANGED <<starts, via, peers, upstream, net>>

\* What a process kept, and what its handlers were about to do, is gone.
Crash(p) ==
    /\ pc[p] # "down"
    /\ pc' = [pc EXCEPT ![p] = "down"]
    /\ via' = [via EXCEPT ![p] = Nobody]
    /\ peers' = [peers EXCEPT ![p] = {}]
    /\ known' = [known EXCEPT ![p] = {}]
    /\ best' = [best EXCEPT ![p] = {}]
    /\ net' = {m \in net : /\ m.type = "listing" => m.by # Self(p)
                           /\ m.type = "answer" => m.to # Self(p)}
    /\ UNCHANGED <<starts, upstream>>

-----------------------------------------------------------------------------
(* Announcements *)

Waits(id) == pc[id.addr] = "announcing" /\ starts[id.addr] = id.start

\* Store.List, with the process itself appended.
Listed(p) == peers[p] \cup {Self(p)}

\* Mutant of HandleAnnounce: the announcer is told the peers and not added.
HandleAnnounceUnadded(p, m) ==
    /\ m.type = "announce"
    /\ pc[p] = "up"
    /\ net' = (net \ {m}) \cup {[type |-> "listing", from |-> m.from, by |-> Self(p)]}
    /\ UNCHANGED <<starts, pc, via, peers, registry, upstream>>

\* Store.Add
HandleAnnounce(p, m) ==
    /\ m.type = "announce"
    /\ pc[p] = "up"
    /\ peers' = [peers EXCEPT ![p] = @ \cup {m.from}]
    /\ net' = (net \ {m}) \cup {[type |-> "listing", from |-> m.from, by |-> Self(p)]}
    /\ UNCHANGED <<starts, pc, via, registry, upstream>>

AnswerAnnounce(p, m) ==
    /\ m.type = "listing"
    /\ m.by = Self(p)
    /\ net' = (net \ {m}) \cup
              (IF Waits(m.from)
               THEN {[type |-> "answer", to |-> m.from, by |-> m.by, peers |-> Listed(p)]}
               ELSE {})
    /\ UNCHANGED <<starts, pc, via, peers, registry, upstream>>

\* Store.Add for each peer of the answer but the process itself.
Announced(p, m) ==
    /\ m.type = "answer"
    /\ m.to = Self(p)
    /\ peers' = [peers EXCEPT ![p] = @ \cup (m.peers \ {Self(p)})]
    /\ via' = [via EXCEPT ![p] = m.by]
    /\ pc' = [pc EXCEPT ![p] = "booting"]
    /\ net' = net \ {m}
    /\ UNCHANGED <<starts, registry, upstream>>

\* Nobody there (or no BootstrapURL), no answer or not a 200: the process goes
\* on alone.  Its request may still be handled.
AnnounceFailed(p) ==
    /\ pc[p] = "announcing"
    /\ pc' = [pc EXCEPT ![p] = "booting"]
    /\ net' = {m \in net : m.type = "answer" => m.to # Self(p)}
    /\ UNCHANGED <<starts, via, peers, registry, upstream>>

-----------------------------------------------------------------------------
(* State gossip *)

\* Mutant of buildAdvert: everything known is advertised.
buildAdvertKnown(p) == known[p]

buildAdvert(p) == best[p]

\* Mutant of Publish: the process itself is not counted among its peers.
PublishToTwo(p, q) ==
    /\ pc[p] = "up"
    /\ Cardinality(peers[p]) > 2
    /\ \E peer \in peers[p] : peer.addr = q
    /\ \A m \in net : m.type = "state" => m.from # Self(p)
    /\ buildAdvert(p) # {}
    /\ net' = net \cup {[type |-> "state", from |-> Self(p), to |-> q, nodes |-> buildAdvert(p)]}
    /\ UNCHANGED <<starts, pc, via, peers, registry, upstream>>

\* The publisher posts to one entry of the store at a time, which may be the
\* process itself or an earlier start of a peer.
Publish(p, q) ==
    /\ pc[p] = "up"
    /\ Cardinality(peers[p]) > 1
    /\ \E peer \in peers[p] : peer.addr = q
    /\ \A m \in net : m.type = "state" => m.from # Self(p)
    /\ buildAdvert(p) # {}
    /\ net' = net \cup {[type |-> "state", from |-> Self(p), to |-> q, nodes |-> buildAdvert(p)]}
    /\ UNCHANGED <<starts, pc, via, peers, registry, upstream>>

StateHandler(p, m) ==
    /\ m.type = "state"
    /\ m.to = p
    /\ pc[p] = "up"
    /\ known' = [known EXCEPT ![p] = @ \cup m.nodes]
    /\ net' = net \ {m}
    /\ UNCHANGED <<starts, pc, via, peers, best, upstream>>

\* A message is lost, or a connection breaks.  (An advert that is lost though
\* its receiver runs is as good as not sent.)
Lose(m) ==
    /\ m.type # "listing"
    /\ m.type = "state" => pc[m.to] # "up"
    /\ net' = net \ {m}
    /\ UNCHANGED <<starts, pc, via, peers, registry, upstream>>

Turn(u) ==
    /\ \E how \in {"live", "gone"} : upstream' = [upstream EXCEPT ![u] = how]
    /\ UNCHANGED <<starts, pc, via, peers, registry, net>>

Next ==
    \/ \E p \in Procs :
          \/ Start(p) \/ Boot(p) \/ AnnounceFailed(p) \/ HealthRound(p)
          \/ \E m \in net : StateHandler(p, m) \/ Announced(p, m) \/ AnswerAnnounce(p, m)
          \/ \E q \in Procs : Publish(p, q)
    \/ \E p \in Mortal : Crash(p)
    \/ \E p \in Bootstraps, m \in net : HandleAnnounce(p, m)
    \/ \E m \in net : Lose(m)
    \/ \E u \in Urls : Turn(u)

Spec == Init /\ [][Next]_vars

\* The post of a publisher ends.
PostEnds(p) ==
    \E m \in net :
       /\ m.type = "state"
       /\ m.from.addr = p
       /\ Lose(m) \/ \E q \in Procs : StateHandler(q, m)

\* Processes run, and posts end.  The publisher's choice among its peers is
\* random, so that none is left out for ever, and not every message from one
\* process to another is lost.  Nothing is assumed of starts, crashes,
\* announcements, which have no timeout, and upstreams.
Fairness ==
    \A p \in Procs :
       /\ WF_vars(Boot(p) \/ HealthRound(p))
       /\ WF_vars(PostEnds(p))
       /\ \A q \in Procs \ {p} : SF_vars(Publish(p, q))

FairSpec == Spec /\ Fairness

-----------------------------------------------------------------------------
(* Properties *)

Up(p) == pc[p] = "up"

\* Of two processes that the same process answered, one knows the other, in
\* whatever order their announcements were handled.  (The earlier one never
\* learns of the later one.)
PairsMeet ==
    \A p, q \in Procs :
       p # q /\ via[p] = via[q] /\ via[p] # Nobody => Self(p) \in peers[q] \/ Self(q) \in peers[p]

\* Every process that runs, but one, was answered by one that still runs.
Knit ==
    /\ \A p \in Procs : pc[p] \in {"up", "down"}
    /\ Cardinality({p \in Procs : Up(p) /\ \A q \in Procs : Up(q) => via[p] # Self(q)}) <= 1

\* Some entry in the store of p leads to q, be it of an earlier start of q.
Knows(p, q) == \E peer \in peers[p] : peer.addr = q

\* An upstream that stays alive, and has no rival of its priority, is in the
\* end served by whoever is known to one that serves it, though the entry be of
\* a start before the last one; and by all, if they are knit together: whatever
\* crashed before, a bootstrap process and its store included.
NewsSpreads ==
    \A u \in Urls :
       /\ \A v \in Urls \ {u} : Prio[v] # Prio[u]
       /\ <>[](upstream[u] = "live")
       => <>[](\A p \in Procs : Up(p) /\ u \in best[p] =>
                  \A q \in Procs : Up(q) /\ (Knows(p, q) \/ Knit) => u \in best[q])

\* An upstream that is gone for good is in the end forgotten by all: no
\* process learns it again from another that has not dropped it yet.
GoneForgotten ==
    \A u \in Urls :
       <>[](upstream[u] = "gone")
          => <>[](\A p \in Procs : u \notin known[p] \cup best[p])

-----------------------------------------------------------------------------
(* Invariants PairsMeet rests on; PeerGossipProofs shows them inductive. *)

\* The start of a process that id names has taken place; it is the one that
\* runs now.
Started(id) == id.start <= starts[id.addr]
Current(id) == pc[id.addr] # "down" /\ starts[id.addr] = id.start

\* Messages and vias name starts that have taken place, an answer goes to a
\* process that runs, and one that does not run was answered by nobody.
StartsPast ==
    /\ \A p \in Procs : via[p] # Nobody => Started(via[p])
    /\ \A p \in Procs : pc[p] = "down" => via[p] = Nobody
    /\ \A m \in net :
          /\ m.type \in {"announce", "listing"} => Started(m.from)
          /\ m.type = "answer" => /\ Started(m.by) /\ Current(m.to)
                                 /\ \A peer \in m.peers : Started(peer)

\* As long as a process runs, its store holds everyone that it has answered or
\* is about to answer.
Registered ==
    /\ \A m \in net :
          /\ m.type = "listing" => Current(m.by) /\ m.from \in peers[m.by.addr]
          /\ m.type = "answer" /\ Current(m.by) => m.to \in peers[m.by.addr]
    /\ \A p \in Procs :
          via[p] # Nobody /\ Current(via[p]) => Self(p) \in peers[via[p].addr]

\* Of two answers of one process, one names the receiver of the other, also
\* where one of them has already been received.
AnswersMeet ==
    \A m \in net : m.type = "answer" =>
       /\ \A n \in net : n.type = "answer" /\ n.by = m.by /\ n.to # m.to =>
             m.to \in n.peers \/ n.to \in m.peers
       /\ \A p \in Procs : via[p] = m.by /\ Self(p) # m.to =>
             Self(p) \in m.peers \/ m.to \in peers[p]

=============================================================================
