----------------------------- MODULE ControlPlane ----------------------------
(***************************************************************************)
(* Everything that writes the registry of one running mezzium process:     *)
(*                                                                         *)
(*   - the health checks: the initial one main() waits for, then the loop  *)
(*     of cmd/app/health.go, one goroutine per network in each round;      *)
(*   - the handlers of pkg/api/admin.go, each request on its own goroutine;*)
(*   - the handler of /gossip-state (pkg/gossip/state.go).                 *)
(*                                                                         *)
(* A step is one access to shared state: one call of a locked method, or   *)
(* one of the unlocked reads and writes that DeleteNode, the gossip        *)
(* handler and the health goroutines make through pointers they got from   *)
(* Registry.All().  What is not shared (a health check's HTTP request, the *)
(* limiters, logging, metrics) only delays a step.                         *)
(*                                                                         *)
(* Bounds: each request of Ops and each delivery of Msgs happens at most   *)
(* once, and the clock stops at MaxNow.                                    *)
(***************************************************************************)
EXTENDS Registry

CONSTANTS
    Ops,            \* the requests administrators make
    Msgs,           \* the state messages that peers deliver
    WebSockets,     \* the URLs of ws:// and wss:// upstreams
    MaxDiscovered,  \* bound on a network's Discovered list (20 in the code)
    TTL,            \* lifetime of a Discovered entry
    MaxNow          \* bound on the clock

NetConfig == [net : Nets, nodes : Seq(Node)]

AddNodeOps    == [id : Nat, op : {"AddNode"}, net : Nets, node : Node]
DeleteNodeOps == [id : Nat, op : {"DeleteNode"}, net : Nets, url : Urls]
AddNetworkOps == [id : Nat, op : {"AddNetwork", "AddNetworksBulk"},
                  cfgs : Seq(NetConfig) \ {<<>>}]

\* A message advertises, network by network, the sender's best nodes.
Messages == [id : Nat, adverts : Seq([net : Nets, nodes : Seq(Node)])]

ASSUME ControlPlaneAssumption ==
    /\ Ops \subseteq AddNodeOps \cup DeleteNodeOps \cup AddNetworkOps
    /\ \A o \in Ops : o.op = "AddNetwork" => Len(o.cfgs) = 1
    /\ Msgs \subseteq Messages
    /\ WebSockets \subseteq NeverAlive    \* every health check is an HTTP request
    /\ MaxDiscovered \in Nat
    /\ TTL \in Nat
    /\ MaxNow \in Nat

VARIABLES
    now,        \* the clock
    dropURLs,   \* Checker.dropURLs: URLs marked during health checks
    round,      \* where the health loop is
    dropping,   \* the drained URLs it has yet to remove
    worker,     \* the health goroutine of each network
    req,        \* the admin handlers
    gossip,     \* the gossip handlers
    crashed     \* a goroutine panicked: the process is gone

vars == <<State, now, dropURLs, round, dropping, worker, req, gossip, crashed>>

\* round: boot is the initial health check, before the server listens; then
\* idle (waiting for the ticker), spawn, check, drop and idle again.
Rounds == {"boot", "idle", "spawn", "check", "drop"}

Worker == [pc : {"off", "new", "pick", "wait", "run"}, ptr : Nat, nodes : Seq(Node)]

Off == [pc |-> "off", ptr |-> 0, nodes |-> <<>>]

Spawned(ptr) == [pc |-> "new", ptr |-> ptr, nodes |-> <<>>]

Request == [pc : {"idle", "check", "store", "serve", "best", "setBest", "all", "setAll",
                  "done", "refused"},
            i : Nat, ptr : Nat, best : Seq(Node), all : Seq(Node)]

Waiting == [pc |-> "idle", i |-> 1, ptr |-> 0, best |-> <<>>, all |-> <<>>]

Ended(pc) == [Waiting EXCEPT !.pc = pc]

Handler == [pc : {"idle", "advert", "cap", "load", "write", "done"},
            i : Nat, ptr : [Nets -> Nat], plan : Seq(Node), held : Seq(DiscoveredNode)]

Undelivered == [pc |-> "idle", i |-> 1, ptr |-> [net \in Nets |-> 0],
                plan |-> <<>>, held |-> <<>>]

TypeOK ==
    /\ RegistryTypeOK
    /\ now \in 0..MaxNow
    /\ dropURLs \subseteq Urls
    /\ round \in Rounds
    /\ dropping \subseteq Urls
    /\ worker \in [Nets -> Worker]
    /\ req \in [Ops -> Request]
    /\ gossip \in [Msgs -> Handler]
    /\ crashed \in BOOLEAN

Init ==
    /\ InitFromConfigs
    /\ now = 0
    /\ dropURLs = {}
    /\ round = "boot"
    /\ dropping = {}
    /\ worker = [net \in Nets |-> IF net \in DOMAIN Config THEN Spawned(1) ELSE Off]
    /\ req = [o \in Ops |-> Waiting]
    /\ gossip = [m \in Msgs |-> Undelivered]
    /\ crashed = FALSE

-----------------------------------------------------------------------------
(* Health checks *)

\* The object the goroutine of net got from Registry.All().
Seen(net) == State[net][worker[net].ptr]

\* pickLimiter: if len(st.All) > 0 ...
PickLimiter(net) ==
    /\ worker[net].pc = "new"
    /\ worker' = [worker EXCEPT ![net].pc = IF Seen(net).all = <<>> THEN "wait" ELSE "pick"]
    /\ UNCHANGED <<State, now, dropURLs, round, dropping, req, gossip, crashed>>

\* ... st.All[0].URL, read again for each limited domain until one matches: out
\* of range if the list was emptied since.  A read that finds a node and is
\* followed by another changes nothing, so that this is the last of them.
ReadFirst(net) ==
    /\ worker[net].pc = "pick"
    /\ IF Seen(net).all = <<>>
       THEN /\ crashed' = TRUE
            /\ UNCHANGED worker
       ELSE /\ worker' = [worker EXCEPT ![net].pc = "wait"]
            /\ UNCHANGED crashed
    /\ UNCHANGED <<State, now, dropURLs, round, dropping, req, gossip>>

\* The limiter is acquired and UpdateNetwork starts to range over st.All.
StartCheck(net) ==
    /\ worker[net].pc = "wait"
    /\ worker' = [worker EXCEPT ![net].pc = "run", ![net].nodes = Seen(net).all]
    /\ UNCHANGED <<State, now, dropURLs, round, dropping, req, gossip, crashed>>

\* Mutant of Publish: an empty answer is not published.
PublishNonEmpty(net) ==
    /\ worker[net].pc = "run"
    /\ \E o \in Outcomes(worker[net].nodes) :
          /\ IF o.best = <<>> THEN UNCHANGED State ELSE SetBest(net, o.best)
          /\ dropURLs' = dropURLs \cup o.fatal
    /\ worker' = [worker EXCEPT ![net] = Off]
    /\ UNCHANGED <<now, round, dropping, req, gossip, crashed>>

\* UpdateNetwork returns and SetBest publishes its answer.
Publish(net) ==
    /\ worker[net].pc = "run"
    /\ \E o \in Outcomes(worker[net].nodes) :
          /\ SetBest(net, o.best)
          /\ dropURLs' = dropURLs \cup o.fatal
    /\ worker' = [worker EXCEPT ![net] = Off]
    /\ UNCHANGED <<now, round, dropping, req, gossip, crashed>>

AllOff == \A net \in Nets : worker[net].pc = "off"

\* runInitialHealth returns: the marks stay, the server starts.
Booted ==
    /\ round = "boot"
    /\ AllOff
    /\ round' = "idle"
    /\ UNCHANGED <<State, now, dropURLs, dropping, worker, req, gossip, crashed>>

\* The ticker fires.
Tick ==
    /\ round = "idle"
    /\ PruneAndMerge(now)
    /\ round' = "spawn"
    /\ UNCHANGED <<now, dropURLs, dropping, worker, req, gossip, crashed>>

Spawn ==
    /\ round = "spawn"
    /\ worker' = [net \in Nets |-> IF Exists(net) THEN Spawned(Pointer(net)) ELSE Off]
    /\ round' = "check"
    /\ UNCHANGED <<State, now, dropURLs, dropping, req, gossip, crashed>>

\* Mutant of Drain: the loop does not wait for its goroutines.
DrainUnwaited ==
    /\ round = "check"
    /\ dropping' = dropURLs
    /\ dropURLs' = {}
    /\ round' = "drop"
    /\ UNCHANGED <<State, now, worker, req, gossip, crashed>>

\* wg.Wait() returns; DrainDropURLs.
Drain ==
    /\ round = "check"
    /\ AllOff
    /\ dropping' = dropURLs
    /\ dropURLs' = {}
    /\ round' = "drop"
    /\ UNCHANGED <<State, now, worker, req, gossip, crashed>>

\* Mutant of Drop: a removed URL stays in the list of URLs to remove.
DropAgain(url) ==
    /\ round = "drop"
    /\ url \in dropping
    /\ RemoveNodeEverywhere(url)
    /\ UNCHANGED <<now, dropURLs, dropping, round, worker, req, gossip, crashed>>

Drop(url) ==
    /\ round = "drop"
    /\ url \in dropping
    /\ RemoveNodeEverywhere(url)
    /\ dropping' = dropping \ {url}
    /\ UNCHANGED <<now, dropURLs, round, worker, req, gossip, crashed>>

RoundDone ==
    /\ round = "drop"
    /\ dropping = {}
    /\ round' = "idle"
    /\ UNCHANGED <<State, now, dropURLs, dropping, worker, req, gossip, crashed>>

HealthStep ==
    \/ \E net \in Nets : PickLimiter(net) \/ ReadFirst(net) \/ StartCheck(net) \/ Publish(net)
    \/ Booted \/ Tick \/ Spawn \/ Drain \/ RoundDone
    \/ \E url \in Urls : Drop(url)

-----------------------------------------------------------------------------
(* POST /admin/{network}/nodes *)

Serving == round # "boot"

Step(o, r) ==
    /\ req' = [req EXCEPT ![o] = r]
    /\ UNCHANGED <<now, round, dropping, worker, gossip, crashed>>

\* ProtocolOf: of an unknown network it is "", no check passes, and the
\* answer is 400 without a mark.
AddNodeBegin(o) ==
    /\ o.op = "AddNode"
    /\ Serving
    /\ req[o].pc = "idle"
    /\ Step(o, IF Exists(o.net) THEN [req[o] EXCEPT !.pc = "check"] ELSE Ended("refused"))
    /\ UNCHANGED <<State, dropURLs>>

\* Mutant of AddNodeCheck: the node is stored whatever the check says.
AddNodeUnchecked(o) ==
    /\ o.op = "AddNode"
    /\ req[o].pc = "check"
    /\ \E r \in Outcomes(<<o.node>>) :
          /\ dropURLs' = dropURLs \cup r.fatal
          /\ Step(o, [req[o] EXCEPT !.pc = "store"])
    /\ UNCHANGED State

AddNodeCheck(o) ==
    /\ o.op = "AddNode"
    /\ req[o].pc = "check"
    /\ \E r \in Outcomes(<<o.node>>) :
          /\ dropURLs' = dropURLs \cup r.fatal
          /\ Step(o, IF r.best = <<>> THEN Ended("refused") ELSE [req[o] EXCEPT !.pc = "store"])
    /\ UNCHANGED State

AddNodeStore(o) ==
    /\ o.op = "AddNode"
    /\ req[o].pc = "store"
    /\ AddNode(o.net, o.node)
    /\ Step(o, [req[o] EXCEPT !.pc = "serve"])
    /\ UNCHANGED dropURLs

AddNodeServe(o) ==
    /\ o.op = "AddNode"
    /\ req[o].pc = "serve"
    /\ AppendBest(o.net, o.node)
    /\ Step(o, Ended("done"))
    /\ UNCHANGED dropURLs

-----------------------------------------------------------------------------
(* DELETE /admin/{network}/nodes: two unlocked reads through the pointer of *)
(* the snapshot, one locked and one unlocked write by name.                 *)

DeleteBegin(o) ==
    /\ o.op = "DeleteNode"
    /\ Serving
    /\ req[o].pc = "idle"
    /\ Step(o, IF Exists(o.net)
               THEN [req[o] EXCEPT !.pc = "best", !.ptr = Pointer(o.net)]
               ELSE Ended("refused"))
    /\ UNCHANGED <<State, dropURLs>>

DeleteReadBest(o) ==
    /\ o.op = "DeleteNode"
    /\ req[o].pc = "best"
    /\ Step(o, [req[o] EXCEPT !.pc = "setBest",
                              !.best = Without(State[o.net][req[o].ptr].best, o.url)])
    /\ UNCHANGED <<State, dropURLs>>

DeleteSetBest(o) ==
    /\ o.op = "DeleteNode"
    /\ req[o].pc = "setBest"
    /\ SetBest(o.net, req[o].best)
    /\ Step(o, [req[o] EXCEPT !.pc = "all", !.best = <<>>])
    /\ UNCHANGED dropURLs

DeleteReadAll(o) ==
    /\ o.op = "DeleteNode"
    /\ req[o].pc = "all"
    /\ Step(o, [req[o] EXCEPT !.pc = "setAll",
                   !.all = Without(State[o.net][req[o].ptr].all, o.url)])
    /\ UNCHANGED <<State, dropURLs>>

\* Mutant of DeleteSetAll: the new list is not stored.
DeleteWithoutAll(o) ==
    /\ o.op = "DeleteNode"
    /\ req[o].pc = "setAll"
    /\ Step(o, Ended("done"))
    /\ UNCHANGED <<State, dropURLs>>

\* a.Reg.State[network].All = newAll
DeleteSetAll(o) ==
    /\ o.op = "DeleteNode"
    /\ req[o].pc = "setAll"
    /\ State' = [State EXCEPT ![o.net][Pointer(o.net)].all = req[o].all]
    /\ Step(o, Ended("done"))
    /\ UNCHANGED dropURLs

-----------------------------------------------------------------------------
(* POST /admin/networks (one network, stored whether or not the name is     *)
(* taken) and POST /admin/networks/bulk (a list, taken names are skipped).  *)

IsBulk(o) == o.op = "AddNetworksBulk"

Cfg(o) == o.cfgs[req[o].i]

\* The handler goes on to the next network of a bulk request or ends.
NextCfg(o) == IF req[o].i = Len(o.cfgs)
              THEN Ended("done")
              ELSE [Waiting EXCEPT !.i = req[o].i + 1]

\* A network without nodes is refused, or skipped in a bulk request, and so
\* is in a bulk request a name that exists at this moment.
AddNetworkBegin(o) ==
    /\ o.op \in {"AddNetwork", "AddNetworksBulk"}
    /\ Serving
    /\ req[o].pc = "idle"
    /\ Step(o, IF Cfg(o).nodes = <<>> \/ (IsBulk(o) /\ Exists(Cfg(o).net))
               THEN IF IsBulk(o) THEN NextCfg(o) ELSE Ended("refused")
               ELSE [req[o] EXCEPT !.pc = "check"])
    /\ UNCHANGED <<State, dropURLs>>

AddNetworkCheck(o) ==
    /\ o.op \in {"AddNetwork", "AddNetworksBulk"}
    /\ req[o].pc = "check"
    /\ \E r \in Outcomes(Cfg(o).nodes) :
          /\ dropURLs' = dropURLs \cup r.fatal
          /\ Step(o, IF r.best # <<>>
                     THEN [req[o] EXCEPT !.pc = "store", !.best = r.best]
                     ELSE IF IsBulk(o) THEN NextCfg(o) ELSE Ended("refused"))
    /\ UNCHANGED State

AddNetworkStore(o) ==
    /\ o.op \in {"AddNetwork", "AddNetworksBulk"}
    /\ req[o].pc = "store"
    /\ AddNetwork(Cfg(o).net, Cfg(o).nodes, req[o].best)
    /\ Step(o, NextCfg(o))
    /\ UNCHANGED dropURLs

AdminStep(o) ==
    \/ AddNodeBegin(o) \/ AddNodeCheck(o) \/ AddNodeStore(o) \/ AddNodeServe(o)
    \/ DeleteBegin(o) \/ DeleteReadBest(o) \/ DeleteSetBest(o)
    \/ DeleteReadAll(o) \/ DeleteSetAll(o)
    \/ AddNetworkBegin(o) \/ AddNetworkCheck(o) \/ AddNetworkStore(o)
-----------------------------------------------------------------------------
(* POST /gossip-state.  The handler takes no lock: st.All is read through   *)
(* the snapshot's pointer, the length of st.Discovered is tested, and       *)
(* st.Discovered = append(st.Discovered, ...) is a load and a store of the  *)
(* list.  (A list is a value here: what two writers of one backing array    *)
(* can do to each other's elements is not modelled.)                        *)

Handle(m, g) ==
    /\ gossip' = [gossip EXCEPT ![m] = g]
    /\ UNCHANGED <<now, dropURLs, round, dropping, worker, req, crashed>>

GossipBegin(m) ==
    /\ Serving
    /\ gossip[m].pc = "idle"
    /\ Handle(m, [gossip[m] EXCEPT !.pc = "advert", !.ptr = [net \in Nets |-> Pointer(net)]])
    /\ UNCHANGED State

\* The two nested loops: a list of k new URLs is gone through k times.
Repeated(s) == [i \in 1..(Len(s) * Len(s)) |-> s[((i - 1) % Len(s)) + 1]]

Plan(m, advert) ==
    LET ptr == gossip[m].ptr[advert.net]
        New == {k \in DOMAIN advert.nodes :
                   advert.nodes[k].url \notin UrlsOf(Elements(State[advert.net][ptr].all))}
    IN  IF ptr = 0 THEN <<>> ELSE Repeated(Kept(advert.nodes, New))

GossipAdvert(m) ==
    /\ gossip[m].pc = "advert"
    /\ Handle(m, IF gossip[m].i > Len(m.adverts)
                 THEN [Undelivered EXCEPT !.pc = "done"]
                 ELSE [gossip[m] EXCEPT !.pc = "cap", !.plan = Plan(m, m.adverts[gossip[m].i])])
    /\ UNCHANGED State

\* The network the current advert is about.
AdvertNet(m) == m.adverts[gossip[m].i].net

Discovered(m) == State[AdvertNet(m)][gossip[m].ptr[AdvertNet(m)]].disc

\* Mutant of GossipCap: > for >=.
GossipCapOff(m) ==
    /\ gossip[m].pc = "cap"
    /\ Handle(m, CASE gossip[m].plan = <<>> ->
                        [gossip[m] EXCEPT !.pc = "advert", !.i = @ + 1]
                   [] gossip[m].plan # <<>> /\ Len(Discovered(m)) > MaxDiscovered ->
                        [gossip[m] EXCEPT !.plan = Tail(@)]
                   [] OTHER -> [gossip[m] EXCEPT !.pc = "load"])
    /\ UNCHANGED State

GossipCap(m) ==
    /\ gossip[m].pc = "cap"
    /\ Handle(m, CASE gossip[m].plan = <<>> ->
                        [gossip[m] EXCEPT !.pc = "advert", !.i = @ + 1]
                   [] gossip[m].plan # <<>> /\ Len(Discovered(m)) >= MaxDiscovered ->
                        [gossip[m] EXCEPT !.plan = Tail(@)]
                   [] OTHER -> [gossip[m] EXCEPT !.pc = "load"])
    /\ UNCHANGED State

GossipLoad(m) ==
    /\ gossip[m].pc = "load"
    /\ Handle(m, [gossip[m] EXCEPT !.pc = "write", !.held = Discovered(m)])
    /\ UNCHANGED State

GossipWrite(m) ==
    /\ gossip[m].pc = "write"
    /\ State' = [State EXCEPT ![AdvertNet(m)][gossip[m].ptr[AdvertNet(m)]].disc =
                    Append(gossip[m].held,
                           [node |-> Head(gossip[m].plan), expires |-> now + TTL])]
    /\ Handle(m, [gossip[m] EXCEPT !.pc = "cap", !.plan = Tail(@), !.held = <<>>])

GossipStep(m) ==
    \/ GossipBegin(m) \/ GossipAdvert(m) \/ GossipCap(m)
    \/ GossipLoad(m) \/ GossipWrite(m)

-----------------------------------------------------------------------------
(* GET /ws/{network} *)

\* What ServeWS does for a client: it dials the first upstream of Best or
\* refuses.  Nothing of the registry changes.
ServeWS(net) ==
    CASE ~Exists(net) \/ Current(net).best = <<>> -> "503"
      [] OTHER -> IF Current(net).best[1].url \in WebSockets THEN "dials" ELSE "502"

-----------------------------------------------------------------------------

Advance ==
    /\ now < MaxNow
    /\ now' = now + 1
    /\ UNCHANGED <<State, dropURLs, round, dropping, worker, req, gossip, crashed>>

Next ==
    /\ ~crashed
    /\ \/ HealthStep
       \/ \E o \in Ops : AdminStep(o)
       \/ \E m \in Msgs : GossipStep(m)
       \/ Advance

Spec == Init /\ [][Next]_vars

\* The runtime schedules every goroutine, every health check ends by its
\* timeout, the ticker keeps firing, and a request that was made is served.
\* Nothing is assumed of clients: a request may never be made.
Fairness ==
    /\ \A net \in Nets :
         WF_vars(~crashed /\ (PickLimiter(net) \/ ReadFirst(net) \/ StartCheck(net) \/ Publish(net)))
    /\ WF_vars(~crashed /\ (Booted \/ Tick \/ Spawn \/ Drain \/ RoundDone \/ \E url \in Urls : Drop(url)))
    /\ \A o \in Ops : WF_vars(~crashed /\ req[o].pc # "idle" /\ AdminStep(o))
    /\ \A m \in Msgs : WF_vars(~crashed /\ gossip[m].pc # "idle" /\ GossipStep(m))

FairSpec == Spec /\ Fairness

-----------------------------------------------------------------------------
(* Properties *)

Present == {net \in Nets : Exists(net)}

Served(net) == Elements(Current(net).best)

\* No network serves a node that never passed a health check.  Whatever the
\* interleaving of health rounds, admin requests and gossip, and whichever
\* object a request writes to, a node reaches Best only by a check that
\* found it alive.  (Proxy and ServeWS forward to Best without a check.)
OnlyCheckedServed ==
    \A net \in Present : UrlsOf(Served(net)) \cap NeverAlive = {}

\* As long as the admin API is not used, a node that is served is also known:
\* RemoveNodeEverywhere, PruneAndMerge, gossip and the goroutines of one
\* round never leave in Best a node the registry has forgotten.
ServedIsKnown ==
    \A net \in Present : Served(net) \subseteq Elements(Current(net).all)

\* The failover order: the proxy tries Best front to back, so it must be
\* sorted by priority with one node each.  POST .../nodes appends.
FailoverOrdered ==
    \A net \in Present : Ordered(Current(net).best)

\* pickLimiter's unlocked st.All[0] is in range.
NoPanic == ~crashed

\* The cap on Discovered, which the gossip handler tests without a lock
\* before it appends, holds while one handler at a time races the health
\* loop, whose pruning replaces the list the handler has loaded.  (Two
\* handlers overrun it.)
DiscoveredBounded ==
    \A net \in Present : Len(Current(net).disc) <= MaxDiscovered

\* Right after PruneAndMerge, a node that was discovered and never passed a
\* check is known only while its Discovered entry lives.
ExpiredPruned ==
    round = "spawn" =>
       \A net \in DOMAIN Config : \A n \in Elements(Current(net).all) :
          \/ n.url \notin NeverAlive
          \/ n \in Elements(Config[net])
          \/ \E d \in Elements(Current(net).disc) : d.node.url = n.url

\* A node an administrator deleted is out of service for good some time
\* after the request was answered: a round in flight may publish it once
\* more, the rounds after it do not.  (For requests that do not add it again.)
DeletedGone ==
    \A o \in Ops : o.op = "DeleteNode" =>
       (req[o].pc = "done" ~> [](crashed \/ o.url \notin UrlsOf(Served(o.net))))

Settled ==
    \A net \in Present : /\ Ordered(Current(net).best)
                          /\ Served(net) \subseteq Elements(Current(net).all)

\* Every disorder the admin API leaves in the failover lists (an appended
\* node out of order, a node of a replaced network, a deleted node an old
\* check published) is gone for good some time after the last request.
Settles == <>[](crashed \/ Settled)

\* A network that is configured with a WebSocket upstream, and is served all
\* along from some time on, serves WebSocket clients some day.
WebSocketsForwarded ==
    \A net \in DOMAIN Config :
       UrlsOf(Elements(Config[net])) \cap WebSockets # {} =>
          (<>[](Served(net) # {}) => <>(ServeWS(net) = "dials"))

\* Health rounds never stop: no set of requests keeps a round from ending.
RoundsRecur == []<>(crashed \/ round = "idle")
-----------------------------------------------------------------------------
(* The routing table the registry stands for. *)

Known == [net \in Nets |-> IF Exists(net) THEN Elements(Current(net).all) ELSE {}]

ServedList == [net \in Nets |-> IF Exists(net) THEN Current(net).best ELSE <<>>]

Table == INSTANCE RoutingTable WITH known <- Known, served <- ServedList

\* Without admin requests, every step of the health loop, of its goroutines
\* and of the gossip handlers is a step of the routing table or none at all:
\* what a goroutine publishes from an old snapshot of All is a selection of
\* nodes known now.
ImplementsRoutingTable == Table!Spec
-----------------------------------------------------------------------------
(* Invariants the properties rest on; ControlPlaneProofs shows them         *)
(* inductive.                                                               *)

WorkerOK(net, g) == g.pc # "off" => g.ptr \in 1..Len(State[net])

RequestOK(o, r) ==
    /\ o.op = "DeleteNode" /\ r.pc \in {"best", "setBest", "all", "setAll"}
          => r.ptr \in 1..Len(State[o.net])
    /\ o.op \in {"AddNetwork", "AddNetworksBulk"} => r.i \in 1..Len(o.cfgs)

HandlerOK(m, g) ==
    /\ \A net \in Nets : g.ptr[net] <= Len(State[net])
    /\ g.i >= 1
    /\ g.pc \in {"cap", "load", "write"} =>
          /\ g.i <= Len(m.adverts)
          /\ g.plan # <<>> => g.ptr[m.adverts[g.i].net] >= 1
    /\ g.pc \in {"load", "write"} => g.plan # <<>>

\* Every pointer a goroutine or a handler holds is to an object that exists,
\* and every position it holds is one of its list.
PointersOK ==
    /\ \A net \in Nets : WorkerOK(net, worker[net])
    /\ \A o \in Ops : RequestOK(o, req[o])
    /\ \A m \in Msgs : HandlerOK(m, gossip[m])

\* No goroutine of a round outlives it.
RoundBarrier == round \notin {"boot", "check"} => AllOff

Checked(s) == \A n \in Elements(s) : n.url \notin NeverAlive

\* Only checked nodes are in a Best list, current or not, or on their way
\* into one.
OnlyCheckedPending ==
    /\ \A net \in Nets : \A ptr \in 1..Len(State[net]) : Checked(State[net][ptr].best)
    /\ \A o \in Ops :
          /\ Checked(req[o].best)
          /\ o.op = "AddNode" /\ req[o].pc \in {"store", "serve"} => o.node.url \notin NeverAlive

\* Without AddNode, every list is ordered on its way into Best too.
OrderedPending ==
    /\ \A net \in Nets : \A ptr \in 1..Len(State[net]) : Ordered(State[net][ptr].best)
    /\ \A o \in Ops : Ordered(req[o].best)

\* Without admin requests, there is one object per network, and what a
\* goroutine is checking is still known.
SnapshotsKnown ==
    \A net \in Nets :
       /\ Len(State[net]) <= 1
       /\ Exists(net) => /\ Served(net) \subseteq Elements(Current(net).all)
                         /\ worker[net].pc = "run" =>
                               Elements(worker[net].nodes) \subseteq Elements(Current(net).all)

\* Without DeleteNode, a list that pickLimiter found non-empty stays so.
PickedNonEmpty ==
    /\ ~crashed
    /\ \A net \in Nets : worker[net].pc = "pick" => Seen(net).all # <<>>

=============================================================================
