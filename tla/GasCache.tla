------------------------------- MODULE GasCache ------------------------------
(***************************************************************************)
(* GET /{network}/gas: Proxy.TryServeGasFee and the six handlers of        *)
(* pkg/api/gas.go.  Each answers from its cache, or else asks the official *)
(* source, or else computes an answer from the network's nodes one after   *)
(* the other, and caches what it got.                                      *)
(*                                                                         *)
(* polygon, ethereum, binance, arbitrum and optimism have a handler, a     *)
(* cache and a lock each, alike but for the network they are about.  The   *)
(* other networks share a handler, whose cache is a map under one lock.    *)
(* The one difference that matters is in CheckCache: on a hit the shared   *)
(* handler writes to its client before it gives the lock back.             *)
(*                                                                         *)
(* A step is one call of the lock, one access to the cache, one request to *)
(* a source, or the writing of the answer.  A value is the network it was  *)
(* fetched for.  There is no clock: a cached value may expire at any time. *)
(*                                                                         *)
(* Bounds: each of Requests arrives at most once; a network serves at most *)
(* MaxNodes nodes.                                                         *)
(***************************************************************************)
EXTENDS Naturals

CONSTANTS
    Nets,       \* network names
    Named,      \* those with a handler of their own
    Evm,        \* those the registry has as EVM networks
    Requests,   \* gas requests: [id, net]
    Readers,    \* the requests whose clients read their answer
    MaxNodes    \* bound on the nodes of a network

ASSUME GasAssumption ==
    /\ Named \subseteq Nets
    /\ Evm \subseteq Nets
    /\ "nothing" \notin Nets
    /\ "generic" \notin Nets
    /\ Requests \subseteq [id : Nat, net : Nets]
    /\ Readers \subseteq Requests
    /\ MaxNodes \in Nat

VARIABLES
    cache,      \* the cached value of each network
    mu,         \* the locks: who reads, and who writes or waits to
    req         \* the handler of each request

vars == <<cache, mu, req>>

Entry == [of : Nets \cup {"nothing"}, fresh : BOOLEAN]

Locks == Named \cup {"generic"}

Lock(net) == IF net \in Named THEN net ELSE "generic"

RWMutex == [readers : SUBSET Requests, writers : SUBSET Requests]

Request == [pc : {"idle", "rlock", "check", "official", "compute", "lock", "wait", "store",
                  "reply", "done", "proxied"},
            left : Nat, body : Nets \cup {"nothing"}, status : {0, 200, 502, 503}]

Blank(pc) == [pc |-> pc, left |-> 0, body |-> "nothing", status |-> 0]

TypeOK ==
    /\ cache \in [Nets -> Entry]
    /\ mu \in [Locks -> RWMutex]
    /\ req \in [Requests -> Request]

Init ==
    /\ cache = [net \in Nets |-> [of |-> "nothing", fresh |-> FALSE]]
    /\ mu = [l \in Locks |-> [readers |-> {}, writers |-> {}]]
    /\ req = [o \in Requests |-> Blank("idle")]

-----------------------------------------------------------------------------
(* sync.RWMutex: a writer waits for the readers it finds, and a reader for  *)
(* the writer that is there or waits.                                       *)

RLock(o) ==
    /\ mu[Lock(o.net)].writers = {}
    /\ mu' = [mu EXCEPT ![Lock(o.net)].readers = @ \cup {o}]

RUnlock(o) == mu' = [mu EXCEPT ![Lock(o.net)].readers = @ \ {o}]

Announce(o) ==
    /\ mu[Lock(o.net)].writers = {}
    /\ mu' = [mu EXCEPT ![Lock(o.net)].writers = {o}]

ReadersGone(o) == mu[Lock(o.net)].readers = {}

Unlock(o) == mu' = [mu EXCEPT ![Lock(o.net)].writers = {}]

-----------------------------------------------------------------------------

Handle(o, r) == req' = [req EXCEPT ![o] = r]

Answer(o, status, body) ==
    Handle(o, [pc |-> "reply", left |-> 0, body |-> body, status |-> status])

\* The shared handler has no oracle for a network that is not an EVM network
\* and leaves the request to the proxy.
Arrive(o) ==
    /\ req[o].pc = "idle"
    /\ Handle(o, [req[o] EXCEPT !.pc = IF o.net \in Named \cup Evm THEN "rlock" ELSE "proxied"])
    /\ UNCHANGED <<cache, mu>>

LockCache(o) ==
    /\ req[o].pc = "rlock"
    /\ RLock(o)
    /\ Handle(o, [req[o] EXCEPT !.pc = "check"])
    /\ UNCHANGED cache

\* Mutant of CheckCache: no handler gives the lock back before it has written.
CheckCacheDeferred(o) ==
    /\ req[o].pc = "check"
    /\ IF cache[o.net].fresh
       THEN /\ Answer(o, 200, cache[o.net].of)
            /\ UNCHANGED mu
       ELSE /\ Handle(o, [req[o] EXCEPT !.pc = "official"])
            /\ RUnlock(o)
    /\ UNCHANGED cache

CheckCache(o) ==
    /\ req[o].pc = "check"
    /\ IF cache[o.net].fresh
       THEN /\ Answer(o, 200, cache[o.net].of)
            /\ IF o.net \in Named THEN RUnlock(o) ELSE UNCHANGED mu
       ELSE /\ Handle(o, [req[o] EXCEPT !.pc = "official"])
            /\ RUnlock(o)
    /\ UNCHANGED cache

\* A value was got, by whatever way.
Got(o) == Handle(o, [pc |-> "lock", left |-> 0, body |-> o.net, status |-> 0])

FetchFromOfficial(o) ==
    /\ req[o].pc = "official"
    /\ Got(o)
    /\ UNCHANGED <<cache, mu>>

\* No official source, or not a 2xx: the nodes that Best returns are asked.
OfficialFailed(o) ==
    /\ req[o].pc = "official"
    /\ \E k \in 0..MaxNodes :
          IF k = 0 THEN Answer(o, 503, "nothing")
          ELSE Handle(o, [pc |-> "compute", left |-> k, body |-> "nothing", status |-> 0])
    /\ UNCHANGED <<cache, mu>>

ComputeFromRPC(o) ==
    /\ req[o].pc = "compute"
    /\ Got(o)
    /\ UNCHANGED <<cache, mu>>

\* Mutant of ComputeFailed: the loop goes on past the last node.
ComputeFailedPast(o) ==
    /\ req[o].pc = "compute"
    /\ Handle(o, [req[o] EXCEPT !.left = @ - 1])
    /\ UNCHANGED <<cache, mu>>

ComputeFailed(o) ==
    /\ req[o].pc = "compute"
    /\ IF req[o].left = 1 THEN Answer(o, 502, "nothing")
       ELSE Handle(o, [req[o] EXCEPT !.left = @ - 1])
    /\ UNCHANGED <<cache, mu>>

AnnounceStore(o) ==
    /\ req[o].pc = "lock"
    /\ Announce(o)
    /\ Handle(o, [req[o] EXCEPT !.pc = "wait"])
    /\ UNCHANGED cache

\* Mutant of BeginStore: the cache is written as under a read lock.
BeginStoreShared(o) ==
    /\ req[o].pc = "wait"
    /\ Handle(o, [req[o] EXCEPT !.pc = "store"])
    /\ UNCHANGED <<cache, mu>>

BeginStore(o) ==
    /\ req[o].pc = "wait"
    /\ ReadersGone(o)
    /\ Handle(o, [req[o] EXCEPT !.pc = "store"])
    /\ UNCHANGED <<cache, mu>>

\* Mutant of Store: one cache for all networks.
StoreForAll(o) ==
    /\ req[o].pc = "store"
    /\ cache' = [net \in Nets |-> [of |-> req[o].body, fresh |-> TRUE]]
    /\ Unlock(o)
    /\ Answer(o, 200, req[o].body)

Store(o) ==
    /\ req[o].pc = "store"
    /\ cache' = [cache EXCEPT ![o.net] = [of |-> req[o].body, fresh |-> TRUE]]
    /\ Unlock(o)
    /\ Answer(o, 200, req[o].body)

\* The answer is written, and the handler returns: a read lock it still holds
\* is given back.
Reply(o) ==
    /\ req[o].pc = "reply"
    /\ Handle(o, Blank("done"))
    /\ RUnlock(o)
    /\ UNCHANGED cache

\* time.Now() reaches exp.
Expire(net) ==
    /\ cache[net].fresh
    /\ cache' = [cache EXCEPT ![net].fresh = FALSE]
    /\ UNCHANGED <<mu, req>>

Step(o) ==
    \/ LockCache(o) \/ CheckCache(o)
    \/ FetchFromOfficial(o) \/ OfficialFailed(o) \/ ComputeFromRPC(o) \/ ComputeFailed(o)
    \/ AnnounceStore(o) \/ BeginStore(o) \/ Store(o)

Next ==
    \/ \E o \in Requests : Arrive(o) \/ Step(o) \/ Reply(o)
    \/ \E net \in Nets : Expire(net)

Spec == Init /\ [][Next]_vars

\* Handlers run and sources answer (or their connections break).  A client
\* that is not in Readers may leave its answer unread for ever: the server
\* sets no write timeout.
Fairness ==
    /\ \A o \in Requests : WF_vars(Step(o))
    /\ \A o \in Readers : WF_vars(Reply(o))

FairSpec == Spec /\ Fairness

-----------------------------------------------------------------------------
(* Properties *)

\* A cache is never read while it is written, nor written by two handlers:
\* body and expiry are two assignments under the lock.
StoreExclusive ==
    \A o, p \in Requests :
       /\ req[o].pc = "store"
       /\ req[p].pc \in {"check", "store"}
       /\ Lock(o.net) = Lock(p.net)
       => o = p

\* What is answered, from the cache or not, is about the network that was
\* asked for.  The handlers are copies of each other.
OwnNetwork ==
    \A o \in Requests : req[o].status = 200 => req[o].body = o.net

\* A client that does not read its answer holds up no request, unless it and
\* the request are both of the shared handler: time and again, no other
\* request is on its way.  (A request arrives once, so each is answered.)
SlowClientsAlone ==
    LET Stuck(o) == \E s \in Requests \ Readers : s.net \notin Named /\ o.net \notin Named
    IN  []<>(\A o \in Requests :
               Stuck(o) \/ req[o].pc \in {"idle", "reply", "done", "proxied"})

-----------------------------------------------------------------------------
(* Invariants the properties rest on; GasCacheProofs shows them inductive.  *)

\* A handler that reads the cache is among the readers of its lock, one that
\* waits to write or writes is its only writer, and one that writes is alone.
LockHeld(o) ==
    /\ req[o].pc = "check" => o \in mu[Lock(o.net)].readers
    /\ req[o].pc \in {"wait", "store"} => mu[Lock(o.net)].writers = {o}
    /\ req[o].pc = "store" => mu[Lock(o.net)].readers = {}

LocksHeld == \A o \in Requests : LockHeld(o)

\* A handler that computes has a node left.
NodeLeft == \A o \in Requests : req[o].pc = "compute" => req[o].left > 0

\* A cached value is about its network, and so is one that is to be cached.
ValuesOwn ==
    /\ \A net \in Nets : cache[net].fresh => cache[net].of = net
    /\ \A o \in Requests : req[o].pc \in {"lock", "wait", "store"} => req[o].body = o.net

=============================================================================
