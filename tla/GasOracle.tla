------------------------------- MODULE GasOracle ------------------------------
(***************************************************************************)
(* How one gas request that misses its cache gets a quote: the official    *)
(* source first, then the network's nodes one after the other, each asked  *)
(* call by call (pkg/oracle, and the loops over Best in pkg/api/gas.go).   *)
(* GasCache has the requests side by side, and takes what is computed here *)
(* for one step.                                                           *)
(*                                                                         *)
(* There are five oracles.  All ask EVMClient, whose calls have a timeout; *)
(* that of BSC falls back on calls of its own, and those of Arbitrum and   *)
(* Optimism add hints about L1: these calls have none, nor has the one to  *)
(* the official source.                                                    *)
(*                                                                         *)
(* Amounts are int64, from -Half to Half - 1; a node's are in wei, Gwei of *)
(* which make one unit.  A node that is asked for an amount may also send  *)
(* nonsense, which is read as some amount.                                 *)
(*                                                                         *)
(* Bounds: a network serves at most MaxNodes nodes; a node answers with an *)
(* amount of Wei.                                                          *)
(***************************************************************************)
EXTENDS Integers, Sequences, SequencesExt

CONSTANTS
    Half,       \* 2^63: int64 goes from -Half to Half - 1
    Gwei,       \* wei to a gwei
    Wei,        \* the amounts that a node may answer with
    Minima,     \* what MinPriorityGwei may be configured to; 0 if it is not
    MaxNodes    \* bound on the nodes of a network

ASSUME OracleAssumption ==
    /\ Half \in Nat /\ Half > 30      \* the default minima are int64
    /\ Gwei \in Nat \ {0}
    /\ Wei \subseteq Int
    /\ Minima \subseteq -Half .. Half - 1
    /\ MaxNodes \in Nat

VARIABLES
    oracle,     \* the oracle of the request: [kind, min, url]
    nodes,      \* the nodes in the order of Best, by how they answer
    at,         \* the node that is asked
    call,       \* what it is asked for
    got,        \* what it has answered so far, in gwei
    status,     \* the status the handler answers with
    quote       \* the quote it answers with, if it was computed

vars == <<oracle, nodes, at, call, got, status, quote>>

Int64 == -Half .. Half - 1

Wrap(n) == ((n + Half) % (2 * Half)) - Half

Kinds == {"eth", "polygon", "bsc", "arbitrum", "optimism"}

\* A node answers whatever a quote needs; or it does, but knows no EIP-1559; or
\* it fails every call; or any of them, be it half way; or it answers or leaves
\* a call, be it half way, without an answer for ever.
Conducts == {"up", "legacy", "refuses", "fickle", "hangs"}

Tier == [maxPriorityFee : Int64, maxFee : Int64, gasPrice : Int64]
Quote == [fast : Tier, standard : Tier, slow : Tier, base : Int64, block : Int64]
Calls == {"official", "feeHistory", "priorityFee", "blockNumber",
          "gasPrice", "bscBlock", "bscPriority", "hints", "done"}

\* Amounts are amounts of int64, and the node that is asked is one of Best.
TypeOK ==
    /\ oracle \in [kind : Kinds, min : Int64, url : BOOLEAN]
    /\ nodes \in BoundedSeq(Conducts, MaxNodes)
    /\ at \in 0..Len(nodes)
    /\ call \in Calls
    /\ call \notin {"official", "done"} => at > 0
    /\ got \in [base : Int64, prio : Int64, block : Int64, price : Int64]
    /\ status \in {0, 200, 502, 503}
    /\ quote \in Seq(Quote) /\ Len(quote) <= 1

-----------------------------------------------------------------------------
(* The oracles *)

Configured(min, default) == IF min > 0 THEN min ELSE default

NewEthGasOracle(min)      == Configured(min, 2)
NewPolygonGasOracle(min)  == Configured(min, 30)
NewBscGasOracle(min)      == Configured(min, 1)
NewArbitrumGasOracle(min) == Configured(min, 1)
NewOptimismGasOracle(min) == Configured(min, 1)

NewOracleForNetwork(kind, min) ==
    CASE kind = "eth"      -> NewEthGasOracle(min)
      [] kind = "polygon"  -> NewPolygonGasOracle(min)
      [] kind = "bsc"      -> NewBscGasOracle(min)
      [] kind = "arbitrum" -> NewArbitrumGasOracle(min)
      [] kind = "optimism" -> NewOptimismGasOracle(min)

Nothing == [base |-> 0, prio |-> 0, block |-> 0, price |-> 0]

Init ==
    /\ \E kind \in Kinds, min \in Minima, url \in BOOLEAN :
          oracle = [kind |-> kind, min |-> NewOracleForNetwork(kind, min), url |-> url]
    /\ nodes \in BoundedSeq(Conducts, MaxNodes)
    /\ at = 0
    /\ call = "official"
    /\ got = Nothing
    /\ status = 0
    /\ quote = <<>>

AtLeast(n, min) == IF n < min THEN min ELSE n

\* Mutant of build: the sum is not clamped again.
buildOnce(base, prio, delta) ==
    LET p == Wrap(AtLeast(prio, oracle.min) + delta)
        m == Wrap(base + p)
    IN  [maxPriorityFee |-> p, maxFee |-> m, gasPrice |-> m]

build(base, prio, delta) ==
    LET p == AtLeast(Wrap(AtLeast(prio, oracle.min) + delta), oracle.min)
        m == Wrap(base + p)
    IN  [maxPriorityFee |-> p, maxFee |-> m, gasPrice |-> m]

Built(g, fast, standard) ==
    [fast     |-> build(g.base, g.prio, fast),
     standard |-> build(g.base, g.prio, standard),
     slow     |-> build(g.base, g.prio, 0),
     base     |-> g.base,
     block    |-> g.block]

EthGasV1(g)      == Built(g, 10, 5)
PolygonGasV2(g)  == Built(g, 10, 5)
BscGasV1(g)      == Built(g, 5, 2)
ArbitrumGasV1(g) == Built(g, 5, 2)
OptimismGasV1(g) == Built(g, 5, 2)

Computed(g) ==
    CASE oracle.kind = "eth"      -> EthGasV1(g)
      [] oracle.kind = "polygon"  -> PolygonGasV2(g)
      [] oracle.kind = "bsc"      -> BscGasV1(g)
      [] oracle.kind = "arbitrum" -> ArbitrumGasV1(g)
      [] oracle.kind = "optimism" -> OptimismGasV1(g)

-----------------------------------------------------------------------------
(* Steps of the handler *)

Ask(next, g) ==
    /\ call' = next
    /\ got' = g
    /\ UNCHANGED <<oracle, nodes, at, status, quote>>

Respond(code, q) ==
    /\ call' = "done"
    /\ status' = code
    /\ quote' = q
    /\ UNCHANGED <<oracle, nodes, at, got>>

AskNode(n) ==
    /\ at' = n
    /\ call' = "feeHistory"
    /\ got' = Nothing
    /\ UNCHANGED <<oracle, nodes, status, quote>>

\* Mutant of NextNode: the loop ends with the first node.
NextNodeNone == Respond(502, <<>>)

NextNode == IF at = Len(nodes) THEN Respond(502, <<>>) ELSE AskNode(at + 1)

\* A source that accepts the request may leave it there for ever.
FetchFromOfficial ==
    /\ call = "official"
    /\ oracle.url
    /\ Respond(200, <<>>)

OfficialFailed ==
    /\ call = "official"
    /\ IF nodes = <<>> THEN Respond(503, <<>>) ELSE AskNode(1)

\* What ComputeFromRPC gives; the hints are asked for when the rest is there.
Finish(g) ==
    IF oracle.kind \in {"arbitrum", "optimism"} THEN Ask("hints", g)
    ELSE Respond(200, <<Computed(g)>>)

\* EVMClient.Compute failed.
ComputeFailed == IF oracle.kind = "bsc" THEN Ask("gasPrice", Nothing) ELSE NextNode

-----------------------------------------------------------------------------
(* What a node answers: <<>> if the call fails, or else <<amount>>.         *)

Fails == <<>>

\* Calls that legacy nodes do not know.
Modern == {"feeHistory", "priorityFee", "bscPriority", "hints"}

\* Calls that a quote can do without.
Spare == {"blockNumber", "bscBlock", "hints"}

Amounts == {<<n>> : n \in Wei}

Answers ==
    CASE nodes[at] = "up"      -> IF call \in Spare THEN Amounts \cup {Fails} ELSE Amounts
      [] nodes[at] = "legacy"  -> IF call \in Modern THEN {Fails} ELSE Amounts
      [] nodes[at] = "refuses" -> {Fails}
      [] nodes[at] = "fickle"  -> Amounts \cup {Fails}
      [] nodes[at] = "hangs"   -> Amounts

\* Mutant of hexWeiToGwei: the quotient is not cut down to an int64.
hexWeiToGweiBig(n) == n \div Gwei

hexWeiToGwei(n) == Wrap(n \div Gwei)

hexToInt64(n) == Wrap(n)

FeeHistory(answer) ==
    /\ call = "feeHistory"
    /\ IF answer = Fails THEN ComputeFailed
       ELSE Ask("priorityFee", [got EXCEPT !.base = hexWeiToGwei(answer[1])])

PriorityFee(answer) ==
    /\ call = "priorityFee"
    /\ IF answer = Fails THEN ComputeFailed
       ELSE Ask("blockNumber", [got EXCEPT !.prio = hexWeiToGwei(answer[1])])

\* An error is ignored.  The oracle of BSC takes no base fee of 0 or less.
BlockNumber(answer) ==
    /\ call = "blockNumber"
    /\ IF oracle.kind = "bsc" /\ got.base <= 0 THEN Ask("gasPrice", Nothing)
       ELSE Finish([got EXCEPT !.block = IF answer = Fails THEN 0 ELSE hexToInt64(answer[1])])

EthGasPriceGwei(answer) ==
    /\ call = "gasPrice"
    /\ Ask("bscBlock", [got EXCEPT !.price = IF answer = Fails THEN 0 ELSE hexWeiToGwei(answer[1])])

BscBlockNumber(answer) ==
    /\ call = "bscBlock"
    /\ Ask("bscPriority", [got EXCEPT !.block = IF answer = Fails THEN 0 ELSE hexToInt64(answer[1])])

\* Mutant of Estimate: the base fee is what is left of the price.
EstimateBelow(price, prio) == [got EXCEPT !.prio = prio, !.base = Wrap(price - prio)]

Estimate(price, prio) == [got EXCEPT !.prio = prio, !.base = AtLeast(Wrap(price - prio), 0)]

BscPriorityFee(answer) ==
    /\ call = "bscPriority"
    /\ Finish(Estimate(got.price,
                       AtLeast(IF answer = Fails THEN 0 ELSE hexWeiToGwei(answer[1]), oracle.min)))

\* tryArbGasInfo and tryOptimismRollupGasPrices: their failure is ignored.
Hints(answer) ==
    /\ call = "hints"
    /\ Respond(200, <<Computed(got)>>)

Rpc(answer) ==
    \/ FeeHistory(answer) \/ PriorityFee(answer) \/ BlockNumber(answer)
    \/ EthGasPriceGwei(answer) \/ BscBlockNumber(answer) \/ BscPriorityFee(answer)
    \/ Hints(answer)

\* Mutant of Timed: EVMClient makes its calls without its timeout.
TimedNone == {}

\* The calls of EVMClient.
Timed == {"feeHistory", "priorityFee", "blockNumber"}

TimeOut ==
    /\ call \in Timed
    /\ nodes[at] = "hangs"
    /\ Rpc(Fails)

Next ==
    \/ FetchFromOfficial
    \/ OfficialFailed
    \/ at > 0 /\ call # "done" /\ \E answer \in Answers : Rpc(answer)
    \/ TimeOut

Spec == Init /\ [][Next]_vars

\* A call of a node ends: there is a timeout, or the node answers or fails it.
CallEnds == (call \in Timed \/ nodes[at] # "hangs") /\ Next

\* Handlers run, timeouts elapse and nodes that end a call do.  Nothing is
\* assumed of an official source.
Fairness ==
    /\ WF_vars(~oracle.url /\ OfficialFailed)
    /\ WF_vars(at > 0 /\ CallEnds)

FairSpec == Spec /\ Fairness

-----------------------------------------------------------------------------
(* Properties *)

Tiers(q) == {q.slow, q.standard, q.fast}

\* No tier bids less than the configured minimum, whatever a node answers and
\* wherever the sums wrap around.
FeesFloored ==
    \A k \in DOMAIN quote : \A tier \in Tiers(quote[k]) : tier.maxPriorityFee >= oracle.min

\* Where nothing wraps around, the tiers are in order, their caps cover base
\* fee and tip, and no quote that was estimated from a node's gas price is
\* below that price: the two ways of BSC agree.
FeesCohere ==
    \A k \in DOMAIN quote :
       LET q == quote[k]
       IN  /\ got.base >= 0
           /\ got.price >= 0
           /\ q.base + q.slow.maxPriorityFee + 10 < Half
           => /\ q.base >= 0
              /\ q.slow.maxPriorityFee <= q.standard.maxPriorityFee
              /\ q.standard.maxPriorityFee <= q.fast.maxPriorityFee
              /\ \A tier \in Tiers(q) : /\ tier.maxFee = q.base + tier.maxPriorityFee
                                       /\ tier.maxFee >= got.price

\* No quote can be made of what these answer.
Unfit == {"legacy", "refuses"}

\* Wherever the nodes before it failed, a node that answers what a quote needs
\* is not passed over, be its block number or its hints missing: a request
\* fails only if there is none, and a quote comes from the first one or from
\* one before it that is not unfit.  (BSC's oracle makes a quote of nothing and
\* never goes on to the next node.)
LiveNodeQuoted ==
    /\ status = 502 => \A n \in DOMAIN nodes : nodes[n] # "up"
    /\ quote # <<>> => \A n \in 1..(at - 1) : nodes[n] # "up"
    /\ quote # <<>> /\ oracle.kind # "bsc" => nodes[at] \notin Unfit

\* Without an official source, a request ends even if nodes leave calls
\* without an answer, unless the oracle makes calls that have no timeout.
EndsInTime ==
    /\ ~oracle.url
    /\ \/ oracle.kind \in {"eth", "polygon"}
       \/ \A n \in DOMAIN nodes : nodes[n] # "hangs"
    => <>(call = "done")
-----------------------------------------------------------------------------
(* Invariants the properties rest on; GasOracleProofs shows them inductive. *)

\* The handler answers once.
Unanswered == call # "done" => status = 0 /\ quote = <<>>

\* Of the nodes before the one that is asked none answers what a quote needs,
\* and one that is unfit is asked for no more than it knows.
NonePassedOver ==
    /\ call # "done" => \A n \in 1..(at - 1) : nodes[n] # "up"
    /\ call \in {"gasPrice", "bscBlock", "bscPriority"} => oracle.kind = "bsc"
    /\ call \in {"priorityFee", "blockNumber", "hints"} /\ oracle.kind # "bsc" =>
          nodes[at] \notin Unfit

\* Every oracle has a minimum, and only the fallback of BSC takes the gas
\* price for more than 0.
Priced ==
    /\ oracle.min > 0
    /\ got.price # 0 => oracle.kind = "bsc" /\ call \in {"bscBlock", "bscPriority", "done"}

=============================================================================
