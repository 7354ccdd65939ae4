---------------------------- MODULE GasOracleProofs ---------------------------
(***************************************************************************)
(* Proofs about GasOracle, for amounts of any width, nodes that answer any *)
(* amount and networks of any size: a quote is made of int64 amounts, no   *)
(* tier bids below the minimum, and no node that answers is passed over.   *)
(* The conversions and sums wrap around; what is proved of them is that    *)
(* the clamp comes after the last of them and, where they do not wrap      *)
(* around, that the tiers are in order and their caps cover them.          *)
(***************************************************************************)
EXTENDS GasOracle, TLAPS

Got == [base : Int64, prio : Int64, block : Int64, price : Int64]

-----------------------------------------------------------------------------
(* Arithmetic *)

\* Wrap (the conversion to int64 and the sums) gives an int64.
LEMMA WrapType == \A n \in Int : Wrap(n) \in Int64
<1> SUFFICES ASSUME NEW n \in Int PROVE Wrap(n) \in Int64
  OBVIOUS
<1> DEFINE w == 2 * Half
<1>1. w \in Nat /\ w > 0 /\ n + Half \in Int
  BY OracleAssumption
<1>2. (n + Half) % w \in 0..(w - 1)
  <2> HIDE DEF w
  <2> QED  BY <1>1, SMT
<1> QED  BY <1>2, OracleAssumption DEF Wrap, Int64

\* What is clamped is not below the clamp, and is an int64 if both are.
LEMMA AtLeastType ==
    \A n, min \in Int64 : AtLeast(n, min) \in Int64 /\ AtLeast(n, min) >= min
  BY OracleAssumption DEF AtLeast, Int64

\* A tier is made of int64 amounts and does not bid below the minimum.
LEMMA BuildType ==
    ASSUME oracle.min \in Int64,
           NEW base \in Int64, NEW prio \in Int64, NEW delta \in Int
    PROVE  /\ build(base, prio, delta) \in Tier
           /\ build(base, prio, delta).maxPriorityFee >= oracle.min
<1> DEFINE q == Wrap(AtLeast(prio, oracle.min) + delta)
           p == AtLeast(q, oracle.min)
<1>1. AtLeast(prio, oracle.min) + delta \in Int
  <2>1. AtLeast(prio, oracle.min) \in Int64
    BY AtLeastType
  <2> QED  BY <2>1, OracleAssumption DEF Int64
<1>2. q \in Int64
  BY <1>1, WrapType
<1>3. p \in Int64 /\ p >= oracle.min
  BY <1>2, AtLeastType
<1>4. Wrap(base + p) \in Int64
  <2>1. base + p \in Int  BY <1>3, OracleAssumption DEF Int64
  <2> QED  BY <2>1, WrapType
<1> HIDE DEF q, p
<1>5. build(base, prio, delta) =
         [maxPriorityFee |-> p, maxFee |-> Wrap(base + p), gasPrice |-> Wrap(base + p)]
  BY DEF build, q, p
<1> QED  BY <1>3, <1>4, <1>5 DEF Tier

\* Each oracle makes its tiers of two increments.
LEMMA ComputedIsBuilt ==
    ASSUME oracle.kind \in Kinds, NEW g
    PROVE  Computed(g) = Built(g, 10, 5) \/ Computed(g) = Built(g, 5, 2)
<1>1. CASE oracle.kind = "eth"
  BY <1>1 DEF Computed, EthGasV1
<1>2. CASE oracle.kind = "polygon"
  BY <1>2 DEF Computed, PolygonGasV2
<1>3. CASE oracle.kind = "bsc"
  BY <1>3 DEF Computed, BscGasV1
<1>4. CASE oracle.kind = "arbitrum"
  BY <1>4 DEF Computed, ArbitrumGasV1
<1>5. CASE oracle.kind = "optimism"
  BY <1>5 DEF Computed, OptimismGasV1
<1> QED  BY <1>1, <1>2, <1>3, <1>4, <1>5 DEF Kinds

\* The quote of any oracle has its type and keeps the minimum in each tier.
LEMMA ComputedType ==
    ASSUME oracle \in [kind : Kinds, min : Int64, url : BOOLEAN],
           NEW g \in Got
    PROVE  /\ Computed(g) \in Quote
           /\ \A tier \in Tiers(Computed(g)) : tier.maxPriorityFee >= oracle.min
<1>1. /\ g.base \in Int64 /\ g.prio \in Int64 /\ g.block \in Int64
      /\ oracle.min \in Int64 /\ oracle.kind \in Kinds
  BY DEF Got
<1>2. ASSUME NEW fast \in Int, NEW standard \in Int
      PROVE  /\ Built(g, fast, standard) \in Quote
             /\ \A tier \in Tiers(Built(g, fast, standard)) : tier.maxPriorityFee >= oracle.min
  <2>1. \A d \in Int : /\ build(g.base, g.prio, d) \in Tier
                       /\ build(g.base, g.prio, d).maxPriorityFee >= oracle.min
    BY <1>1, BuildType
  <2> QED  BY <1>1, <2>1 DEF Built, Quote, Tiers
<1>3. Computed(g) = Built(g, 10, 5) \/ Computed(g) = Built(g, 5, 2)
  BY <1>1, ComputedIsBuilt
<1> QED  BY <1>2, <1>3

\* What is read of a node's amount is an int64.
LEMMA ReadType ==
    \A n \in Int : hexWeiToGwei(n) \in Int64 /\ hexToInt64(n) \in Int64
<1> SUFFICES ASSUME NEW n \in Int
             PROVE  hexWeiToGwei(n) \in Int64 /\ hexToInt64(n) \in Int64
  OBVIOUS
<1>1. n \div Gwei \in Int
  BY OracleAssumption
<1> QED  BY <1>1, WrapType DEF hexWeiToGwei, hexToInt64

-----------------------------------------------------------------------------
(* The invariant *)

IInv == TypeOK /\ FeesFloored /\ LiveNodeQuoted /\ Unanswered /\ NonePassedOver

\* What a call of the handler can learn: nothing, or an amount.
Told == {Fails} \cup {<<n>> : n \in Int}

\* The nodes of the network are a sequence.
LEMMA NodesType == nodes \in BoundedSeq(Conducts, MaxNodes) => nodes \in Seq(Conducts)
  BY OracleAssumption DEF BoundedSeq, SeqOf

\* The minimum of each oracle, its default if none is configured, is an int64
\* and positive.
LEMMA MinType ==
    ASSUME NEW kind \in Kinds, NEW min \in Int64
    PROVE  NewOracleForNetwork(kind, min) \in Int64 /\ NewOracleForNetwork(kind, min) > 0
<1>1. \A default \in 1..30 : Configured(min, default) \in Int64 /\ Configured(min, default) > 0
  BY OracleAssumption DEF Configured, Int64
<1>2. CASE kind = "eth"
  BY <1>1, <1>2 DEF NewOracleForNetwork, NewEthGasOracle
<1>3. CASE kind = "polygon"
  BY <1>1, <1>3 DEF NewOracleForNetwork, NewPolygonGasOracle
<1>4. CASE kind = "bsc"
  BY <1>1, <1>4 DEF NewOracleForNetwork, NewBscGasOracle
<1>5. CASE kind = "arbitrum"
  BY <1>1, <1>5 DEF NewOracleForNetwork, NewArbitrumGasOracle
<1>6. CASE kind = "optimism"
  BY <1>1, <1>6 DEF NewOracleForNetwork, NewOptimismGasOracle
<1> QED  BY <1>2, <1>3, <1>4, <1>5, <1>6 DEF Kinds

\* A request starts with nothing asked and nothing answered.
LEMMA Starts == Init => IInv
<1> SUFFICES ASSUME Init PROVE IInv
  OBVIOUS
<1>1. oracle \in [kind : Kinds, min : Int64, url : BOOLEAN]
  BY MinType, OracleAssumption DEF Init, Int64
<1>2. Nothing \in Got
  BY OracleAssumption DEF Nothing, Got, Int64
<1>3. Len(nodes) \in Nat
  BY NodesType DEF Init
<1>4. TypeOK
  BY <1>1, <1>2, <1>3 DEF Init, TypeOK, Got, Calls
<1> QED  BY <1>4 DEF IInv, Init, FeesFloored, LiveNodeQuoted, Unanswered, NonePassedOver

\* What every step of the handler may use of where the request stands.
LEMMA Underway ==
    ASSUME IInv, call # "done"
    PROVE  /\ status = 0 /\ quote = <<>>
           /\ nodes \in Seq(Conducts) /\ Len(nodes) \in Nat /\ at \in 0..Len(nodes)
           /\ oracle \in [kind : Kinds, min : Int64, url : BOOLEAN]
           /\ got \in Got
           /\ call # "official" => at > 0
           /\ \A n \in 1..(at - 1) : nodes[n] # "up"
<1>1. nodes \in Seq(Conducts)
  BY NodesType DEF IInv, TypeOK
<1>2. Len(nodes) \in Nat
  BY <1>1
<1> QED  BY <1>1, <1>2 DEF IInv, TypeOK, Unanswered, NonePassedOver, Got

\* The next question to the same node: one to a node that is not unfit, or one
\* of the oracle of BSC.
LEMMA Asks ==
    ASSUME IInv, call \notin {"official", "done"},
           NEW next \in Calls \ {"official", "done", "feeHistory"}, NEW g \in Got,
           \/ oracle.kind = "bsc"
           \/ nodes[at] \notin Unfit /\ next \in {"priorityFee", "blockNumber", "hints"},
           Ask(next, g)
    PROVE  IInv'
<1>1. TypeOK'
  BY Underway DEF Ask, IInv, TypeOK, Got
<1>2. FeesFloored' /\ LiveNodeQuoted' /\ Unanswered'
  BY Underway DEF Ask, FeesFloored, LiveNodeQuoted, Unanswered
<1>3. NonePassedOver'
  BY Underway DEF Ask, NonePassedOver
<1> QED  BY <1>1, <1>2, <1>3 DEF IInv

\* The first question to a node, of which all the nodes before do not answer.
LEMMA AsksNode ==
    ASSUME IInv, call # "done", NEW n \in 1..Len(nodes),
           \A k \in 1..(n - 1) : nodes[k] # "up",
           AskNode(n)
    PROVE  IInv'
<1>1. Nothing \in Got
  BY OracleAssumption DEF Nothing, Got, Int64
<1>2. TypeOK'
  BY <1>1, Underway DEF AskNode, IInv, TypeOK, Got, Calls
<1>3. FeesFloored' /\ LiveNodeQuoted' /\ Unanswered'
  BY Underway DEF AskNode, FeesFloored, LiveNodeQuoted, Unanswered
<1>4. NonePassedOver'
  BY Underway DEF AskNode, NonePassedOver
<1> QED  BY <1>2, <1>3, <1>4 DEF IInv

\* On to the next node from one that does not answer, or out of nodes.
LEMMA Moves ==
    ASSUME IInv, call \notin {"official", "done"}, nodes[at] # "up", NextNode
    PROVE  IInv'
<1>1. \A k \in 1..at : nodes[k] # "up"
  BY Underway
<1>2. CASE at = Len(nodes)
  <2>1. Respond(502, <<>>)
    BY <1>2 DEF NextNode
  <2>2. TypeOK'
    BY <2>1, Underway DEF Respond, IInv, TypeOK, Calls
  <2>3. \A k \in DOMAIN nodes : nodes[k] # "up"
    BY <1>1, <1>2, Underway
  <2> QED
    BY <2>1, <2>2, <2>3, Underway
    DEF Respond, IInv, FeesFloored, LiveNodeQuoted, Unanswered, NonePassedOver
<1>3. CASE at # Len(nodes)
  <2>1. AskNode(at + 1) /\ at + 1 \in 1..Len(nodes)
    BY <1>3, Underway DEF NextNode
  <2>2. \A k \in 1..((at + 1) - 1) : nodes[k] # "up"
    BY <1>1, Underway
  <2> QED  BY <2>1, <2>2, AsksNode
<1> QED  BY <1>2, <1>3

\* The answer with a quote, which is from a node that is not unfit if it is not
\* of the oracle of BSC.
LEMMA Quotes ==
    ASSUME IInv, call \notin {"official", "done"}, NEW g \in Got,
           oracle.kind # "bsc" => nodes[at] \notin Unfit,
           Respond(200, <<Computed(g)>>)
    PROVE  IInv'
<1> DEFINE q == Computed(g)
<1>1. q \in Quote /\ \A tier \in Tiers(q) : tier.maxPriorityFee >= oracle.min
  BY Underway, ComputedType
<1> HIDE DEF q
<1>2. quote' = <<q>> /\ status' = 200 /\ call' = "done" /\ UNCHANGED <<oracle, nodes, at, got>>
  BY DEF Respond, q
<1>3. TypeOK'
  BY <1>1, <1>2 DEF IInv, TypeOK, Calls
<1>4. FeesFloored'
  BY <1>1, <1>2 DEF FeesFloored, Tiers
<1>5. LiveNodeQuoted' /\ Unanswered' /\ NonePassedOver'
  BY <1>2, Underway DEF LiveNodeQuoted, Unanswered, NonePassedOver
<1> QED  BY <1>3, <1>4, <1>5 DEF IInv

-----------------------------------------------------------------------------
(* The steps *)

\* EVMClient.Compute failed: the oracle of BSC asks the node for its gas price,
\* and every other is done with it.
LEMMA Failed ==
    ASSUME IInv, call \notin {"official", "done"}, nodes[at] # "up", ComputeFailed
    PROVE  IInv'
<1>1. Nothing \in Got
  BY OracleAssumption DEF Nothing, Got, Int64
<1>2. CASE oracle.kind = "bsc"
  BY <1>1, <1>2, Asks DEF ComputeFailed, Calls
<1>3. CASE oracle.kind # "bsc"
  BY <1>3, Moves DEF ComputeFailed
<1> QED  BY <1>2, <1>3

\* ComputeFromRPC has what it needs.
LEMMA Finishes ==
    ASSUME IInv, call \notin {"official", "done"}, NEW g \in Got,
           oracle.kind # "bsc" => nodes[at] \notin Unfit,
           Finish(g)
    PROVE  IInv'
<1>1. CASE oracle.kind \in {"arbitrum", "optimism"}
  BY <1>1, Asks DEF Finish, Calls
<1>2. CASE oracle.kind \notin {"arbitrum", "optimism"}
  BY <1>2, Quotes DEF Finish
<1> QED  BY <1>1, <1>2

\* A call ends, with what it is told or without; one that a quote needs fails
\* only at a node that does not answer all of these, and what legacy nodes do
\* not know is told by one that is not unfit.
LEMMA Answered ==
    ASSUME IInv, call \notin {"official", "done"},
           NEW answer \in Told,
           answer = Fails /\ call \notin Spare => nodes[at] # "up",
           answer # Fails /\ call \in Modern => nodes[at] \notin Unfit,
           Rpc(answer)
    PROVE  IInv'
<1> DEFINE gwei == IF answer = Fails THEN 0 ELSE hexWeiToGwei(answer[1])
           block == IF answer = Fails THEN 0 ELSE hexToInt64(answer[1])
<1>1. answer # Fails => hexWeiToGwei(answer[1]) \in Int64 /\ hexToInt64(answer[1]) \in Int64
  <2> SUFFICES ASSUME answer # Fails PROVE answer[1] \in Int
    BY ReadType
  <2> QED  BY DEF Told
<1>2. gwei \in Int64 /\ block \in Int64
  BY <1>1, OracleAssumption DEF Int64
<1> HIDE DEF gwei, block
<1>3. got \in Got /\ oracle.min \in Int64
  BY Underway
<1>4. CASE FeeHistory(answer)
  <2>1. CASE answer = Fails
    BY <1>4, <2>1, Failed DEF FeeHistory, Spare
  <2>2. CASE answer # Fails
    <3> DEFINE g == [got EXCEPT !.base = hexWeiToGwei(answer[1])]
    <3>1. g \in Got
      BY <1>1, <1>3, <2>2 DEF Got
    <3>2. Ask("priorityFee", g) /\ nodes[at] \notin Unfit
      BY <1>4, <2>2 DEF FeeHistory, Modern
    <3> HIDE DEF g
    <3> QED  BY <3>1, <3>2, Asks DEF Calls
  <2> QED  BY <2>1, <2>2
<1>5. CASE PriorityFee(answer)
  <2>1. CASE answer = Fails
    BY <1>5, <2>1, Failed DEF PriorityFee, Spare
  <2>2. CASE answer # Fails
    <3> DEFINE g == [got EXCEPT !.prio = hexWeiToGwei(answer[1])]
    <3>1. g \in Got
      BY <1>1, <1>3, <2>2 DEF Got
    <3>2. Ask("blockNumber", g) /\ nodes[at] \notin Unfit
      BY <1>5, <2>2 DEF PriorityFee, Modern
    <3> HIDE DEF g
    <3> QED  BY <3>1, <3>2, Asks DEF Calls
  <2> QED  BY <2>1, <2>2
<1>6. CASE BlockNumber(answer)
  <2>1. CASE oracle.kind = "bsc" /\ got.base <= 0
    <3>1. Nothing \in Got
      BY OracleAssumption DEF Nothing, Got, Int64
    <3>2. Ask("gasPrice", Nothing)
      BY <1>6, <2>1 DEF BlockNumber
    <3> QED  BY <2>1, <3>1, <3>2, <1>6, Asks DEF Calls
  <2>2. CASE ~(oracle.kind = "bsc" /\ got.base <= 0)
    <3> DEFINE g == [got EXCEPT !.block = block]
    <3>1. g \in Got
      BY <1>2, <1>3 DEF Got
    <3>2. Finish(g)
      BY <1>6, <2>2 DEF BlockNumber, block
    <3>3. oracle.kind # "bsc" => nodes[at] \notin Unfit
      BY <1>6 DEF IInv, NonePassedOver, BlockNumber
    <3> HIDE DEF g
    <3> QED  BY <3>1, <3>2, <3>3, Finishes
  <2> QED  BY <2>1, <2>2
<1>7. CASE EthGasPriceGwei(answer)
  <2> DEFINE g == [got EXCEPT !.price = gwei]
  <2>1. g \in Got
    BY <1>2, <1>3 DEF Got
  <2>2. Ask("bscBlock", g) /\ oracle.kind = "bsc"
    BY <1>7 DEF EthGasPriceGwei, gwei, IInv, NonePassedOver
  <2> HIDE DEF g
  <2> QED  BY <2>1, <2>2, Asks DEF Calls
<1>8. CASE BscBlockNumber(answer)
  <2> DEFINE g == [got EXCEPT !.block = block]
  <2>1. g \in Got
    BY <1>2, <1>3 DEF Got
  <2>2. Ask("bscPriority", g) /\ oracle.kind = "bsc"
    BY <1>8 DEF BscBlockNumber, block, IInv, NonePassedOver
  <2> HIDE DEF g
  <2> QED  BY <2>1, <2>2, Asks DEF Calls
<1>9. CASE BscPriorityFee(answer)
  <2> DEFINE prio == AtLeast(gwei, oracle.min)
             g == Estimate(got.price, prio)
  <2>1. prio \in Int64
    BY <1>2, <1>3, AtLeastType
  <2>2. Wrap(got.price - prio) \in Int64
    <3>1. got.price - prio \in Int
      BY <1>3, <2>1, OracleAssumption DEF Got, Int64
    <3> QED  BY <3>1, WrapType
  <2>3. AtLeast(Wrap(got.price - prio), 0) \in Int64
    <3>1. 0 \in Int64
      BY OracleAssumption DEF Int64
    <3> QED  BY <2>2, <3>1, AtLeastType
  <2> HIDE DEF prio
  <2>4. g \in Got
    BY <1>3, <2>1, <2>3 DEF Estimate, Got
  <2>5. Finish(g) /\ oracle.kind = "bsc"
    BY <1>9 DEF BscPriorityFee, gwei, prio, IInv, NonePassedOver
  <2> HIDE DEF g
  <2> QED  BY <2>4, <2>5, Finishes
<1>10. CASE Hints(answer)
  <2>1. Respond(200, <<Computed(got)>>) /\ (oracle.kind # "bsc" => nodes[at] \notin Unfit)
    BY <1>10 DEF Hints, IInv, NonePassedOver
  <2> QED  BY <1>3, <2>1, Quotes
<1> QED  BY <1>4, <1>5, <1>6, <1>7, <1>8, <1>9, <1>10 DEF Rpc

\* What a node says: no failure of a call that a quote needs if it answers
\* these, and no amount to what legacy nodes do not know if it is unfit.
LEMMA ToldByNodes ==
    ASSUME nodes[at] \in Conducts, NEW answer \in Answers
    PROVE  /\ answer \in Told
           /\ answer = Fails /\ call \notin Spare => nodes[at] # "up"
           /\ answer # Fails /\ call \in Modern => nodes[at] \notin Unfit
<1>1. Amounts \subseteq Told /\ Fails \notin Amounts
  BY OracleAssumption, SMT DEF Told, Fails, Amounts
<1>2. CASE nodes[at] = "up"
  <2>1. answer \in Amounts \/ (answer = Fails /\ call \in Spare)
    BY <1>2 DEF Answers
  <2> QED  BY <1>1, <1>2, <2>1 DEF Told, Unfit
<1>3. CASE nodes[at] = "legacy"
  <2>1. IF call \in Modern THEN answer = Fails ELSE answer \in Amounts
    BY <1>3 DEF Answers
  <2> QED  BY <1>1, <1>3, <2>1 DEF Told
<1>4. CASE nodes[at] = "refuses"
  BY <1>4 DEF Answers, Told
<1>5. CASE nodes[at] = "fickle"
  <2>1. answer \in Amounts \/ answer = Fails
    BY <1>5 DEF Answers
  <2> QED  BY <1>1, <1>5, <2>1 DEF Told, Unfit
<1>6. CASE nodes[at] = "hangs"
  <2>1. answer \in Amounts
    BY <1>6 DEF Answers
  <2> QED  BY <1>1, <1>6, <2>1 DEF Unfit
<1> QED  BY <1>2, <1>3, <1>4, <1>5, <1>6 DEF Conducts

\* Every step keeps the invariant.
LEMMA Steps == IInv /\ [Next]_vars => IInv'
<1> SUFFICES ASSUME IInv, [Next]_vars PROVE IInv'
  OBVIOUS
<1>1. CASE FetchFromOfficial
  BY <1>1, Underway
  DEF FetchFromOfficial, Respond, IInv, TypeOK, Calls, FeesFloored, LiveNodeQuoted,
      Unanswered, NonePassedOver
<1>2. CASE OfficialFailed
  <2>1. CASE nodes = <<>>
    BY <1>2, <2>1, Underway
    DEF OfficialFailed, Respond, IInv, TypeOK, Calls, FeesFloored, LiveNodeQuoted,
        Unanswered, NonePassedOver
  <2>2. CASE nodes # <<>>
    <3>1. AskNode(1) /\ call # "done"
      BY <1>2, <2>2 DEF OfficialFailed
    <3>2. 1 \in 1..Len(nodes)
      BY <2>2, <3>1, Underway
    <3> QED  BY <3>1, <3>2, AsksNode
  <2> QED  BY <2>1, <2>2
<1>3. CASE at > 0 /\ call # "done" /\ \E answer \in Answers : Rpc(answer)
  <2>1. PICK answer \in Answers : Rpc(answer)
    BY <1>3
  <2>2. call # "official"
    BY <2>1 DEF Rpc, FeeHistory, PriorityFee, BlockNumber, EthGasPriceGwei, BscBlockNumber,
                BscPriorityFee, Hints
  <2>3. nodes[at] \in Conducts
    BY <1>3, Underway
  <2>4. /\ answer \in Told
        /\ answer = Fails /\ call \notin Spare => nodes[at] # "up"
        /\ answer # Fails /\ call \in Modern => nodes[at] \notin Unfit
    BY <2>3, ToldByNodes
  <2> QED  BY <1>3, <2>1, <2>2, <2>4, Answered
<1>4. CASE TimeOut
  BY <1>4, Answered DEF TimeOut, Timed, Told, Unfit
<1>5. CASE UNCHANGED vars
  BY <1>5 DEF vars, IInv, TypeOK, FeesFloored, LiveNodeQuoted, Unanswered, NonePassedOver
<1> QED  BY <1>1, <1>2, <1>3, <1>4, <1>5 DEF Next

\* The invariant holds throughout a request.
LEMMA Throughout == Spec => []IInv
  BY Starts, Steps, PTL DEF Spec

-----------------------------------------------------------------------------
(* Quotes that cohere *)

\* An amount that fits is left alone by Wrap.
LEMMA WrapFits == \A n \in Int64 : Wrap(n) = n
<1> SUFFICES ASSUME NEW n \in Int64 PROVE Wrap(n) = n
  OBVIOUS
<1>1. n + Half \in Nat /\ n + Half < 2 * Half /\ 2 * Half \in Nat
  BY OracleAssumption DEF Int64
<1>2. \A a, w \in Nat : a < w => a % w = a
  OBVIOUS
<1>3. (n + Half) % (2 * Half) = n + Half
  BY <1>1, <1>2
<1> QED  BY <1>3, OracleAssumption DEF Wrap, Int64

\* The tip of a tier before the increment: that of the slow one.
Tip(g) == AtLeast(g.prio, oracle.min)

\* What a quote is computed from covers what the node said.
Covers(g) ==
    got.base >= 0 /\ got.price >= 0 => g.base >= 0 /\ got.price <= g.base + Tip(g)

\* Where the sums fit, a tier is the tip plus the increment, on top of the base.
LEMMA BuildFits ==
    ASSUME oracle.min \in Int64, oracle.min > 0,
           NEW base \in Int64, base >= 0, NEW prio \in Int64, NEW delta \in 0..10,
           base + AtLeast(prio, oracle.min) + 10 < Half
    PROVE  /\ build(base, prio, delta).maxPriorityFee = AtLeast(prio, oracle.min) + delta
           /\ build(base, prio, delta).maxFee = base + AtLeast(prio, oracle.min) + delta
<1> DEFINE t == AtLeast(prio, oracle.min)
<1>1. t \in Int64 /\ t >= oracle.min
  BY AtLeastType
<1> HIDE DEF t
<1>2. base + t + 10 < Half
  BY DEF t
<1>3. t + delta \in Int64 /\ base + (t + delta) \in Int64
  BY <1>1, <1>2, OracleAssumption DEF Int64
<1>4. Wrap(t + delta) = t + delta /\ Wrap(base + (t + delta)) = base + (t + delta)
  BY <1>3, WrapFits
<1>5. AtLeast(t + delta, oracle.min) = t + delta
  BY <1>1, OracleAssumption DEF AtLeast, Int64
<1>6. build(base, prio, delta) =
         [maxPriorityFee |-> t + delta, maxFee |-> base + (t + delta), gasPrice |-> base + (t + delta)]
  BY <1>4, <1>5 DEF build, t
<1> QED  BY <1>1, <1>6, OracleAssumption DEF t, Int64

\* The slow tier bids the tip, wherever the other sums wrap around.
LEMMA SlowTip ==
    ASSUME oracle.min \in Int64, NEW base, NEW prio \in Int64
    PROVE  build(base, prio, 0).maxPriorityFee = AtLeast(prio, oracle.min)
<1> DEFINE t == AtLeast(prio, oracle.min)
<1>1. t \in Int64 /\ t >= oracle.min
  BY AtLeastType
<1> HIDE DEF t
<1>2. t + 0 = t /\ Wrap(t) = t
  BY <1>1, WrapFits, OracleAssumption DEF Int64
<1>3. AtLeast(t, oracle.min) = t
  BY <1>1, OracleAssumption DEF AtLeast, Int64
<1> QED  BY <1>2, <1>3 DEF build, t

\* A quote that is computed from what covers the node's words coheres.
LEMMA ComputedCoheres ==
    ASSUME IInv, Priced, NEW g \in Got, Covers(g), Respond(200, <<Computed(g)>>)
    PROVE  FeesCohere'
<1>1. /\ oracle \in [kind : Kinds, min : Int64, url : BOOLEAN]
      /\ oracle.min \in Int64 /\ oracle.min > 0
      /\ g.base \in Int64 /\ g.prio \in Int64
      /\ got.base \in Int64 /\ got.price \in Int64
  BY DEF IInv, TypeOK, Priced, Got
<1>2. PICK fast, standard \in 0..10 :
         standard <= fast /\ Computed(g) = Built(g, fast, standard)
  <2>1. Computed(g) = Built(g, 10, 5) \/ Computed(g) = Built(g, 5, 2)
    BY <1>1, ComputedIsBuilt
  <2> QED  BY <2>1
<1> DEFINE q == Built(g, fast, standard)
<1>3. /\ q.base = g.base
      /\ q.slow = build(g.base, g.prio, 0)
      /\ q.standard = build(g.base, g.prio, standard)
      /\ q.fast = build(g.base, g.prio, fast)
  BY DEF Built
<1>4. q.slow.maxPriorityFee = Tip(g) /\ Tip(g) \in Int64
  BY <1>1, <1>3, SlowTip, AtLeastType DEF Tip
<1> HIDE DEF q
<1>5. quote' = <<q>> /\ got' = got
  BY <1>2 DEF Respond, q
<1>6. ASSUME got.base >= 0, got.price >= 0, q.base + q.slow.maxPriorityFee + 10 < Half
      PROVE  /\ q.base >= 0
             /\ q.slow.maxPriorityFee <= q.standard.maxPriorityFee
             /\ q.standard.maxPriorityFee <= q.fast.maxPriorityFee
             /\ \A tier \in Tiers(q) : /\ tier.maxFee = q.base + tier.maxPriorityFee
                                      /\ tier.maxFee >= got.price
  <2>1. g.base >= 0 /\ got.price <= g.base + Tip(g) /\ g.base + Tip(g) + 10 < Half
    BY <1>3, <1>4, <1>6 DEF Covers
  <2>2. \A d \in 0..10 : /\ build(g.base, g.prio, d).maxPriorityFee = Tip(g) + d
                         /\ build(g.base, g.prio, d).maxFee = g.base + Tip(g) + d
    BY <1>1, <2>1, BuildFits DEF Tip
  <2>3. /\ q.slow.maxPriorityFee = Tip(g) + 0 /\ q.slow.maxFee = g.base + Tip(g) + 0
        /\ q.standard.maxPriorityFee = Tip(g) + standard
        /\ q.standard.maxFee = g.base + Tip(g) + standard
        /\ q.fast.maxPriorityFee = Tip(g) + fast /\ q.fast.maxFee = g.base + Tip(g) + fast
    BY <1>3, <2>2, OracleAssumption
  <2>4. g.base \in Int /\ Tip(g) \in Int /\ got.price \in Int
    BY <1>1, <1>4, OracleAssumption DEF Int64
  <2>5. \A tier \in Tiers(q) : tier = q.slow \/ tier = q.standard \/ tier = q.fast
    BY DEF Tiers
  <2>6. \A tier \in Tiers(q) : /\ tier.maxFee = g.base + tier.maxPriorityFee
                               /\ tier.maxFee >= got.price
    <3> USE <2>1, <2>3, <2>4, <1>2
    <3>1. q.slow.maxFee = g.base + q.slow.maxPriorityFee /\ q.slow.maxFee >= got.price
      OBVIOUS
    <3>2. q.standard.maxFee = g.base + q.standard.maxPriorityFee /\ q.standard.maxFee >= got.price
      OBVIOUS
    <3>3. q.fast.maxFee = g.base + q.fast.maxPriorityFee /\ q.fast.maxFee >= got.price
      OBVIOUS
    <3> QED  BY <2>5, <3>1, <3>2, <3>3
  <2> QED  BY <1>2, <1>3, <2>1, <2>3, <2>4, <2>6
<1> QED  BY <1>5, <1>6 DEF FeesCohere, Tiers

CInv == Priced /\ FeesCohere

LEMMA StartsCoherent == Init => CInv
<1>1. ASSUME NEW kind \in Kinds, NEW min \in Int64
      PROVE  NewOracleForNetwork(kind, min) > 0
  BY MinType
<1>2. Minima \subseteq Int64
  BY OracleAssumption DEF Int64
<1> QED  BY <1>1, <1>2 DEF Init, CInv, Priced, FeesCohere, Nothing

\* A step that computes no quote.
LEMMA NoQuoteYet ==
    ASSUME oracle' = oracle, quote' = <<>>, Priced,
           got'.price # 0 => oracle.kind = "bsc" /\ call' \in {"bscBlock", "bscPriority", "done"}
    PROVE  CInv'
  BY DEF CInv, Priced, FeesCohere

LEMMA AsksCoherent ==
    ASSUME IInv, Priced, call # "done", NEW next, NEW g, Ask(next, g),
           g.price # 0 => oracle.kind = "bsc" /\ next \in {"bscBlock", "bscPriority"}
    PROVE  CInv'
  BY NoQuoteYet, Underway DEF Ask

LEMMA NextNodeCoherent ==
    ASSUME IInv, Priced, call # "done", NextNode \/ (\E n \in Nat : AskNode(n))
    PROVE  CInv'
  BY NoQuoteYet, Underway DEF NextNode, Respond, AskNode, Nothing, Priced

LEMMA FinishesCoherent ==
    ASSUME IInv, Priced, call # "done", NEW g \in Got, Finish(g), Covers(g),
           g.price # 0 => oracle.kind = "bsc"
    PROVE  CInv'
<1>1. CASE oracle.kind \in {"arbitrum", "optimism"}
  BY <1>1, AsksCoherent DEF Finish
<1>2. CASE oracle.kind \notin {"arbitrum", "optimism"}
  <2>1. Respond(200, <<Computed(g)>>)
    BY <1>2 DEF Finish
  <2>2. FeesCohere'
    BY <2>1, ComputedCoheres
  <2>3. Priced'
    BY <2>1 DEF Respond, Priced
  <2> QED  BY <2>2, <2>3 DEF CInv
<1> QED  BY <1>1, <1>2

\* What the oracle of BSC estimates covers the gas price of the node: the base
\* fee is the price without the tip, but for what the tip exceeds.
LEMMA EstimateCovers ==
    ASSUME IInv, Priced, NEW prio \in Int64, prio >= oracle.min
    PROVE  Estimate(got.price, prio) \in Got /\ Covers(Estimate(got.price, prio))
<1>1. got \in Got /\ got.price \in Int64 /\ oracle.min \in Int64 /\ oracle.min > 0
  BY DEF IInv, TypeOK, Got, Priced
<1> DEFINE base == AtLeast(Wrap(got.price - prio), 0)
<1>2. got.price - prio \in Int
  BY <1>1, OracleAssumption DEF Int64
<1>3. Wrap(got.price - prio) \in Int64
  BY <1>2, WrapType
<1>4. base \in Int64 /\ base >= 0 /\ base >= Wrap(got.price - prio)
  BY <1>3, OracleAssumption DEF AtLeast, Int64
<1> HIDE DEF base
<1>5. Estimate(got.price, prio) = [got EXCEPT !.prio = prio, !.base = base]
  BY DEF Estimate, base
<1>6. ASSUME got.price >= 0 PROVE got.price <= base + prio
  <2>1. got.price - prio \in Int64
    BY <1>1, <1>6, OracleAssumption DEF Int64
  <2>2. base >= got.price - prio
    BY <1>4, <2>1, WrapFits
  <2> QED  BY <1>1, <1>4, <2>2, OracleAssumption DEF Int64
<1>7. AtLeast(prio, oracle.min) = prio
  BY <1>1, OracleAssumption DEF AtLeast, Int64
<1> DEFINE g == Estimate(got.price, prio)
<1>8. g \in Got /\ g.base = base /\ g.prio = prio
  BY <1>1, <1>4, <1>5 DEF Got
<1> HIDE DEF g
<1>9. Covers(g)
  BY <1>4, <1>6, <1>7, <1>8 DEF Covers, Tip
<1> QED  BY <1>8, <1>9 DEF g

\* What was read call by call covers the price of 0 that it goes with.
LEMMA ReadCovers ==
    ASSUME IInv, Priced, got.price = 0, NEW g \in Got, g.base = got.base
    PROVE  Covers(g)
<1>1. oracle.min \in Int64 /\ oracle.min > 0 /\ g.base \in Int64 /\ g.prio \in Int64
  BY DEF IInv, TypeOK, Got, Priced
<1>2. Tip(g) \in Int64 /\ Tip(g) >= oracle.min
  BY <1>1, AtLeastType DEF Tip
<1> QED  BY <1>1, <1>2, OracleAssumption DEF Covers, Int64

LEMMA AnsweredCoherent ==
    ASSUME IInv, Priced, call \notin {"official", "done"}, NEW answer \in Told, Rpc(answer)
    PROVE  CInv'
<1> DEFINE gwei == IF answer = Fails THEN 0 ELSE hexWeiToGwei(answer[1])
           block == IF answer = Fails THEN 0 ELSE hexToInt64(answer[1])
<1>1. gwei \in Int64 /\ block \in Int64
  <2>1. answer # Fails => answer[1] \in Int
    BY DEF Told
  <2> QED  BY <2>1, ReadType, OracleAssumption DEF Int64
<1> HIDE DEF gwei, block
<1>2. got \in Got /\ oracle.min \in Int64
  BY Underway
<1>3. Nothing.price = 0
  BY DEF Nothing
<1>4. ComputeFailed => CInv'
  BY <1>3, AsksCoherent, NextNodeCoherent DEF ComputeFailed
<1>5. CASE FeeHistory(answer)
  <2>1. [got EXCEPT !.base = hexWeiToGwei(answer[1])].price = 0
    BY <1>2, <1>5 DEF FeeHistory, Priced, Got
  <2> QED  BY <1>4, <1>5, <2>1, AsksCoherent DEF FeeHistory
<1>6. CASE PriorityFee(answer)
  <2>1. [got EXCEPT !.prio = hexWeiToGwei(answer[1])].price = 0
    BY <1>2, <1>6 DEF PriorityFee, Priced, Got
  <2> QED  BY <1>4, <1>6, <2>1, AsksCoherent DEF PriorityFee
<1>7. CASE BlockNumber(answer)
  <2> DEFINE g == [got EXCEPT !.block = block]
  <2>1. got.price = 0 /\ g \in Got /\ g.base = got.base /\ g.price = 0
    BY <1>1, <1>2, <1>7 DEF BlockNumber, Priced, Got
  <2>2. Ask("gasPrice", Nothing) \/ Finish(g)
    BY <1>7 DEF BlockNumber, block
  <2> HIDE DEF g
  <2> QED  BY <1>3, <2>1, <2>2, ReadCovers, AsksCoherent, FinishesCoherent
<1>8. CASE EthGasPriceGwei(answer)
  <2>1. oracle.kind = "bsc"
    BY <1>8 DEF EthGasPriceGwei, IInv, NonePassedOver
  <2> QED  BY <1>8, <2>1, AsksCoherent DEF EthGasPriceGwei
<1>9. CASE BscBlockNumber(answer)
  <2>1. oracle.kind = "bsc"
    BY <1>9 DEF BscBlockNumber, IInv, NonePassedOver
  <2> QED  BY <1>9, <2>1, AsksCoherent DEF BscBlockNumber
<1>10. CASE BscPriorityFee(answer)
  <2> DEFINE prio == AtLeast(gwei, oracle.min)
             g == Estimate(got.price, prio)
  <2>1. prio \in Int64 /\ prio >= oracle.min
    BY <1>1, <1>2, AtLeastType
  <2> HIDE DEF prio
  <2>2. Finish(g) /\ oracle.kind = "bsc"
    BY <1>10 DEF BscPriorityFee, gwei, prio, IInv, NonePassedOver
  <2>3. g \in Got /\ Covers(g)
    BY <2>1, EstimateCovers
  <2> HIDE DEF g
  <2> QED  BY <2>2, <2>3, FinishesCoherent
<1>11. CASE Hints(answer)
  <2>1. Respond(200, <<Computed(got)>>) /\ got.price = 0
    BY <1>11 DEF Hints, Priced
  <2>2. FeesCohere'
    BY <1>2, <2>1, ReadCovers, ComputedCoheres
  <2>3. Priced'
    BY <2>1 DEF Respond, Priced
  <2> QED  BY <2>2, <2>3 DEF CInv
<1> QED  BY <1>5, <1>6, <1>7, <1>8, <1>9, <1>10, <1>11 DEF Rpc

LEMMA StepsCoherent == IInv /\ CInv /\ [Next]_vars => CInv'
<1> SUFFICES ASSUME IInv, CInv, [Next]_vars PROVE CInv'
  OBVIOUS
<1>1. Priced
  BY DEF CInv
<1>2. CASE FetchFromOfficial
  BY <1>1, <1>2, NoQuoteYet DEF FetchFromOfficial, Respond, Priced
<1>3. CASE OfficialFailed
  BY <1>1, <1>3, NoQuoteYet, NextNodeCoherent DEF OfficialFailed, Respond, Priced
<1>4. CASE at > 0 /\ call # "done" /\ \E answer \in Answers : Rpc(answer)
  <2>1. PICK answer \in Answers : Rpc(answer)
    BY <1>4
  <2>2. call # "official"
    BY <2>1 DEF Rpc, FeeHistory, PriorityFee, BlockNumber, EthGasPriceGwei, BscBlockNumber,
                BscPriorityFee, Hints
  <2>3. answer \in Told
    BY <1>4, Underway, ToldByNodes
  <2> QED  BY <1>1, <1>4, <2>1, <2>2, <2>3, AnsweredCoherent
<1>5. CASE TimeOut
  BY <1>1, <1>5, AnsweredCoherent DEF TimeOut, Timed, Told
<1>6. CASE UNCHANGED vars
  BY <1>6 DEF vars, CInv, Priced, FeesCohere
<1> QED  BY <1>2, <1>3, <1>4, <1>5, <1>6 DEF Next

LEMMA ThroughoutCoherent == Spec => []CInv
<1>1. Init => IInv /\ CInv
  BY Starts, StartsCoherent
<1>2. IInv /\ CInv /\ [Next]_vars => (IInv /\ CInv)'
  BY Steps, StepsCoherent
<1> QED  BY <1>1, <1>2, PTL DEF Spec

-----------------------------------------------------------------------------
(* The theorems *)

\* What a node's amount becomes, and every sum made of it, is an int64, and
\* the node that is asked is one that Best has (ComputeFromRPC and
\* the loops of gas.go).
THEOREM TypeCorrect == Spec => []TypeOK
  BY Throughout, PTL DEF IInv

\* No tier of any quote bids less than the configured minimum, though the sum
\* that the tip is made of may wrap around: build clamps it again.
THEOREM Floored == Spec => []FeesFloored
  BY Throughout, PTL DEF IInv

\* A request fails only when no node answers what a quote needs, a quote comes
\* from no node behind one that does and, unless the oracle is that of BSC, from
\* none that is unfit: wherever a node fails the loops over Best go on to the
\* end, and of the errors of calls just those that a quote can do without are
\* ignored (gas.go, ComputeFromRPC).
THEOREM LiveQuoted == Spec => []LiveNodeQuoted
  BY Throughout, PTL DEF IInv

\* Where nothing wraps around, the tiers of any quote are in order, their caps
\* are base fee and tip, and none is below the gas price that the fallback of
\* BSC was told, for amounts of any width (build, ComputeFromRPC).
THEOREM Coherent == Spec => []FeesCohere
  BY ThroughoutCoherent, PTL DEF CInv

=============================================================================
