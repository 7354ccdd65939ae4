----------------------------- MODULE HealthCheck -----------------------------
(***************************************************************************)
(* Checker.UpdateNetwork and the six per-chain checks of pkg/health: the   *)
(* nodes of a network are probed one after the other; a probe says whether *)
(* the node is alive and how long it took, and may mark the URL for        *)
(* removal; PickFastestPerPriority turns the results into a failover list. *)
(*                                                                         *)
(* A probe is one HTTP request.  What comes back is an error of the client *)
(* (by kind), or a status and, for evm, what the body decodes to.          *)
(***************************************************************************)
EXTENDS NodeLists

CONSTANTS
    Statuses,    \* HTTP status codes an upstream may answer
    Pings,       \* round-trip times, in ms
    NotProbed,   \* btc URLs that are neither Blockstream nor Tatum
    NamedTLS,    \* URLs whose text has "tls" in it
    MaxNodes     \* bound on the length of a node list

Protocols == {"evm", "btc", "trx", "ltc", "doge", "sol", "unknown"}

\* Kinds of error http.Client.Do returns; a TLS handshake that takes too long
\* is a "tls", a lookup that does is a "dns".
FatalErrors == {"dns", "refused", "scheme", "x509", "tls"}
OtherErrors == {"timeout", "reset"}

\* What the body of an eth_blockNumber answer decodes to: a result, something
\* without one (an error or an empty result), or nothing.
Bodies == {"result", "other", "garbage"}

Replies == [err : FatalErrors \cup OtherErrors] \cup [status : Statuses, body : Bodies]

Checked == [url : Urls, prio : Prios, alive : BOOLEAN, ping : Pings \cup {0}]

ASSUME HealthCheckAssumption == /\ Statuses \subseteq 100..599
                                /\ Pings \subseteq Nat
                                /\ NotProbed \subseteq Urls
                                /\ NamedTLS \subseteq Urls
                                /\ MaxNodes \in Nat

VARIABLES protocol, nodes,  \* the arguments of UpdateNetwork
          res,              \* results so far
          dropURLs          \* URLs marked during the call

vars == <<protocol, nodes, res, dropURLs>>

TypeOK ==
    /\ protocol \in Protocols
    /\ nodes \in Seq(Node)
    /\ res \in Seq(Checked)
    /\ dropURLs \subseteq Urls

Init ==
    /\ protocol \in Protocols
    /\ nodes \in UNION {[1..k -> Node] : k \in 0..MaxNodes}
    /\ res = <<>>
    /\ dropURLs = {}

-----------------------------------------------------------------------------

IsError(reply) == "err" \in DOMAIN reply

\* Mutant of isFatalHTTPStatus: the upper end is taken in.
isFatalUpTo500(code) == code \in 400..500 /\ code # 429

isFatalHTTPStatus(code) == code \in 400..499 /\ code # 429

\* The text of the error is searched, and the URL is part of it.
isFatalNetErr(url, err) == err \in FatalErrors \/ url \in NamedTLS

Success(reply) == ~IsError(reply) /\ reply.status \in 200..299

\* A URL is marked for an error, or for a status that is not a success.
Fatal(url, reply) ==
    \/ IsError(reply) /\ isFatalNetErr(url, reply.err)
    \/ ~IsError(reply) /\ ~Success(reply) /\ isFatalHTTPStatus(reply.status)

\* A URL that is NeverAlive never answers with success: the client refuses
\* its scheme, or nothing is there.
Possible(url, reply) == url \in NeverAlive => ~Success(reply)

\* Mutant of checkEVM: it does not return after a bad status.
checkEVMGoesOn(url, reply) ==
    [alive |-> ~IsError(reply) /\ reply.body = "result", mark |-> Fatal(url, reply)]

\* checkEVM also wants a non-empty result in the body.
checkEVM(url, reply) ==
    [alive |-> Success(reply) /\ reply.body = "result", mark |-> Fatal(url, reply)]

\* The other checks differ in the request only and do not read the body.
checkStatus(url, reply) == [alive |-> Success(reply), mark |-> Fatal(url, reply)]

checkTRX(url, reply) == checkStatus(url, reply)
checkLTC(url, reply) == checkStatus(url, reply)
checkDOGE(url, reply) == checkStatus(url, reply)
checkSOL(url, reply) == checkStatus(url, reply)

\* checkBTC sends no request to a URL it does not recognise.
checkBTC(url, reply) == IF url \in NotProbed THEN [alive |-> FALSE, mark |-> FALSE]
                                             ELSE checkStatus(url, reply)

Check(url, reply) ==
    CASE protocol = "evm"     -> checkEVM(url, reply)
      [] protocol = "btc"     -> checkBTC(url, reply)
      [] protocol = "trx"     -> checkTRX(url, reply)
      [] protocol = "ltc"     -> checkLTC(url, reply)
      [] protocol = "doge"    -> checkDOGE(url, reply)
      [] protocol = "sol"     -> checkSOL(url, reply)
      [] OTHER                -> [alive |-> FALSE, mark |-> FALSE]

\* Mutant of CheckNext: the ping of a failed check is not reset to 0.
CheckNextUnset(reply, ping) ==
    LET n       == nodes[Len(res) + 1]
        verdict == Check(n.url, reply)
    IN  /\ Len(res) < Len(nodes)
        /\ Possible(n.url, reply)
        /\ res' = Append(res, [url |-> n.url, prio |-> n.prio, alive |-> verdict.alive,
                               ping |-> IF verdict.alive THEN ping ELSE -1])
        /\ dropURLs' = IF verdict.mark THEN dropURLs \cup {n.url} ELSE dropURLs
        /\ UNCHANGED <<protocol, nodes>>

\* One turn of UpdateNetwork's loop; the ping of a failed check is 0.
CheckNext(reply, ping) ==
    LET n       == nodes[Len(res) + 1]
        verdict == Check(n.url, reply)
    IN  /\ Len(res) < Len(nodes)
        /\ Possible(n.url, reply)
        /\ res' = Append(res, [url |-> n.url, prio |-> n.prio, alive |-> verdict.alive,
                               ping |-> IF verdict.alive THEN ping ELSE 0])
        /\ dropURLs' = IF verdict.mark THEN dropURLs \cup {n.url} ELSE dropURLs
        /\ UNCHANGED <<protocol, nodes>>

Done == Len(res) = Len(nodes)

Next ==
    \/ \E reply \in Replies, ping \in Pings : CheckNext(reply, ping)
    \/ Done /\ UNCHANGED vars

Spec == Init /\ [][Next]_vars

-----------------------------------------------------------------------------
(* PickFastestPerPriority, loop by loop. *)

\* Mutant of Fastest: the slowest.
Slowest(group) ==
    LET slowest[i \in 1..Len(group)] ==
            IF i = 1 \/ group[i].ping > slowest[i - 1].ping THEN group[i] ELSE slowest[i - 1]
    IN  slowest[Len(group)]

\* fastest := group[0]; a later node replaces it only if strictly faster.
Fastest(group) ==
    LET fastest[i \in 1..Len(group)] ==
            IF i = 1 \/ group[i].ping < fastest[i - 1].ping THEN group[i] ELSE fastest[i - 1]
    IN  fastest[Len(group)]

\* m[p], the nodes of one priority, taken from the positions I.
Group(checked, I, p) == Kept(checked, {i \in I : checked[i].prio = p})

\* The fastest node of each group, sorted by priority.
FastestOf(checked, I) ==
    LET P == {checked[i].prio : i \in I}
    IN  [k \in 1..Cardinality(P) |-> Fastest(Group(checked, I, Nth(P, k)))]

\* Mutant of PickFastestPerPriority: Alive is not looked at.
PickFastestOfAll(checked) == FastestOf(checked, DOMAIN checked)

AliveIn(checked) == {i \in DOMAIN checked : checked[i].alive}

PickFastestPerPriority(checked) == FastestOf(checked, AliveIn(checked))

Answer == PickFastestPerPriority(res)

AsNode(n) == [url |-> n.url, prio |-> n.prio]

-----------------------------------------------------------------------------
(* Properties *)

\* The failover list a check answers is the one its callers rely on: one
\* node per priority some alive node has, in order of priority, each alive
\* and none slower than another alive node of its priority.
AnswerIsFastest ==
    LET alive == {i \in DOMAIN res : res[i].alive}
    IN  /\ Ordered(Answer)
        /\ PriosOf(Elements(Answer)) = {res[i].prio : i \in alive}
        /\ \A k \in DOMAIN Answer :
              /\ Answer[k].alive
              /\ \A i \in alive : res[i].prio = Answer[k].prio => Answer[k].ping <= res[i].ping

\* The control plane's view of a check is right: whatever the upstreams
\* reply, answer and marks are among the Outcomes of the nodes.
ForeseenOutcome ==
    Done => [best  |-> [i \in DOMAIN Answer |-> AsNode(Answer[i])], fatal |-> dropURLs]
              \in Outcomes(nodes)

\* The answer and the marks of one call agree: the health loop first serves
\* the one and later removes the other, so a node listed once must not be in
\* both, whichever of the six checks ran.
ServedNotMarked ==
    \A n \in Elements(Answer) :
       Cardinality({i \in DOMAIN res : res[i].url = n.url}) = 1 => n.url \notin dropURLs

Asked(url) == protocol # "unknown" /\ ~(protocol = "btc" /\ url \in NotProbed)

Lasting(url, reply) ==
    IF IsError(reply) THEN reply.err \notin {"timeout", "reset"} \/ url \in NamedTLS
                      ELSE reply.status \in (400..428) \cup (430..499)

\* A mark takes an upstream out of every network for good, so it is for a
\* failure that will last: a 4xx but 429, or an error that names its cause.
\* One that may pass (429, 5xx, a redirect, a timeout, a broken connection, a
\* bad body) only costs the node its place in this answer; a URL with "tls" in
\* its text is the exception, whose every error counts as fatal.  Conversely a
\* lasting failure marks, unless no request was made.
LastingIsMarked ==
    [][Len(res) < Len(nodes) =>
          LET url == nodes[Len(res) + 1].url
          IN  \A reply \in Replies :
                 \/ url \in dropURLs' <=> url \in dropURLs \/ (Asked(url) /\ Lasting(url, reply))
                 \/ \A ping \in Pings : ~CheckNext(reply, ping)]_vars

-----------------------------------------------------------------------------
(* The invariant the properties rest on; HealthCheckProofs shows it         *)
(* inductive.                                                               *)

\* The results are those of the first nodes of the list, none of them alive
\* that cannot be, and a URL is marked only by a check that found it not alive.
ResultsOK ==
    /\ Len(res) <= Len(nodes)
    /\ \A i \in DOMAIN res : /\ AsNode(res[i]) = nodes[i]
                             /\ res[i].alive => nodes[i].url \notin NeverAlive
    /\ \A url \in dropURLs : \E i \in DOMAIN res : ~res[i].alive /\ res[i].url = url

=============================================================================
