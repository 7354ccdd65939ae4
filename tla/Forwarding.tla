------------------------------ MODULE Forwarding -----------------------------
(***************************************************************************)
(* The request path: Proxy.Serve and the routed handlers of pkg/api/       *)
(* public.go, which all send one client request to upstream after upstream *)
(* until one answer will do.                                               *)
(*                                                                         *)
(*   Serve                      any /{network} route.  Candidates in the   *)
(*                              order of Best; the throttler is not asked. *)
(*   tryForwardJSONRPCToNodes   BTCBalance and NFTGetNFTMetadata: one      *)
(*                              round over the upstreams that are not      *)
(*                              throttled, by priority.                    *)
(*   NFTGetAllNFTs              such a round for supportsInterface, one    *)
(*                              for balanceOf, and one for each token.     *)
(*                                                                         *)
(* A request works on the list that Registry.Best returned when it         *)
(* arrived.  A step is one access to the throttler, one HTTP request that  *)
(* leaves or one answer that comes back, with what is done about it.       *)
(*                                                                         *)
(* Bounds: each request of one of the Batches arrives at most once, the    *)
(* others never; the clock stops at MaxNow; an owner holds at most         *)
(* MaxTotal tokens.                                                        *)
(***************************************************************************)
EXTENDS Throttler

CONSTANTS
    Requests,   \* the requests that clients may make
    Batches,    \* those of them that are made in one behaviour
    Lists,      \* the lists that Registry.Best may return
    Replies,    \* what a client.Do may return
    Host,       \* the service a URL belongs to
    Width,      \* 2^64: unsigned integers wrap around
    MaxCap,     \* the longest list of tokens that make() can be asked for
    MaxTotal,   \* bound on the tokens of an owner
    MaxNow      \* bound on the clock

Hosts == {"tatum", "sochain", "blockbook", "dogechain", "blockstream", "trongrid", "other"}

\* What follows /{network}: nothing, a path of the service's own interface
\* (rest/, api/, tx/ and the like), balance/ and an address, fees, another
\* name that the adapter knows (slot, blocknumber and the like), nft/ and a
\* contract, or anything else.
Tails == {"", "rest", "balance", "fees", "known", "nft", "else"}

\* What net/http has decoded of the path need not be fit for a URL again: a
\* stray tail has a % that begins no escape, or a control character.
\* A body is long if it is longer than LogBodyLimit, in a place where a note
\* written into it breaks its JSON.  The body of a POST for sol is a call.
Requested ==
    [id : Nat, op : {"Serve"}, chain : {"btc", "doge", "evm", "ltc", "sol", "trx", "other"},
     method : {"GET", "POST"}, tail : Tails, stray : BOOLEAN, body : {"short", "long"}]
    \cup [id : Nat, op : {"tryForwardJSONRPCToNodes"}]
    \cup [id : Nat, op : {"NFTGetAllNFTs"}, limit : Nat, offset : Nat]

\* An error of the HTTP client (a timeout is one), or a status with the hints
\* of a rate limit it carries and what its body holds.
Hints  == {"Retry-After", "X-RateLimit-Remaining: 0", "message"}
Failure  == [err : {"error"}]
Answered == [status : 100..599, hints : SUBSET Hints, body : {"result", "long", "other", "empty"}]

ASSUME ForwardingAssumption ==
    /\ Requests \subseteq Requested
    /\ Batches \subseteq SUBSET Requests
    /\ Lists \subseteq Seq(Node)
    /\ Replies \subseteq Failure \cup Answered
    /\ Host \in [Urls -> Hosts]
    /\ Width \in Nat \ {0}
    /\ MaxCap \in Nat
    /\ MaxTotal \in Nat
    /\ MaxNow \in Nat

VARIABLE req    \* the handler of each request

vars == <<now, until, backoffs, req>>

\* A body that went through LogSafe is intact or has the note in it; an
\* adapter may make one of its own.
Bodies == {"none", "intact", "altered", "own"}

\* What an adapter makes of the path and the method.
Shapes == {"none", "asis", "get", "getblockcount", "core", "tipheight", "fees", "balance",
           "getslot", "ownerof", "known"} \cup Hosts

\* A handler that panics is ended by net/http, which closes the connection: the
\* client's answer is "broken".
Answers == {"none", "passed", "200", "502", "503", "broken"}

\* Of a round: the candidates gone through, those to try, those left out as
\* throttled and those that failed, all as positions in nodes.
Request == [pc : {"idle", "group", "send", "wait", "done"},
            nodes : Seq(Node), shape : Shapes, sent : Bodies, back : Bodies,
            seen : Nat, todo : SUBSET Nat, skipped : SUBSET Nat, failed : SUBSET Nat,
            round : Nat, max : Nat, items : Nat,
            answer : Answers]

Idle == [pc |-> "idle", nodes |-> <<>>, shape |-> "none", sent |-> "none", back |-> "none",
         seen |-> 0, todo |-> {}, skipped |-> {}, failed |-> {},
         round |-> 1, max |-> 0, items |-> 0, answer |-> "none"]

TypeOK ==
    /\ ThrottlerTypeOK
    /\ req \in [Requests -> Request]

Init ==
    /\ now = 0
    /\ NewThrottler
    /\ \E made \in Batches :
          req = [o \in Requests |-> IF o \in made THEN Idle ELSE [Idle EXCEPT !.pc = "done"]]

-----------------------------------------------------------------------------
(* Answers of an upstream *)

IsError(reply) == "err" \in DOMAIN reply

\* append(b[:LogBodyLimit], note...) writes into the array of b.
LogSafe(body) == IF body = "long" THEN "altered" ELSE "intact"

\* Serve logs a body before it is parsed for a message, which is lost if the
\* note is in it.
HintsSeen(o, reply) ==
    IF o.op = "Serve" /\ LogSafe(reply.body) = "altered" THEN reply.hints \ {"message"}
                                                         ELSE reply.hints

isRateLimited(o, reply) == reply.status = 429 \/ HintsSeen(o, reply) # {}

\* Serve passes on what is not the upstream's failure, the others a 2xx.
Passes(o, reply) ==
    /\ ~IsError(reply)
    /\ ~isRateLimited(o, reply)
    /\ IF o.op = "Serve" THEN reply.status < 500 ELSE reply.status \div 100 = 2

Limits(o, reply) == o.op # "Serve" /\ ~IsError(reply) /\ isRateLimited(o, reply)

-----------------------------------------------------------------------------
(* What the adapters make of a client's request *)

\* The path and method, the services that it may be sent to, and the body.
Made(shape, hosts) == [shape |-> shape, hosts |-> hosts, body |-> "own"]
AsIs(hosts, body)  == [shape |-> "asis", hosts |-> hosts, body |-> body]

adaptBTC(tail, body) ==
    CASE tail = ""        -> Made("tipheight", {"blockstream", "tatum"})
      [] tail = "rest"    -> AsIs({"blockstream", "tatum"}, body)
      [] tail = "fees"    -> Made("fees", {"tatum"})
      [] tail = "balance" -> Made("balance", {"tatum"})
      [] OTHER            -> AsIs(Hosts, body)

adaptTRX(tail, body) ==
    IF tail = "balance" THEN Made("balance", {"trongrid"}) ELSE AsIs(Hosts, body)

\* A POST whose body is no JSON becomes a getSlot.
adaptSOL(method, tail, body) ==
    CASE method = "GET" /\ tail \in {"", "known"} -> Made("getslot", Hosts)
      [] method = "GET" /\ tail = "balance" -> Made("balance", Hosts)
      [] method = "GET" /\ tail \notin {"", "known", "balance"} -> Made("get", Hosts)
      [] method = "POST" /\ body = "altered" -> Made("getslot", Hosts)
      [] OTHER -> AsIs(Hosts, body)

adaptEVM(method, tail, body) ==
    CASE tail = "nft" -> Made("ownerof", Hosts)
      [] method = "GET" /\ tail = "balance" -> Made("balance", Hosts)
      [] method = "GET" /\ tail = "known"   -> Made("known", Hosts)
      [] OTHER -> AsIs(Hosts, body)

adaptLTC(host, tail, body) ==
    CASE host = "tatum" -> Made("getblockcount", Hosts)
      [] host # "tatum" /\ tail = "" ->
            Made(IF host \in {"sochain", "blockbook"} THEN host ELSE "core", Hosts)
      [] OTHER -> AsIs(Hosts, body)

adaptDOGE(host, tail, body) ==
    CASE host = "tatum" -> Made("getblockcount", Hosts)
      [] host # "tatum" /\ tail = "" ->
            Made(IF host \in {"dogechain", "sochain"} THEN host ELSE "core", Hosts)
      [] OTHER -> AsIs(Hosts, body)

\* The request is logged before it is adapted.
Adapt(o, url) ==
    LET body == LogSafe(o.body)
    IN  CASE o.chain = "btc"  -> adaptBTC(o.tail, body)
          [] o.chain = "trx"  -> adaptTRX(o.tail, body)
          [] o.chain = "sol"  -> adaptSOL(o.method, o.tail, body)
          [] o.chain = "doge" -> adaptDOGE(Host[url], o.tail, body)
          [] o.chain = "ltc"  -> adaptLTC(Host[url], o.tail, body)
          [] o.chain = "evm"  -> adaptEVM(o.method, o.tail, body)
          [] o.chain = "other" -> AsIs(Hosts, body)

-----------------------------------------------------------------------------
(* Arrival *)

\* AllowedHostSubstr
Allowed(list, hosts) == Kept(list, {i \in DOMAIN list : Host[list[i].url] \in hosts})

Done(o, answer) ==
    [Idle EXCEPT !.pc = "done", !.answer = answer, !.max = req[o].max, !.items = req[o].items]

Handle(o, r) == req' = [req EXCEPT ![o] = r]

\* The request is adapted once, for the first candidate before the filter.
Serve(o, list) ==
    LET ad == Adapt(o, list[1].url)
        nodes == Allowed(list, ad.hosts)
    IN  IF nodes = <<>>
        THEN Done(o, "503")
        ELSE [Idle EXCEPT !.pc = "send", !.nodes = nodes, !.todo = DOMAIN nodes,
                          !.shape = ad.shape, !.sent = ad.body]

NextRound(r) ==
    [r EXCEPT !.pc = "group", !.seen = 0, !.todo = {}, !.skipped = {}, !.failed = {}]

Arrive(o) ==
    /\ req[o].pc = "idle"
    /\ \E list \in Lists :
          Handle(o, CASE list = <<>> -> Done(o, "503")
                      [] list # <<>> /\ o.op = "Serve" -> Serve(o, list)
                      [] OTHER -> NextRound([Idle EXCEPT !.nodes = list]))
    /\ UNCHANGED <<now, until, backoffs>>

-----------------------------------------------------------------------------
(* A round *)

\* Mutant of Group: the last candidate is never looked at.
GroupButLast(o) ==
    LET r == req[o]
        i == r.seen + 1
    IN  /\ r.pc = "group"
        /\ Handle(o, [r EXCEPT !.seen = i,
                               !.todo = IF IsThrottled(r.nodes[i].url) THEN @ ELSE @ \cup {i},
                               !.skipped = IF IsThrottled(r.nodes[i].url) THEN @ \cup {i} ELSE @,
                               !.pc = IF i + 1 >= Len(r.nodes) THEN "send" ELSE @])
        /\ UNCHANGED <<now, until, backoffs>>

\* The next candidate is grouped by priority, or left out.
Group(o) ==
    LET r == req[o]
        i == r.seen + 1
    IN  /\ r.pc = "group"
        /\ Handle(o, [r EXCEPT !.seen = i,
                               !.todo = IF IsThrottled(r.nodes[i].url) THEN @ ELSE @ \cup {i},
                               !.skipped = IF IsThrottled(r.nodes[i].url) THEN @ \cup {i} ELSE @,
                               !.pc = IF i = Len(r.nodes) THEN "send" ELSE @])
        /\ UNCHANGED <<now, until, backoffs>>

\* Whether position i of the candidates is tried before position j.
Before(o, i, j) ==
    LET n == req[o].nodes
    IN  IF o.op = "Serve" THEN i < j
        ELSE n[i].prio < n[j].prio \/ (n[i].prio = n[j].prio /\ i < j)

\* Mutant of First: the candidates are tried in the order of the list.
FirstListed(o) == CHOOSE i \in req[o].todo : \A j \in req[o].todo : i <= j

First(o) == CHOOSE i \in req[o].todo : \A j \in req[o].todo : i = j \/ Before(o, i, j)

Tried(o) == req[o].nodes[First(o)]

\* Whether the path that goes upstream has the client's text in it.
HasTail(o) ==
    \/ req[o].shape \in {"asis", "get"}
    \/ req[o].shape = "balance" /\ o.chain \in {"btc", "trx"}

\* http.NewRequest refuses a URL that does not parse.  The URL of a node in
\* Best does, as a check has made a request of it.
Unparsable(o) == o.op = "Serve" /\ o.stray /\ HasTail(o)

\* The request is sent to the first candidate left.
Send(o) ==
    /\ req[o].pc = "send"
    /\ req[o].todo # {}
    /\ ~Unparsable(o)
    /\ Handle(o, [req[o] EXCEPT !.pc = "wait"])
    /\ UNCHANGED <<now, until, backoffs>>

\* The error of NewRequest is dropped, and the handler panics at req.Header.
SendPanics(o) ==
    /\ req[o].pc = "send"
    /\ req[o].todo # {}
    /\ Unparsable(o)
    /\ Handle(o, Done(o, "broken"))
    /\ UNCHANGED <<now, until, backoffs>>

\* The candidate failed, the next one is tried.
GoOn(o) ==
    Handle(o, [req[o] EXCEPT !.pc = "send", !.todo = @ \ {First(o)}, !.failed = @ \cup {First(o)}])


Refused(o) ==
    /\ req[o].pc = "wait"
    /\ \E reply \in Replies : ~Passes(o, reply) /\ ~Limits(o, reply)
    /\ GoOn(o)
    /\ UNCHANGED <<now, until, backoffs>>

Limited(o) ==
    /\ req[o].pc = "wait"
    /\ \E reply \in Replies : Limits(o, reply)
    /\ GoOn(o)
    /\ Mark429(Tried(o).url)
    /\ UNCHANGED now

-----------------------------------------------------------------------------
(* The end of a round *)

\* Mutant of TokenCount: the difference does not wrap around.
TokenCountSigned(o, total) == IF o.limit < total - o.offset THEN o.limit ELSE total - o.offset

\* minUint(limit, total-offset), unsigned
TokenCount(o, total) ==
    LET left == (total - o.offset) % Width
    IN  IF o.limit < left THEN o.limit ELSE left

\* Mutant of Exhausted: a token that no candidate answers ends the listing.
ExhaustedEnds(o) ==
    /\ req[o].pc = "send"
    /\ req[o].todo = {}
    /\ Handle(o, IF o.op = "NFTGetAllNFTs" /\ req[o].round > 2
                 THEN [Idle EXCEPT !.pc = "done", !.answer = "200", !.round = req[o].round,
                                   !.max = req[o].max, !.items = req[o].items]
                 ELSE Done(o, "502"))
    /\ UNCHANGED <<now, until, backoffs>>

\* The loop over the tokens goes on or ends; rounds 1 and 2 come before it.
AfterToken(o, r) ==
    IF r.round - 2 < r.max THEN NextRound([r EXCEPT !.round = @ + 1])
    ELSE [Idle EXCEPT !.pc = "done", !.answer = "200", !.round = r.round,
                      !.max = r.max, !.items = r.items]

\* No candidate is left.
Exhausted(o) ==
    /\ req[o].pc = "send"
    /\ req[o].todo = {}
    /\ Handle(o, IF o.op = "NFTGetAllNFTs" /\ req[o].round > 2
                 THEN AfterToken(o, req[o])
                 ELSE Done(o, "502"))
    /\ UNCHANGED <<now, until, backoffs>>

\* Serve logs the answer before it writes it, the others after.
Passed(o) ==
    /\ o.op # "NFTGetAllNFTs"
    /\ req[o].pc = "wait"
    /\ \E reply \in Replies :
          /\ Passes(o, reply)
          /\ Handle(o, [Done(o, "passed") EXCEPT
                          !.back = IF o.op = "Serve" THEN LogSafe(reply.body) ELSE "intact"])
    /\ IF o.op = "Serve" THEN UNCHANGED <<until, backoffs>> ELSE Reset(Tried(o).url)
    /\ UNCHANGED now

\* forwardFirst2xx: the contract may be asked for the balance.
SupportPassed(o) ==
    /\ req[o].round = 1
    /\ Handle(o, NextRound([req[o] EXCEPT !.round = 2]))

\* callFirst2xx: the number of tokens to list follows from the balance; a
\* body without a result counts as 0.  make() panics if it is out of range.
BalancePassed(o, reply) ==
    /\ req[o].round = 2
    /\ \E total \in IF reply.body = "result" THEN 0..MaxTotal ELSE {0} :
          LET count == TokenCount(o, total)
          IN  Handle(o, CASE reply.body = "empty" -> Done(o, "502")
                          [] reply.body # "empty" /\ count > MaxCap -> Done(o, "broken")
                          [] OTHER -> AfterToken(o, [req[o] EXCEPT !.max = count]))

\* callFirst2xx: one token more, if the body has it.
TokenPassed(o, reply) ==
    /\ req[o].round > 2
    /\ Handle(o, AfterToken(o, [req[o] EXCEPT !.items = IF reply.body = "result" THEN @ + 1 ELSE @]))

RoundPassed(o) ==
    /\ o.op = "NFTGetAllNFTs"
    /\ req[o].pc = "wait"
    /\ \E reply \in Replies :
          /\ Passes(o, reply)
          /\ SupportPassed(o) \/ BalancePassed(o, reply) \/ TokenPassed(o, reply)
    /\ Reset(Tried(o).url)
    /\ UNCHANGED now

Step(o) ==
    \/ Group(o) \/ Send(o) \/ SendPanics(o) \/ Refused(o) \/ Limited(o)
    \/ Exhausted(o) \/ Passed(o) \/ RoundPassed(o)

Tick ==
    /\ now < MaxNow
    /\ now' = now + 1
    /\ UNCHANGED <<until, backoffs, req>>

Next ==
    \/ \E o \in Requests : Arrive(o) \/ Step(o)
    \/ Tick

Spec == Init /\ [][Next]_vars

\* Every upstream request ends, by the timeout of its client at the latest,
\* and handlers run; clients and the clock are free.
Fairness == \A o \in Requests : WF_vars(Step(o))

FairSpec == Spec /\ Fairness

-----------------------------------------------------------------------------
(* Properties *)

\* Failover in order: an upstream is tried only after each one that comes
\* before it failed in this round or was throttled when the round began, by
\* priority in the public handlers even if Best is not sorted (POST of a node
\* appends to it).
PrimaryFirst ==
    \A o \in Requests : req[o].pc = "wait" =>
       \A j \in DOMAIN req[o].nodes : Before(o, j, First(o)) => j \in req[o].failed \cup req[o].skipped

\* A round is given up only when every candidate failed or was throttled when
\* it began.
GivesUpLate ==
    [][\A o \in Requests : Exhausted(o) =>
          req[o].failed \cup req[o].skipped = DOMAIN req[o].nodes]_vars


\* A listing is answered only after a round for each token that it counted,
\* one after the other: a token that no candidate will tell is left out, and
\* the tokens behind it are not.
ListingComplete ==
    \A o \in Requests :
       o.op = "NFTGetAllNFTs" /\ req[o].answer = "200" => /\ req[o].round - 2 = req[o].max
                                                         /\ req[o].items <= req[o].max

\* A request is forwarded, and its answer passed on, with the body it came
\* with.
BodyUnaltered ==
    \A o \in Requests :
       /\ req[o].sent # "altered"
       /\ req[o].back # "altered"
-----------------------------------------------------------------------------
(* Invariants the properties rest on; ForwardingProofs shows them           *)
(* inductive.                                                               *)

\* Of a round, every candidate is still to be tried, was left out or failed:
\* none is lost between two steps.
RoundOK(r) ==
    /\ r.pc = "group" => /\ r.seen < Len(r.nodes)
                         /\ r.todo \cup r.skipped = 1..r.seen
                         /\ r.failed = {}
    /\ r.pc \in {"send", "wait"} => /\ r.nodes # <<>>
                                    /\ r.todo \cup r.skipped \cup r.failed = DOMAIN r.nodes
    /\ r.pc = "wait" => r.todo # {}

RoundsOK == \A o \in Requests : RoundOK(req[o])

\* Of a listing, no more tokens than there were rounds for one, and no more
\* rounds than tokens were counted; all of them when it is answered.
CountOK(r) ==
    /\ r.pc \in {"group", "send", "wait"} =>
          IF r.round <= 2 THEN r.items = 0
                          ELSE r.items <= r.round - 3 /\ r.round - 2 <= r.max
    /\ r.answer = "200" => r.pc = "done" /\ r.round - 2 = r.max /\ r.items <= r.max

CountsOK == \A o \in Requests : CountOK(req[o])

\* A window is no longer than the backoff of its count.
WindowsOK ==
    \A url \in Urls : /\ until[url] = 0 <=> backoffs[url] = 0
                      /\ backoffs[url] > 0 => until[url] <= now + Backoff(backoffs[url])

=============================================================================
