---------------------------- MODULE MCForwarding -----------------------------
(***************************************************************************)
(* Instances of Forwarding for TLC.  Nodes a and c have priority 1, b has  *)
(* priority 2; a is of Blockstream and b a Tatum gateway, the two services *)
(* that the adapter for btc tells from others.                             *)
(***************************************************************************)
EXTENDS Forwarding, TLC

CONSTANTS a, b, c

N(u, p) == [url |-> u, prio |-> p]

MCPrios == {1, 2}

MCHost == (a :> "blockstream") @@ (b :> "tatum") @@ (c :> "other")

\* A list to which an administrator appended a node twice, so that it is not
\* sorted and has two nodes of one priority, and the list of a network that is
\* down.
AllLists == {<<N(b, 2), N(a, 1), N(c, 1)>>, <<>>}

Reply(status, hints, body) == [status |-> status, hints |-> hints, body |-> body]

AllReplies ==
    {[err |-> "error"], Reply(200, {}, "result"), Reply(200, {}, "empty"),
     Reply(200, {"Retry-After"}, "result"), Reply(404, {}, "other"),
     Reply(429, {}, "other"), Reply(503, {}, "other")}

BulkyReplies == AllReplies \cup {Reply(200, {}, "long"), Reply(200, {"message"}, "long")}

ServeOp(id, chain, method, tail, stray, body) ==
    [id |-> id, op |-> "Serve", chain |-> chain, method |-> method, tail |-> tail,
     stray |-> stray, body |-> body]
ForwardOp(id)             == [id |-> id, op |-> "tryForwardJSONRPCToNodes"]
ListOp(id, limit, offset) == [id |-> id, op |-> "NFTGetAllNFTs", limit |-> limit, offset |-> offset]

\* Listings of a few tokens and of more than fit a list, calls to forward, and
\* proxied requests (of which c is not allowed to see the path), one with a
\* stray % in it.
Mixed == {ListOp(1, 2, 1), ListOp(2, 3, 1), ForwardOp(3), ForwardOp(4),
          ServeOp(5, "btc", "GET", "rest", FALSE, "short"),
          ServeOp(6, "btc", "GET", "rest", TRUE, "short")}

\* A listing meets a call on the throttler's marks, and two calls meet; Serve
\* leaves the throttler alone, and so meets nobody.
Meetings == {{ListOp(1, 2, 1), ForwardOp(3)}, {ListOp(2, 3, 1), ForwardOp(3)},
             {ForwardOp(3), ForwardOp(4)},
             {ServeOp(5, "btc", "GET", "rest", FALSE, "short")},
             {ServeOp(6, "btc", "GET", "rest", TRUE, "short")}}

\* A request of each chain; one has a long body, and any may get one back.
Bulky == {ServeOp(1, "evm", "POST", "", FALSE, "long"), ServeOp(2, "sol", "GET", "balance", FALSE, "short"),
          ServeOp(3, "trx", "GET", "balance", FALSE, "short"), ServeOp(4, "doge", "GET", "", FALSE, "short"),
          ServeOp(5, "ltc", "GET", "rest", FALSE, "short")}

EachAlone == {{o} : o \in Bulky}
=============================================================================
