---------------------------- MODULE MCControlPlane ---------------------------
(***************************************************************************)
(* Instances of ControlPlane for TLC.  Node a is the configured primary of *)
(* network eth, b its fallback, c a newcomer; w is an upstream that never  *)
(* passes a health check (a ws:// URL).                                    *)
(***************************************************************************)
EXTENDS ControlPlane, TLC

CONSTANTS a, b, c, w, eth, bsc

N(u, p) == [url |-> u, prio |-> p]

MCPrios == {1, 2}

\* Configurations.  In TwoNets the networks share an upstream.
OneNet  == eth :> <<N(a, 1), N(b, 2)>>
Lone    == eth :> <<N(a, 1)>>
Socket  == eth :> <<N(a, 2), N(w, 1)>>
TwoNets == (eth :> <<N(a, 1), N(b, 2)>>) @@ (bsc :> <<N(a, 1), N(w, 2)>>)

Add(id, net, node)   == [id |-> id, op |-> "AddNode", net |-> net, node |-> node]
Delete(id, net, url) == [id |-> id, op |-> "DeleteNode", net |-> net, url |-> url]
Replace(id, net, ns) == [id |-> id, op |-> "AddNetwork", cfgs |-> <<[net |-> net, nodes |-> ns]>>]
Bulk(id, cfgs)       == [id |-> id, op |-> "AddNetworksBulk", cfgs |-> cfgs]
Cfgs(net, ns)        == [net |-> net, nodes |-> ns]

None == {}

\* Requests that reorder, empty and replace a network while it is checked.
AddDeleteReplace == {Add(1, eth, N(c, 1)), Delete(2, eth, a), Replace(3, eth, <<N(b, 2)>>)}

\* Nothing is deleted and the one node that is posted cannot be alive: no list
\* is emptied but by a drop, and a failover list can only come from a check.
\* The bulk request names a network that exists and one that does not.
Unshrinking ==
    {Add(1, eth, N(w, 1)), Replace(2, eth, <<N(c, 2), N(a, 1)>>),
     Bulk(3, <<Cfgs(eth, <<N(b, 2)>>), Cfgs(bsc, <<N(b, 1), N(a, 2)>>)>>)}

\* Requests of the runs that refute what the documentation says.
DeleteA == {Delete(1, eth, a)}

Advert(id, net, ns) == [id |-> id, adverts |-> <<Cfgs(net, ns)>>]

\* Deliveries.  The sender of the first was given c once more, by a POST that
\* appends.
LearnCC  == {Advert(1, eth, <<N(c, 2), N(c, 1)>>)}
LearnW   == {Advert(1, eth, <<N(w, 1)>>)}
=============================================================================
