---------------------------- MODULE RoutingTable -----------------------------
(***************************************************************************)
(* What the health loop and gossip promise the request path, without       *)
(* goroutines, snapshots or marks: a table of the nodes each network knows *)
(* and the failover list it serves.  Learning adds nodes, one per URL that *)
(* was unknown; publishing replaces a list by a selection of known nodes,  *)
(* none of them one that cannot be alive; forgetting takes a URL out of    *)
(* everything at once.  ControlPlane implements it as long as the admin    *)
(* API is not used.                                                        *)
(***************************************************************************)
EXTENDS NodeLists

CONSTANTS Nets, Config

VARIABLES known,    \* the nodes each network knows
          served    \* the failover list of each network

Init ==
    /\ known = [net \in Nets |-> IF net \in DOMAIN Config THEN Elements(Config[net]) ELSE {}]
    /\ served = [net \in Nets |-> <<>>]

Learn ==
    /\ known' \in [Nets -> SUBSET Node]
    /\ \A net \in Nets :
          /\ known[net] \subseteq known'[net]
          /\ \A n \in known'[net] \ known[net] :
                /\ n.url \notin UrlsOf(known[net])
                /\ \A x \in known'[net] \ known[net] : x.url = n.url => x = n
    /\ UNCHANGED served

Publish(net) ==
    \E alive \in SUBSET {n \in known[net] : n.url \notin NeverAlive} :
       \E best \in Selections(alive) :
          /\ served' = [served EXCEPT ![net] = best]
          /\ UNCHANGED known

Forget(url) ==
    /\ known' = [net \in Nets |-> {n \in known[net] : n.url # url}]
    /\ served' = [net \in Nets |-> Without(served[net], url)]

Next ==
    \/ Learn
    \/ \E net \in Nets : Publish(net)
    \/ \E url \in Urls : Forget(url)

Spec == Init /\ [][Next]_<<known, served>>

=============================================================================
