------------------------------- MODULE Registry ------------------------------
(***************************************************************************)
(* pkg/registry: the table of networks and the methods that change it.     *)
(*                                                                         *)
(* Registry.State maps a network name to a *pointer*, and Registry.All()   *)
(* hands those pointers out.  AddNetwork stores a fresh object under the   *)
(* name, so a caller that still holds the old pointer reads and writes an  *)
(* object the registry no longer refers to.  State[net] is therefore the   *)
(* sequence of the objects ever stored under the name: the last one is the *)
(* current one, an empty sequence is a name the registry does not have,    *)
(* and a pointer is an index into the sequence.                            *)
(*                                                                         *)
(* Every operator below the state is one method, atomic as its mutex makes *)
(* it.                                                                     *)
(***************************************************************************)
EXTENDS NodeLists

CONSTANTS Nets,     \* network names
          Config    \* networks loaded from configs/networks: name -> nodes

ASSUME ConfigAssumption == /\ DOMAIN Config \subseteq Nets
                           /\ \A net \in DOMAIN Config : Config[net] \in Seq(Node)

VARIABLE State

DiscoveredNode == [node : Node, expires : Nat]

NetworkState == [all : Seq(Node), best : Seq(Node), disc : Seq(DiscoveredNode)]

RegistryTypeOK == State \in [Nets -> Seq(NetworkState)]

NewState(nodes, best) == [all |-> nodes, best |-> best, disc |-> <<>>]

\* InitFromConfigs: every configured network, nothing known to be alive yet.
InitFromConfigs ==
    State = [net \in Nets |-> IF net \in DOMAIN Config
                              THEN <<NewState(Config[net], <<>>)>>
                              ELSE <<>>]

-----------------------------------------------------------------------------
(* Reads *)

Exists(net) == State[net] # <<>>

Pointer(net) == Len(State[net])

Current(net) == State[net][Pointer(net)]

-----------------------------------------------------------------------------
(* Methods *)

\* SetBest works by name: it reaches the object current at the time of the
\* call, whichever object the caller computed best from.
SetBest(net, best) ==
    State' = IF Exists(net)
             THEN [State EXCEPT ![net][Pointer(net)].best = best]
             ELSE State

AddNode(net, node) ==
    State' = IF Exists(net)
             THEN [State EXCEPT ![net][Pointer(net)].all = Append(@, node)]
             ELSE State

AppendBest(net, node) ==
    State' = IF Exists(net)
             THEN [State EXCEPT ![net][Pointer(net)].best = Append(@, node)]
             ELSE State

\* AddNetwork replaces the object, its Discovered list included.
AddNetwork(net, nodes, best) ==
    State' = [State EXCEPT ![net] = Append(@, NewState(nodes, best))]

\* for _, st := range r.State { ... }
EachCurrent(Op(_)) ==
    [net \in Nets |->
        [ptr \in 1..Len(State[net]) |->
            IF ptr = Len(State[net]) THEN Op(State[net][ptr]) ELSE State[net][ptr]]]

Unexpired(disc, now) == Kept(disc, {i \in DOMAIN disc : disc[i].expires > now})

\* Mutant of Unknown: the merge forgets what it has appended itself.
UnknownTwice(disc, all) ==
    Kept(disc, {k \in DOMAIN disc : disc[k].node.url \notin UrlsOf(Elements(all))})

\* The entries of Discovered that the merge appends to All: those whose URL
\* All does not have, and of two with one URL the earlier.
Unknown(disc, all) ==
    Kept(disc, {k \in DOMAIN disc :
                  /\ disc[k].node.url \notin UrlsOf(Elements(all))
                  /\ \A j \in 1..(k - 1) : disc[j].node.url # disc[k].node.url})

Merged(all, disc) ==
    LET new == Unknown(disc, all)
    IN  all \o [i \in 1..Len(new) |-> new[i].node]

PrunedAndMerged(st, now) ==
    LET fresh == Unexpired(st.disc, now)
    IN  [st EXCEPT !.disc = fresh, !.all = Merged(@, fresh)]

PruneAndMerge(now) ==
    LET One(st) == PrunedAndMerged(st, now)
    IN  State' = EachCurrent(One)

\* Mutant of Removed: Best is not filtered.
RemovedFromAll(st, url) ==
    [all  |-> Without(st.all, url),
     best |-> st.best,
     disc |-> Kept(st.disc, {i \in DOMAIN st.disc : st.disc[i].node.url # url})]

Removed(st, url) ==
    [all  |-> Without(st.all, url),
     best |-> Without(st.best, url),
     disc |-> Kept(st.disc, {i \in DOMAIN st.disc : st.disc[i].node.url # url})]

RemoveNodeEverywhere(url) ==
    LET One(st) == Removed(st, url)
    IN  State' = EachCurrent(One)

=============================================================================
