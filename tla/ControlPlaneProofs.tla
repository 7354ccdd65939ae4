-------------------------- MODULE ControlPlaneProofs -------------------------
(***************************************************************************)
(* Theorems about ControlPlane, for every set of networks, nodes, requests *)
(* and messages.  Types come first, together with PointersOK: a step reads *)
(* and writes objects through pointers, so a type can only be kept if the  *)
(* pointers are valid.                                                     *)
(***************************************************************************)
EXTENDS ControlPlane, NodeListsProofs
-----------------------------------------------------------------------------
(* What each method of the registry does to the objects it holds, in the    *)
(* form the proofs below use: the types stay, no object goes away, and      *)
(* every object keeps the fields the method does not write.                 *)

\* Pointers stay valid, and fields hold on to their values at every object.
Objects == [net : Nets, ptr : Nat]

Valid(x) == x.ptr \in 1..Len(State[x.net])

Obj(x) == State[x.net][x.ptr]

Ref(net) == [net |-> net, ptr |-> Pointer(net)]

LEMMA ObjType ==
    ASSUME RegistryTypeOK, NEW x \in Objects, Valid(x)
    PROVE  /\ Obj(x) \in NetworkState
           /\ Obj(x).all \in Seq(Node)
           /\ Obj(x).best \in Seq(Node)
           /\ Obj(x).disc \in Seq(DiscoveredNode)
<1>1. x.net \in Nets
  BY DEF Objects
<1>2. State[x.net] \in Seq(NetworkState)
  BY <1>1 DEF RegistryTypeOK
<1>3. Obj(x) \in NetworkState
  BY <1>2 DEF Valid, Obj
<1> QED
  BY <1>3 DEF NetworkState

\* Writing one object of one network.
LEMMA WriteOne ==
    ASSUME RegistryTypeOK, NEW w \in Objects, Valid(w), NEW st \in NetworkState,
           State' = [State EXCEPT ![w.net] = [State[w.net] EXCEPT ![w.ptr] = st]]
    PROVE  /\ RegistryTypeOK'
           /\ \A x \in Objects : /\ Valid(x)' <=> Valid(x)
                                 /\ Valid(x) => Obj(x)' = IF x = w THEN st ELSE Obj(x)
           /\ \A net \in Nets : Len(State'[net]) = Len(State[net])
<1>1. w.net \in Nets /\ State[w.net] \in Seq(NetworkState)
  BY DEF Objects, RegistryTypeOK
<1> DEFINE s == [State[w.net] EXCEPT ![w.ptr] = st]
<1>2. s \in Seq(NetworkState) /\ Len(s) = Len(State[w.net])
  BY <1>1 DEF Valid
<1>3. \A k \in 1..Len(State[w.net]) : s[k] = IF k = w.ptr THEN st ELSE State[w.net][k]
  BY <1>1
<1> HIDE DEF s
<1>4. State' = [State EXCEPT ![w.net] = s]
  BY DEF s
<1>5. \A net \in Nets : State'[net] = IF net = w.net THEN s ELSE State[net]
  BY <1>4 DEF RegistryTypeOK
<1>6. State' \in [Nets -> Seq(NetworkState)]
  BY <1>2, <1>4 DEF RegistryTypeOK
<1>7. ASSUME NEW x \in Objects
      PROVE  /\ Valid(x)' <=> Valid(x)
             /\ Valid(x) => Obj(x)' = IF x = w THEN st ELSE Obj(x)
  <2>1. x.net \in Nets
    BY DEF Objects
  <2>2. x = w <=> x.net = w.net /\ x.ptr = w.ptr
    BY DEF Objects
  <2> QED
    BY <1>2, <1>3, <1>5, <2>1, <2>2 DEF Valid, Obj
<1>8. \A net \in Nets : Len(State'[net]) = Len(State[net])
  BY <1>2, <1>5
<1> QED
  BY <1>6, <1>7, <1>8 DEF RegistryTypeOK

\* The current object of a network is a valid pointer.
LEMMA CurrentIsValid ==
    ASSUME RegistryTypeOK, NEW net \in Nets, Exists(net)
    PROVE  Ref(net) \in Objects /\ Valid(Ref(net)) /\ Obj(Ref(net)) = Current(net)
<1>1. State[net] \in Seq(NetworkState) /\ State[net] # <<>>
  BY DEF RegistryTypeOK, Exists
<1>2. Len(State[net]) \in Nat \ {0}
  BY <1>1
<1> QED
  BY <1>2 DEF Objects, Valid, Obj, Current, Pointer, Ref
-----------------------------------------------------------------------------
(* The methods.  Each lemma gives every object's new value. *)

\* Some object w becomes st, the others are as they were.
Only(w, st) ==
    /\ RegistryTypeOK'
    /\ \A x \in Objects : /\ Valid(x)' <=> Valid(x)
                          /\ Valid(x) => Obj(x)' = IF x = w THEN st ELSE Obj(x)
    /\ \A net \in Nets : Len(State'[net]) = Len(State[net])

\* Nothing changes, or only the current object of net does.
LEMMA SetBestEffect ==
    ASSUME RegistryTypeOK, NEW net \in Nets, NEW best \in Seq(Node), SetBest(net, best)
    PROVE  \/ UNCHANGED State
           \/ Exists(net) /\ Only(Ref(net), [Obj(Ref(net)) EXCEPT !.best = best])
<1>1. CASE Exists(net)
  <2> DEFINE w == Ref(net)  st == [Obj(w) EXCEPT !.best = best]
  <2>1. w \in Objects /\ Valid(w)
    BY <1>1, CurrentIsValid
  <2>2. st \in NetworkState
    BY <2>1, ObjType DEF NetworkState
  <2>3. State' = [State EXCEPT ![w.net] = [State[w.net] EXCEPT ![w.ptr] = st]]
    BY <1>1 DEF SetBest, Ref, Obj
  <2>4. Only(w, st)
    BY <2>1, <2>2, <2>3, WriteOne DEF Only
  <2> QED
    BY <1>1, <2>4
<1>2. CASE ~Exists(net)
  BY <1>2 DEF SetBest
<1> QED
  BY <1>1, <1>2

LEMMA AddNodeEffect ==
    ASSUME RegistryTypeOK, NEW net \in Nets, NEW node \in Node, AddNode(net, node)
    PROVE  \/ UNCHANGED State
           \/ Exists(net) /\ Only(Ref(net), [Obj(Ref(net)) EXCEPT !.all = Append(@, node)])
<1>1. CASE Exists(net)
  <2> DEFINE w == Ref(net)  st == [Obj(w) EXCEPT !.all = Append(@, node)]
  <2>1. w \in Objects /\ Valid(w)
    BY <1>1, CurrentIsValid
  <2>2. st \in NetworkState
    <3>1. Obj(w) \in NetworkState /\ Obj(w).all \in Seq(Node)
      BY <2>1, ObjType
    <3>2. Append(Obj(w).all, node) \in Seq(Node)
      BY <3>1
    <3> QED
      BY <3>1, <3>2 DEF NetworkState
  <2>3. State' = [State EXCEPT ![w.net] = [State[w.net] EXCEPT ![w.ptr] = st]]
    BY <1>1 DEF AddNode, Ref, Obj
  <2>4. Only(w, st)
    BY <2>1, <2>2, <2>3, WriteOne DEF Only
  <2> QED
    BY <1>1, <2>4
<1>2. CASE ~Exists(net)
  BY <1>2 DEF AddNode
<1> QED
  BY <1>1, <1>2

LEMMA AppendBestEffect ==
    ASSUME RegistryTypeOK, NEW net \in Nets, NEW node \in Node, AppendBest(net, node)
    PROVE  \/ UNCHANGED State
           \/ Exists(net) /\ Only(Ref(net), [Obj(Ref(net)) EXCEPT !.best = Append(@, node)])
<1>1. CASE Exists(net)
  <2> DEFINE w == Ref(net)  st == [Obj(w) EXCEPT !.best = Append(@, node)]
  <2>1. w \in Objects /\ Valid(w)
    BY <1>1, CurrentIsValid
  <2>2. st \in NetworkState
    <3>1. Obj(w) \in NetworkState /\ Obj(w).best \in Seq(Node)
      BY <2>1, ObjType
    <3>2. Append(Obj(w).best, node) \in Seq(Node)
      BY <3>1
    <3> QED
      BY <3>1, <3>2 DEF NetworkState
  <2>3. State' = [State EXCEPT ![w.net] = [State[w.net] EXCEPT ![w.ptr] = st]]
    BY <1>1 DEF AppendBest, Ref, Obj
  <2>4. Only(w, st)
    BY <2>1, <2>2, <2>3, WriteOne DEF Only
  <2> QED
    BY <1>1, <2>4
<1>2. CASE ~Exists(net)
  BY <1>2 DEF AppendBest
<1> QED
  BY <1>1, <1>2

\* AddNetwork: the old objects stay as they are, the new one is current.
LEMMA AddNetworkEffect ==
    ASSUME RegistryTypeOK, NEW net \in Nets, NEW nodes \in Seq(Node), NEW best \in Seq(Node),
           AddNetwork(net, nodes, best)
    PROVE  /\ RegistryTypeOK'
           /\ \A x \in Objects :
                 /\ Valid(x) => Valid(x)' /\ Obj(x)' = Obj(x)
                 /\ Valid(x)' /\ ~Valid(x) => Obj(x)' = NewState(nodes, best)
           /\ \A n \in Nets : Len(State[n]) <= Len(State'[n])
<1> DEFINE st == NewState(nodes, best)
<1>1. st \in NetworkState
  BY DEF NewState, NetworkState
<1>2. \A n \in Nets : State[n] \in Seq(NetworkState)
  BY DEF RegistryTypeOK
<1>3. \A n \in Nets : State'[n] = IF n = net THEN Append(State[n], st) ELSE State[n]
  BY DEF AddNetwork, RegistryTypeOK
<1>4. State' \in [Nets -> Seq(NetworkState)]
  <2>1. Append(State[net], st) \in Seq(NetworkState)
    BY <1>1, <1>2
  <2> QED
    BY <2>1 DEF AddNetwork, RegistryTypeOK
<1> HIDE DEF st
<1>5. ASSUME NEW x \in Objects
      PROVE  /\ Valid(x) => Valid(x)' /\ Obj(x)' = Obj(x)
             /\ Valid(x)' /\ ~Valid(x) => Obj(x)' = st
  <2>1. x.net \in Nets /\ x.ptr \in Nat
    BY DEF Objects
  <2> DEFINE old == State[x.net]
  <2>2. CASE x.net = net
    <3>1. old \in Seq(NetworkState) /\ State'[x.net] = Append(old, st)
      BY <1>2, <1>3, <2>1, <2>2
    <3> QED
      BY <3>1, <2>1 DEF Valid, Obj
  <2>3. CASE x.net # net
    BY <1>3, <2>1, <2>3 DEF Valid, Obj
  <2> QED
    BY <2>2, <2>3
<1>6. ASSUME NEW n \in Nets PROVE Len(State[n]) <= Len(State'[n])
  <2>1. State[n] \in Seq(NetworkState) /\ Len(State[n]) \in Nat
    BY <1>2
  <2>2. State'[n] = Append(State[n], st) \/ State'[n] = State[n]
    BY <1>3
  <2> QED
    BY <2>1, <2>2
<1> QED
  BY <1>4, <1>5, <1>6 DEF RegistryTypeOK, st
-----------------------------------------------------------------------------
(* The loops over all networks. *)

\* Every current object goes through F, the others are as they were.
EachBy(F) ==
    /\ RegistryTypeOK'
    /\ \A x \in Objects :
          /\ Valid(x)' <=> Valid(x)
          /\ Valid(x) => Obj(x)' = IF x.ptr = Pointer(x.net) THEN F[Obj(x)] ELSE Obj(x)
    /\ \A net \in Nets : Len(State'[net]) = Len(State[net])

LEMMA WriteEach ==
    ASSUME RegistryTypeOK, NEW F \in [NetworkState -> NetworkState],
           State' = [net \in Nets |-> [ptr \in 1..Len(State[net]) |->
                       IF ptr = Len(State[net]) THEN F[State[net][ptr]] ELSE State[net][ptr]]]
    PROVE  EachBy(F)
<1>1. ASSUME NEW net \in Nets
      PROVE  /\ State'[net] \in Seq(NetworkState)
             /\ Len(State'[net]) = Len(State[net])
             /\ \A ptr \in 1..Len(State[net]) :
                   State'[net][ptr] = IF ptr = Len(State[net]) THEN F[State[net][ptr]]
                                                               ELSE State[net][ptr]
  <2> DEFINE s == State[net]
  <2>1. s \in Seq(NetworkState) /\ Len(s) \in Nat
    BY DEF RegistryTypeOK
  <2>2. \A ptr \in 1..Len(s) : s[ptr] \in NetworkState /\ F[s[ptr]] \in NetworkState
    BY <2>1
  <2>3. State'[net] = [ptr \in 1..Len(s) |-> IF ptr = Len(s) THEN F[s[ptr]] ELSE s[ptr]]
    OBVIOUS
  <2>4. State'[net] \in [1..Len(s) -> NetworkState]
    BY <2>2, <2>3
  <2> QED
    BY <2>1, <2>3, <2>4
<1>2. State' \in [Nets -> Seq(NetworkState)]
  BY <1>1
<1>3. ASSUME NEW x \in Objects
      PROVE  /\ Valid(x)' <=> Valid(x)
             /\ Valid(x) => Obj(x)' = IF x.ptr = Pointer(x.net) THEN F[Obj(x)] ELSE Obj(x)
  <2>1. x.net \in Nets
    BY DEF Objects
  <2> QED
    BY <1>1, <2>1 DEF Valid, Obj, Pointer
<1> QED
  BY <1>1, <1>2, <1>3 DEF EachBy, RegistryTypeOK

\* What a removal leaves of an object.
LEMMA RemovedState ==
    ASSUME NEW st \in NetworkState, NEW url
    PROVE  /\ Removed(st, url) \in NetworkState
           /\ Elements(Removed(st, url).all) = {n \in Elements(st.all) : n.url # url}
           /\ Elements(Removed(st, url).best) = {n \in Elements(st.best) : n.url # url}
           /\ Ordered(st.best) => Ordered(Removed(st, url).best)
<1>1. /\ st.all \in Seq(Node)
      /\ st.best \in Seq(Node)
      /\ st.disc \in Seq(DiscoveredNode)
  BY DEF NetworkState
<1>2. Kept(st.disc, {i \in DOMAIN st.disc : st.disc[i].node.url # url}) \in Seq(DiscoveredNode)
  BY <1>1, KeptIsList
<1>3. /\ Without(st.all, url) \in Seq(Node)
      /\ Elements(Without(st.all, url)) = {n \in Elements(st.all) : n.url # url}
  BY <1>1, WithoutIsList
<1>4. /\ Without(st.best, url) \in Seq(Node)
      /\ Elements(Without(st.best, url)) = {n \in Elements(st.best) : n.url # url}
      /\ Ordered(st.best) => Ordered(Without(st.best, url))
  BY <1>1, WithoutIsList
<1> QED
  BY <1>2, <1>3, <1>4 DEF Removed, NetworkState

LEMMA RemoveEffect ==
    ASSUME RegistryTypeOK, NEW url, RemoveNodeEverywhere(url)
    PROVE  EachBy([st \in NetworkState |-> Removed(st, url)])
<1> DEFINE F == [st \in NetworkState |-> Removed(st, url)]
<1>1. F \in [NetworkState -> NetworkState]
  BY RemovedState
<1>2. \A net \in Nets : \A ptr \in 1..Len(State[net]) : State[net][ptr] \in NetworkState
  BY DEF RegistryTypeOK
<1>3. State' = [net \in Nets |-> [ptr \in 1..Len(State[net]) |->
                  IF ptr = Len(State[net]) THEN F[State[net][ptr]] ELSE State[net][ptr]]]
  BY <1>2 DEF RemoveNodeEverywhere, EachCurrent
<1> HIDE DEF F
<1>4. EachBy(F)
  BY <1>1, <1>3, WriteEach
<1> QED
  BY <1>4 DEF F

\* What pruning and merging makes of an object: Best stays, All grows at its
\* end, by nodes of URLs it did not have, one node for each.
LEMMA MergedState ==
    ASSUME NEW st \in NetworkState, NEW t
    PROVE  LET st2 == PrunedAndMerged(st, t)
           IN  /\ st2 \in NetworkState
               /\ st2.best = st.best
               /\ st.all # <<>> => st2.all # <<>>
               /\ Elements(st.all) \subseteq Elements(st2.all)
               /\ \A n \in Elements(st2.all) \ Elements(st.all) :
                     /\ n.url \notin UrlsOf(Elements(st.all))
                     /\ \A m \in Elements(st2.all) \ Elements(st.all) : n.url = m.url => n = m
<1> DEFINE fresh == Unexpired(st.disc, t)
           I     == {k \in DOMAIN fresh :
                       /\ fresh[k].node.url \notin UrlsOf(Elements(st.all))
                       /\ \A j \in 1..(k - 1) : fresh[j].node.url # fresh[k].node.url}
           new   == Unknown(fresh, st.all)
           added == [i \in 1..Len(new) |-> new[i].node]
           st2   == PrunedAndMerged(st, t)
<1>1. /\ st.all \in Seq(Node)
      /\ st.best \in Seq(Node)
      /\ st.disc \in Seq(DiscoveredNode)
  BY DEF NetworkState
<1>2. fresh \in Seq(DiscoveredNode)
  BY <1>1, KeptIsList DEF Unexpired
<1>3. new = Kept(fresh, I)
  BY DEF Unknown
<1> HIDE DEF fresh
<1>4. new \in Seq(DiscoveredNode) /\ Elements(new) = {fresh[k] : k \in I}
  BY <1>2, <1>3, KeptIsList
<1>5. st2 = [st EXCEPT !.disc = fresh, !.all = st.all \o added]
  BY DEF PrunedAndMerged, Merged, fresh
<1> HIDE DEF new, st2
<1>6. Len(new) \in Nat /\ DOMAIN new = 1..Len(new)
  BY <1>4
<1>7. ASSUME NEW i \in 1..Len(new) PROVE new[i] \in Elements(new) /\ new[i].node \in Node
  <2>1. new[i] \in DiscoveredNode
    BY <1>4
  <2>2. new[i].node \in Node
    BY <2>1 DEF DiscoveredNode
  <2>3. new[i] \in Elements(new)
    BY <1>6 DEF Elements
  <2> QED
    BY <2>2, <2>3
<1>8. added \in Seq(Node) /\ Len(added) = Len(new)
  BY <1>6, <1>7
<1>9. \A i \in 1..Len(new) : added[i] = new[i].node
  OBVIOUS
<1> HIDE DEF added
<1>10. st.all \o added \in Seq(Node)
  BY <1>1, <1>8
<1>11. st2 \in NetworkState /\ st2.all = st.all \o added /\ st2.best = st.best
  BY <1>2, <1>5, <1>10 DEF NetworkState
<1>12. Elements(st.all \o added) = Elements(st.all) \cup Elements(added)
  <2> DEFINE s == st.all
  <2>1. /\ DOMAIN (s \o added) = 1..(Len(s) + Len(added))
        /\ DOMAIN s = 1..Len(s) /\ DOMAIN added = 1..Len(added)
        /\ Len(s) \in Nat /\ Len(added) \in Nat
    BY <1>1, <1>8
  <2>2. ASSUME NEW i \in 1..(Len(s) + Len(added))
        PROVE  (s \o added)[i] \in Elements(s) \cup Elements(added)
    <3>1. CASE i <= Len(s)
      <4>1. i \in DOMAIN s /\ (s \o added)[i] = s[i]
        BY <1>1, <1>8, <2>1, <3>1
      <4> QED
        BY <4>1 DEF Elements
    <3>2. CASE i > Len(s)
      <4>1. i - Len(s) \in 1..Len(added) /\ (s \o added)[i] = added[i - Len(s)]
        BY <1>1, <1>8, <2>1, <3>2
      <4> QED
        BY <2>1, <4>1 DEF Elements
    <3> QED
      BY <2>1, <3>1, <3>2
  <2>3. ASSUME NEW i \in 1..Len(s) PROVE s[i] \in Elements(s \o added)
    <3>1. i \in DOMAIN (s \o added) /\ (s \o added)[i] = s[i]
      BY <1>1, <1>8, <2>1
    <3> QED
      BY <3>1 DEF Elements
  <2>4. ASSUME NEW i \in 1..Len(added) PROVE added[i] \in Elements(s \o added)
    <3>1. Len(s) + i \in DOMAIN (s \o added) /\ (s \o added)[Len(s) + i] = added[i]
      BY <1>1, <1>8, <2>1
    <3> QED
      BY <3>1 DEF Elements
  <2> QED
    BY <2>1, <2>2, <2>3, <2>4 DEF Elements
<1>13. \A n \in Elements(added) : \E k \in I : n = fresh[k].node
  <2>1. ASSUME NEW i \in 1..Len(new) PROVE \E k \in I : added[i] = fresh[k].node
    <3>1. PICK k \in I : new[i] = fresh[k]
      BY <1>4, <1>7
    <3> QED
      BY <1>9, <3>1
  <2>2. DOMAIN added = 1..Len(new)
    BY <1>8
  <2>3. ASSUME NEW n \in Elements(added) PROVE \E i \in 1..Len(new) : n = added[i]
    BY <2>2 DEF Elements
  <2> HIDE DEF I
  <2> QED
    BY <2>1, <2>3
<1>14. ASSUME NEW j \in I, NEW k \in I, fresh[j].node.url = fresh[k].node.url
       PROVE  j = k
  <2>1. DOMAIN fresh = 1..Len(fresh) /\ Len(fresh) \in Nat
    BY <1>2
  <2>2. j \in 1..Len(fresh) /\ k \in 1..Len(fresh)
    BY <2>1
  <2>3. ~(j < k) /\ ~(k < j)
    BY <1>14, <2>2
  <2> QED
    BY <2>2, <2>3
<1>15. ASSUME NEW n \in Elements(st2.all) \ Elements(st.all)
       PROVE  /\ n.url \notin UrlsOf(Elements(st.all))
              /\ \A m \in Elements(st2.all) \ Elements(st.all) : n.url = m.url => n = m
  <2>1. PICK k \in I : n = fresh[k].node
    BY <1>11, <1>12, <1>13, <1>15
  <2>2. ASSUME NEW m \in Elements(st2.all) \ Elements(st.all), n.url = m.url PROVE n = m
    <3>1. PICK j \in I : m = fresh[j].node
      BY <1>11, <1>12, <1>13, <2>2
    <3> QED
      BY <1>14, <2>1, <2>2, <3>1
  <2> QED
    BY <2>1, <2>2
<1>16. st.all # <<>> => st2.all # <<>>
  BY <1>1, <1>8, <1>11
<1> QED
  BY <1>11, <1>12, <1>15, <1>16 DEF st2

LEMMA PruneEffect ==
    ASSUME RegistryTypeOK, NEW t, PruneAndMerge(t)
    PROVE  EachBy([st \in NetworkState |-> PrunedAndMerged(st, t)])
<1> DEFINE F == [st \in NetworkState |-> PrunedAndMerged(st, t)]
<1>1. F \in [NetworkState -> NetworkState]
  BY MergedState
<1>2. \A net \in Nets : \A ptr \in 1..Len(State[net]) : State[net][ptr] \in NetworkState
  BY DEF RegistryTypeOK
<1>3. State' = [net \in Nets |-> [ptr \in 1..Len(State[net]) |->
                  IF ptr = Len(State[net]) THEN F[State[net][ptr]] ELSE State[net][ptr]]]
  BY <1>2 DEF PruneAndMerge, EachCurrent
<1> HIDE DEF F
<1>4. EachBy(F)
  BY <1>1, <1>3, WriteEach
<1> QED
  BY <1>4 DEF F
-----------------------------------------------------------------------------
Typed == TypeOK /\ PointersOK

-----------------------------------------------------------------------------
(* Constants *)

LEMMA OpFields ==
    ASSUME NEW o \in Ops
    PROVE  /\ o.op = "AddNode" => o.net \in Nets /\ o.node \in Node
           /\ o.op = "DeleteNode" => o.net \in Nets /\ o.url \in Urls
           /\ o.op \in {"AddNetwork", "AddNetworksBulk"} =>
                 o.cfgs \in Seq(NetConfig) /\ o.cfgs # <<>>
<1>1. o \in AddNodeOps \/ o \in DeleteNodeOps \/ o \in AddNetworkOps
  BY ControlPlaneAssumption
<1>2. CASE o \in AddNodeOps
  BY <1>2 DEF AddNodeOps
<1>3. CASE o \in DeleteNodeOps
  BY <1>3 DEF DeleteNodeOps
<1>4. CASE o \in AddNetworkOps
  BY <1>4 DEF AddNetworkOps
<1> QED
  BY <1>1, <1>2, <1>3, <1>4

LEMMA CfgFields ==
    ASSUME Typed, NEW o \in Ops, o.op \in {"AddNetwork", "AddNetworksBulk"}
    PROVE  Cfg(o).net \in Nets /\ Cfg(o).nodes \in Seq(Node)
<1>1. o.cfgs \in Seq(NetConfig) /\ req[o].i \in 1..Len(o.cfgs)
  BY OpFields DEF Typed, PointersOK, RequestOK
<1>2. o.cfgs[req[o].i] \in NetConfig
  BY <1>1
<1> QED
  BY <1>2 DEF Cfg, NetConfig

LEMMA MsgFields ==
    ASSUME NEW m \in Msgs, NEW i \in 1..Len(m.adverts)
    PROVE  m.adverts[i].net \in Nets /\ m.adverts[i].nodes \in Seq(Node)
<1> DEFINE A == [net : Nets, nodes : Seq(Node)]  s == m.adverts
<1>1. s \in Seq(A)
  BY ControlPlaneAssumption DEF Messages
<1>2. s[i] \in A
  <2>1. i \in 1..Len(s)
    OBVIOUS
  <2> HIDE DEF A, s
  <2> QED
    BY <1>1, <2>1
<1> QED
  BY <1>2

\* The nested loops of the gossip handler go through a list of nodes.
LEMMA RepeatedIsList ==
    ASSUME NEW s \in Seq(Node)
    PROVE  Repeated(s) \in Seq(Node)
<1> DEFINE L == Len(s)
<1>1. L \in Nat /\ L * L \in Nat
  OBVIOUS
<1>2. ASSUME NEW i \in 1..(L * L) PROVE s[((i - 1) % L) + 1] \in Node
  <2>1. L # 0
    BY <1>1, <1>2
  <2>2. (i - 1) % L \in 0..(L - 1)
    BY <1>1, <2>1
  <2>3. ((i - 1) % L) + 1 \in 1..L
    BY <1>1, <2>2
  <2> QED
    BY <2>3
<1>3. Repeated(s) \in [1..(L * L) -> Node]
  BY <1>2 DEF Repeated
<1> QED
  BY <1>1, <1>3

-----------------------------------------------------------------------------
(* Types *)

THEOREM InitTyped == Init => Typed
<1> SUFFICES ASSUME Init PROVE Typed
  OBVIOUS
<1>1. RegistryTypeOK
  <2>1. ASSUME NEW net \in DOMAIN Config PROVE <<NewState(Config[net], <<>>)>> \in Seq(NetworkState)
    <3>1. Config[net] \in Seq(Node)
      BY ConfigAssumption
    <3>2. NewState(Config[net], <<>>) \in NetworkState
      BY <3>1 DEF NewState, NetworkState
    <3> QED
      BY <3>2
  <2> QED
    BY <2>1 DEF Init, InitFromConfigs, RegistryTypeOK
<1>2. worker \in [Nets -> Worker]
  <2>1. Off \in Worker /\ Spawned(1) \in Worker
    BY DEF Off, Spawned, Worker
  <2> QED
    BY <2>1 DEF Init
<1>3. req \in [Ops -> Request]
  BY DEF Init, Request, Waiting
<1>4. gossip \in [Msgs -> Handler]
  BY DEF Init, Handler, Undelivered
<1>5. TypeOK
  <2>1. now \in 0..MaxNow
    BY ControlPlaneAssumption DEF Init
  <2>2. /\ dropURLs \subseteq Urls /\ dropping \subseteq Urls
        /\ round \in Rounds /\ crashed \in BOOLEAN
    BY DEF Init, Rounds
  <2> QED
    BY <1>1, <1>2, <1>3, <1>4, <2>1, <2>2 DEF TypeOK
<1>6. \A net \in Nets : worker[net].pc # "off" => worker[net].ptr \in 1..Len(State[net])
  BY DEF Init, InitFromConfigs, Off, Spawned
<1>7. \A o \in Ops : /\ req[o].pc = "idle"
                     /\ o.op \in {"AddNetwork", "AddNetworksBulk"} => req[o].i \in 1..Len(o.cfgs)
  BY OpFields DEF Init, Waiting
<1>8. ASSUME NEW m \in Msgs
      PROVE  /\ gossip[m].pc = "idle" /\ gossip[m].i = 1
             /\ \A net \in Nets : gossip[m].ptr[net] <= Len(State[net])
  <2>1. \A net \in Nets : Len(State[net]) \in Nat
    BY <1>1 DEF RegistryTypeOK
  <2> QED
    BY <2>1 DEF Init, Undelivered
<1>9. PointersOK
  BY <1>6, <1>7, <1>8 DEF PointersOK, WorkerOK, RequestOK, HandlerOK
<1> QED
  BY <1>5, <1>9 DEF Typed
\* Objects are written and added, never taken away.
Grow == RegistryTypeOK' /\ \A net \in Nets : Len(State[net]) <= Len(State'[net])

LEMMA GrowCases ==
    ASSUME RegistryTypeOK
    PROVE  /\ UNCHANGED State => Grow
           /\ \A x, st : Only(x, st) => Grow
           /\ \A F : EachBy(F) => Grow
<1>1. \A net \in Nets : Len(State[net]) \in Nat
  BY DEF RegistryTypeOK
<1>2. UNCHANGED State => Grow
  BY <1>1 DEF Grow, RegistryTypeOK
<1>3. \A x, st : Only(x, st) => Grow
  BY <1>1 DEF Only, Grow
<1>4. \A F : EachBy(F) => Grow
  BY <1>1 DEF EachBy, Grow
<1> QED
  BY <1>2, <1>3, <1>4

\* Pointers stay valid while the registry only grows.
LEMMA PointersKept ==
    ASSUME Typed, Grow
    PROVE  /\ \A net \in Nets, g \in Worker : WorkerOK(net, g) => WorkerOK(net, g)'
           /\ \A o \in Ops, r \in Request : RequestOK(o, r) => RequestOK(o, r)'
           /\ \A m \in Msgs, g \in Handler : HandlerOK(m, g) => HandlerOK(m, g)'
<1>1. \A net \in Nets : /\ Len(State[net]) \in Nat
                        /\ Len(State'[net]) \in Nat
                        /\ Len(State[net]) <= Len(State'[net])
  BY DEF Typed, TypeOK, RegistryTypeOK, Grow
<1>2. \A net \in Nets, g \in Worker : WorkerOK(net, g) => WorkerOK(net, g)'
  BY <1>1 DEF WorkerOK, Worker
<1>3. \A o \in Ops, r \in Request : RequestOK(o, r) => RequestOK(o, r)'
  <2> SUFFICES ASSUME NEW o \in Ops, NEW r \in Request, RequestOK(o, r) PROVE RequestOK(o, r)'
    OBVIOUS
  <2>1. o.op = "DeleteNode" => o.net \in Nets
    BY OpFields
  <2>2. r.ptr \in Nat
    BY DEF Request
  <2> QED
    BY <1>1, <2>1, <2>2 DEF RequestOK
<1>4. \A m \in Msgs, g \in Handler : HandlerOK(m, g) => HandlerOK(m, g)'
  <2> SUFFICES ASSUME NEW m \in Msgs, NEW g \in Handler, HandlerOK(m, g) PROVE HandlerOK(m, g)'
    OBVIOUS
  <2>1. \A net \in Nets : g.ptr[net] \in Nat
    BY DEF Handler
  <2> QED
    BY <1>1, <2>1 DEF HandlerOK
<1> QED
  BY <1>2, <1>3, <1>4

\* A step that touches no request, no handler and no goroutine.
LEMMA QuietTyped ==
    ASSUME Typed, Grow, UNCHANGED <<worker, req, gossip>>,
           now' \in 0..MaxNow, dropURLs' \subseteq Urls, round' \in Rounds,
           dropping' \subseteq Urls, crashed' \in BOOLEAN
    PROVE  Typed'
<1>1. TypeOK'
  BY DEF Typed, TypeOK, Grow
<1>2. PointersOK'
  BY PointersKept DEF Typed, TypeOK, PointersOK
<1> QED
  BY <1>1, <1>2 DEF Typed

\* A step of the goroutine of net.
LEMMA WorkerTyped ==
    ASSUME Typed, Grow, NEW net \in Nets, NEW g \in Worker, WorkerOK(net, g),
           worker' = [worker EXCEPT ![net] = g], UNCHANGED <<req, gossip, now, round, dropping>>,
           dropURLs' \subseteq Urls, crashed' \in BOOLEAN
    PROVE  Typed'
<1>1. TypeOK'
  BY DEF Typed, TypeOK, Grow
<1>2. \A n \in Nets : WorkerOK(n, worker[n])'
  BY PointersKept DEF Typed, TypeOK, PointersOK
<1>3. PointersOK'
  BY <1>2, PointersKept DEF Typed, TypeOK, PointersOK
<1> QED
  BY <1>1, <1>3 DEF Typed

\* A step of the handler of request o.
LEMMA RequestTyped ==
    ASSUME Typed, Grow, NEW o \in Ops, NEW r \in Request, RequestOK(o, r), Step(o, r),
           dropURLs' \subseteq Urls
    PROVE  Typed'
<1>1. TypeOK'
  BY DEF Typed, TypeOK, Grow, Step
<1>2. \A p \in Ops : RequestOK(p, req[p])'
  BY PointersKept DEF Typed, TypeOK, PointersOK, Step
<1>3. PointersOK'
  BY <1>2, PointersKept DEF Typed, TypeOK, PointersOK, Step
<1> QED
  BY <1>1, <1>3 DEF Typed

\* A step of the handler of message m.
LEMMA HandlerTyped ==
    ASSUME Typed, Grow, NEW m \in Msgs, NEW g \in Handler, HandlerOK(m, g), Handle(m, g)
    PROVE  Typed'
<1>1. TypeOK'
  BY DEF Typed, TypeOK, Grow, Handle
<1>2. \A p \in Msgs : HandlerOK(p, gossip[p])'
  BY PointersKept DEF Typed, TypeOK, PointersOK, Handle
<1>3. PointersOK'
  BY <1>2, PointersKept DEF Typed, TypeOK, PointersOK, Handle
<1> QED
  BY <1>1, <1>3 DEF Typed
LEMMA HealthTyped == Typed /\ HealthStep => Typed'
<1> SUFFICES ASSUME Typed, HealthStep PROVE Typed'
  OBVIOUS
<1> USE DEF Typed, TypeOK
<1>1. ASSUME NEW net \in Nets, worker[net].pc # "off"
      PROVE  Seen(net) \in NetworkState /\ Seen(net).all \in Seq(Node)
  <2>1. worker[net].ptr \in 1..Len(State[net]) /\ State[net] \in Seq(NetworkState)
    BY <1>1 DEF PointersOK, WorkerOK, RegistryTypeOK
  <2>2. Seen(net) \in NetworkState
    BY <2>1 DEF Seen
  <2> QED
    BY <2>2 DEF NetworkState
<1>2. ASSUME NEW net \in Nets, PickLimiter(net) PROVE Typed'
  <2> DEFINE g == [worker[net] EXCEPT !.pc = IF Seen(net).all = <<>> THEN "wait" ELSE "pick"]
  <2>1. g \in Worker /\ WorkerOK(net, g)
    BY <1>2 DEF PickLimiter, PointersOK, WorkerOK, Worker
  <2>2. worker' = [worker EXCEPT ![net] = g]
    BY <1>2 DEF PickLimiter
  <2> QED
    BY <1>2, <2>1, <2>2, GrowCases, WorkerTyped DEF PickLimiter
<1>3. ASSUME NEW net \in Nets, ReadFirst(net) PROVE Typed'
  <2>1. CASE Seen(net).all = <<>>
    BY <1>3, <2>1, GrowCases, QuietTyped DEF ReadFirst
  <2>2. CASE Seen(net).all # <<>>
    <3> DEFINE g == [worker[net] EXCEPT !.pc = "wait"]
    <3>1. g \in Worker /\ WorkerOK(net, g)
      BY <1>3 DEF ReadFirst, PointersOK, WorkerOK, Worker
    <3>2. worker' = [worker EXCEPT ![net] = g]
      BY <1>3, <2>2 DEF ReadFirst
    <3> QED
      BY <1>3, <2>2, <3>1, <3>2, GrowCases, WorkerTyped DEF ReadFirst
  <2> QED
    BY <2>1, <2>2
<1>4. ASSUME NEW net \in Nets, StartCheck(net) PROVE Typed'
  <2> DEFINE g == [worker[net] EXCEPT !.pc = "run", !.nodes = Seen(net).all]
  <2>1. g \in Worker /\ WorkerOK(net, g)
    BY <1>1, <1>4 DEF StartCheck, PointersOK, WorkerOK, Worker
  <2>2. worker' = [worker EXCEPT ![net] = g]
    BY <1>4 DEF StartCheck
  <2> QED
    BY <1>4, <2>1, <2>2, GrowCases, WorkerTyped DEF StartCheck
<1>5. ASSUME NEW net \in Nets, Publish(net) PROVE Typed'
  <2>1. PICK o \in Outcomes(worker[net].nodes) :
           SetBest(net, o.best) /\ dropURLs' = dropURLs \cup o.fatal
    BY <1>5 DEF Publish
  <2>2. worker[net].nodes \in Seq(Node)
    BY DEF Worker
  <2>3. o.best \in Seq(Node) /\ o.fatal \subseteq Urls
    BY <2>2, OutcomeIsSound
  <2>4. Grow
    BY <2>1, <2>3, SetBestEffect, GrowCases
  <2>5. Off \in Worker /\ WorkerOK(net, Off)
    BY DEF Off, Worker, WorkerOK
  <2> QED
    BY <1>5, <2>1, <2>3, <2>4, <2>5, WorkerTyped DEF Publish
<1>6. CASE Booted
  BY <1>6, GrowCases, QuietTyped DEF Booted, Rounds
<1>7. CASE Tick
  <2>1. Grow
    BY <1>7, PruneEffect, GrowCases DEF Tick
  <2> QED
    BY <1>7, <2>1, QuietTyped DEF Tick, Rounds
<1>8. CASE Spawn
  <2>1. ASSUME NEW net \in Nets
        PROVE  worker'[net] \in Worker /\ WorkerOK(net, worker[net])'
    <3>1. State[net] \in Seq(NetworkState)
      BY DEF RegistryTypeOK
    <3>2. CASE Exists(net)
      <4>1. Pointer(net) \in Nat /\ Pointer(net) \in 1..Len(State[net])
        BY <3>1, <3>2 DEF Exists, Pointer
      <4> QED
        BY <1>8, <3>2, <4>1 DEF Spawn, Spawned, Worker, WorkerOK
    <3>3. CASE ~Exists(net)
      BY <1>8, <3>3 DEF Spawn, Off, Worker, WorkerOK
    <3> QED
      BY <3>2, <3>3
  <2>2. worker' \in [Nets -> Worker]
    BY <1>8, <2>1 DEF Spawn
  <2>3. TypeOK'
    BY <1>8, <2>2 DEF Spawn, Rounds, RegistryTypeOK
  <2>4. Grow
    BY <1>8, GrowCases DEF Spawn
  <2>5. PointersOK'
    BY <1>8, <2>1, <2>4, PointersKept DEF PointersOK, Spawn
  <2> QED
    BY <2>3, <2>5
<1>9. CASE Drain
  BY <1>9, GrowCases, QuietTyped DEF Drain, Rounds
<1>10. CASE RoundDone
  BY <1>10, GrowCases, QuietTyped DEF RoundDone, Rounds
<1>11. ASSUME NEW url \in Urls, Drop(url) PROVE Typed'
  <2>1. Grow
    BY <1>11, RemoveEffect, GrowCases DEF Drop
  <2> QED
    BY <1>11, <2>1, QuietTyped DEF Drop
<1> QED
  BY <1>2, <1>3, <1>4, <1>5, <1>6, <1>7, <1>8, <1>9, <1>10, <1>11 DEF HealthStep

\* The record a request ends with.
LEMMA EndedFields ==
    ASSUME NEW pc \in {"done", "refused"}
    PROVE  /\ Ended(pc) \in Request
           /\ Ended(pc) = [pc |-> pc, i |-> 1, ptr |-> 0, best |-> <<>>, all |-> <<>>]
<1>1. <<>> \in Seq(Node)
  OBVIOUS
<1>2. Ended(pc) = [pc |-> pc, i |-> 1, ptr |-> 0, best |-> <<>>, all |-> <<>>]
  BY DEF Ended, Waiting
<1> QED
  BY <1>1, <1>2 DEF Request

LEMMA AddNodeTyped ==
    ASSUME Typed, NEW o \in Ops,
           AddNodeBegin(o) \/ AddNodeCheck(o) \/ AddNodeStore(o) \/ AddNodeServe(o)
    PROVE  Typed'
<1> USE DEF Typed, TypeOK
<1>1. o.op = "AddNode" /\ o.net \in Nets /\ o.node \in Node
  BY OpFields DEF AddNodeBegin, AddNodeCheck, AddNodeStore, AddNodeServe
<1>2. req[o] \in Request
  OBVIOUS
<1>3. ASSUME NEW pc \in {"check", "store", "serve"}
      PROVE  [req[o] EXCEPT !.pc = pc] \in Request
  BY <1>2 DEF Request
<1>4. Ended("done") \in Request /\ Ended("refused") \in Request
  BY EndedFields
<1>5. \A r \in Request : RequestOK(o, r)
  BY <1>1 DEF RequestOK
<1>6. CASE AddNodeBegin(o)
  <2> DEFINE r == [req[o] EXCEPT !.pc = "check"]
  <2>1. r \in Request
    BY <1>3
  <2>2. Step(o, r) \/ Step(o, Ended("refused"))
    BY <1>6 DEF AddNodeBegin
  <2>3. UNCHANGED <<State, dropURLs>>
    BY <1>6 DEF AddNodeBegin
  <2> HIDE DEF r
  <2> QED
    BY <1>4, <1>5, <2>1, <2>2, <2>3, GrowCases, RequestTyped
<1>7. CASE AddNodeCheck(o)
  <2>1. PICK r \in Outcomes(<<o.node>>) :
           /\ dropURLs' = dropURLs \cup r.fatal
           /\ Step(o, IF r.best = <<>> THEN Ended("refused") ELSE [req[o] EXCEPT !.pc = "store"])
    BY <1>7 DEF AddNodeCheck
  <2>2. r.fatal \subseteq Urls
    <3>1. <<o.node>> \in Seq(Node)
      BY <1>1
    <3> QED
      BY <3>1, OutcomeIsSound
  <2> QED
    BY <1>3, <1>4, <1>5, <1>7, <2>1, <2>2, GrowCases, RequestTyped DEF AddNodeCheck
<1>8. CASE AddNodeStore(o)
  <2>1. Grow
    BY <1>1, <1>8, AddNodeEffect, GrowCases DEF AddNodeStore
  <2> QED
    BY <1>3, <1>5, <1>8, <2>1, RequestTyped DEF AddNodeStore
<1>9. CASE AddNodeServe(o)
  <2>1. Grow
    BY <1>1, <1>9, AppendBestEffect, GrowCases DEF AddNodeServe
  <2> QED
    BY <1>4, <1>5, <1>9, <2>1, RequestTyped DEF AddNodeServe
<1> QED
  BY <1>6, <1>7, <1>8, <1>9

\* The object a DELETE request reads.
LEMMA DeleteObject ==
    ASSUME Typed, NEW o \in Ops, o.op = "DeleteNode",
           req[o].pc \in {"best", "setBest", "all", "setAll"}
    PROVE  /\ [net |-> o.net, ptr |-> req[o].ptr] \in Objects
           /\ Valid([net |-> o.net, ptr |-> req[o].ptr])
           /\ Exists(o.net)
           /\ State[o.net][req[o].ptr].all \in Seq(Node)
           /\ State[o.net][req[o].ptr].best \in Seq(Node)
<1> DEFINE x == [net |-> o.net, ptr |-> req[o].ptr]
<1>1. o.net \in Nets
  BY OpFields
<1>2. req[o].ptr \in 1..Len(State[o.net]) /\ State[o.net] \in Seq(NetworkState)
  BY <1>1 DEF Typed, TypeOK, PointersOK, RequestOK, RegistryTypeOK
<1>3. x \in Objects /\ Valid(x)
  BY <1>1, <1>2 DEF Objects, Valid
<1>4. Obj(x).all \in Seq(Node) /\ Obj(x).best \in Seq(Node)
  BY <1>3, ObjType DEF Typed, TypeOK
<1>5. Obj(x) = State[o.net][req[o].ptr]
  BY DEF Obj
<1>6. Exists(o.net)
  BY <1>2 DEF Exists
<1> QED
  BY <1>3, <1>4, <1>5, <1>6

\* The unlocked write of DELETE, to the object that is current by then.
LEMMA SetAllEffect ==
    ASSUME Typed, NEW o \in Ops, DeleteSetAll(o)
    PROVE  Exists(o.net) /\ Only(Ref(o.net), [Obj(Ref(o.net)) EXCEPT !.all = req[o].all])
<1> DEFINE w == Ref(o.net)  st == [Obj(w) EXCEPT !.all = req[o].all]
<1>1. o.net \in Nets /\ Exists(o.net)
  BY OpFields, DeleteObject DEF DeleteSetAll
<1>2. RegistryTypeOK /\ req[o].all \in Seq(Node)
  BY DEF Typed, TypeOK, Request
<1>3. w \in Objects /\ Valid(w)
  BY <1>1, <1>2, CurrentIsValid
<1>4. st \in NetworkState
  BY <1>2, <1>3, ObjType DEF NetworkState
<1>5. State' = [State EXCEPT ![w.net] = [State[w.net] EXCEPT ![w.ptr] = st]]
  BY DEF DeleteSetAll, Ref, Obj
<1>6. Only(w, st)
  BY <1>2, <1>3, <1>4, <1>5, WriteOne DEF Only
<1> QED
  BY <1>1, <1>6

LEMMA DeleteTyped ==
    ASSUME Typed, NEW o \in Ops,
           \/ DeleteBegin(o) \/ DeleteReadBest(o) \/ DeleteSetBest(o)
           \/ DeleteReadAll(o) \/ DeleteSetAll(o)
    PROVE  Typed'
<1> USE DEF Typed, TypeOK
<1>1. o.op = "DeleteNode" /\ o.net \in Nets
  BY OpFields DEF DeleteBegin, DeleteReadBest, DeleteSetBest, DeleteReadAll, DeleteSetAll
<1>2. req[o] \in Request /\ req[o].best \in Seq(Node) /\ RequestOK(o, req[o])
  BY DEF PointersOK, Request
<1>3. \A pc \in {"done", "refused"} : Ended(pc) \in Request /\ RequestOK(o, Ended(pc))
  BY <1>1, EndedFields DEF RequestOK
<1>4. CASE DeleteBegin(o)
  <2>1. CASE Exists(o.net)
    <3> DEFINE r == [req[o] EXCEPT !.pc = "best", !.ptr = Pointer(o.net)]
    <3>1. Pointer(o.net) \in Nat /\ Pointer(o.net) \in 1..Len(State[o.net])
      <4>1. State[o.net] \in Seq(NetworkState) /\ State[o.net] # <<>>
        BY <1>1, <2>1 DEF RegistryTypeOK, Exists
      <4> QED
        BY <4>1 DEF Pointer
    <3>2. r \in Request /\ RequestOK(o, r)
      BY <1>1, <1>2, <3>1 DEF Request, RequestOK
    <3> QED
      BY <1>4, <2>1, <3>2, GrowCases, RequestTyped DEF DeleteBegin
  <2>2. CASE ~Exists(o.net)
    BY <1>3, <1>4, <2>2, GrowCases, RequestTyped DEF DeleteBegin
  <2> QED
    BY <2>1, <2>2
<1>5. CASE DeleteReadBest(o)
  <2> DEFINE b == Without(State[o.net][req[o].ptr].best, o.url)
             r == [req[o] EXCEPT !.pc = "setBest", !.best = b]
  <2>1. b \in Seq(Node)
    BY <1>5, DeleteObject, WithoutIsList DEF DeleteReadBest
  <2>2. r \in Request /\ RequestOK(o, r)
    BY <1>1, <1>2, <1>5, <2>1 DEF DeleteReadBest, Request, RequestOK
  <2> QED
    BY <1>5, <2>2, GrowCases, RequestTyped DEF DeleteReadBest
<1>6. CASE DeleteSetBest(o)
  <2> DEFINE r == [req[o] EXCEPT !.pc = "all", !.best = <<>>]
  <2>1. Grow
    BY <1>1, <1>2, <1>6, SetBestEffect, GrowCases DEF DeleteSetBest
  <2>2. r \in Request /\ r.ptr = req[o].ptr
    <3>1. <<>> \in Seq(Node)
      OBVIOUS
    <3> QED
      BY <1>2, <3>1 DEF Request
  <2>3. req[o].ptr \in 1..Len(State[o.net])
    BY <1>1, <1>2, <1>6 DEF DeleteSetBest, RequestOK
  <2>4. RequestOK(o, r)
    BY <1>1, <2>2, <2>3 DEF RequestOK
  <2> QED
    BY <1>6, <2>1, <2>2, <2>4, RequestTyped DEF DeleteSetBest
<1>7. CASE DeleteReadAll(o)
  <2> DEFINE a == Without(State[o.net][req[o].ptr].all, o.url)
             r == [req[o] EXCEPT !.pc = "setAll", !.all = a]
  <2>1. a \in Seq(Node)
    BY <1>7, DeleteObject, WithoutIsList DEF DeleteReadAll
  <2>2. r \in Request /\ RequestOK(o, r)
    BY <1>1, <1>2, <1>7, <2>1 DEF DeleteReadAll, Request, RequestOK
  <2> QED
    BY <1>7, <2>2, GrowCases, RequestTyped DEF DeleteReadAll
<1>8. CASE DeleteSetAll(o)
  <2>1. Grow
    BY <1>8, SetAllEffect, GrowCases
  <2> QED
    BY <1>3, <1>8, <2>1, RequestTyped DEF DeleteSetAll
<1> QED
  BY <1>4, <1>5, <1>6, <1>7, <1>8

LEMMA AddNetworkTyped ==
    ASSUME Typed, NEW o \in Ops,
           AddNetworkBegin(o) \/ AddNetworkCheck(o) \/ AddNetworkStore(o)
    PROVE  Typed'
<1> USE DEF Typed, TypeOK
<1>1. o.op \in {"AddNetwork", "AddNetworksBulk"}
  BY DEF AddNetworkBegin, AddNetworkCheck, AddNetworkStore
<1>2. o.cfgs \in Seq(NetConfig) /\ o.cfgs # <<>>
  BY <1>1, OpFields
<1>3. req[o] \in Request /\ req[o].i \in 1..Len(o.cfgs) /\ req[o].best \in Seq(Node)
  BY <1>1 DEF PointersOK, RequestOK, Request
<1>4. Cfg(o).net \in Nets /\ Cfg(o).nodes \in Seq(Node)
  BY <1>1, CfgFields
<1>5. Len(o.cfgs) \in Nat \ {0}
  BY <1>2
<1>6. \A pc \in {"done", "refused"} : Ended(pc) \in Request /\ RequestOK(o, Ended(pc))
  BY <1>1, <1>5, EndedFields DEF RequestOK
<1>7. NextCfg(o) \in Request /\ RequestOK(o, NextCfg(o))
  <2>1. CASE req[o].i = Len(o.cfgs)
    BY <1>6, <2>1 DEF NextCfg
  <2>2. CASE req[o].i # Len(o.cfgs)
    <3>1. req[o].i + 1 \in 1..Len(o.cfgs)
      BY <1>3, <1>5, <2>2
    <3>2. NextCfg(o) = [pc |-> "idle", i |-> req[o].i + 1, ptr |-> 0, best |-> <<>>, all |-> <<>>]
      BY <2>2 DEF NextCfg, Waiting
    <3>3. <<>> \in Seq(Node)
      OBVIOUS
    <3>4. NextCfg(o) \in Request
      BY <1>5, <3>1, <3>2, <3>3 DEF Request
    <3> QED
      BY <1>1, <3>1, <3>2, <3>4 DEF RequestOK
  <2> QED
    BY <2>1, <2>2
<1>8. CASE AddNetworkBegin(o)
  <2> DEFINE r == [req[o] EXCEPT !.pc = "check"]
  <2>1. r \in Request /\ RequestOK(o, r)
    BY <1>1, <1>3 DEF Request, RequestOK
  <2>2. Step(o, r) \/ Step(o, NextCfg(o)) \/ Step(o, Ended("refused"))
    BY <1>8 DEF AddNetworkBegin
  <2> QED
    BY <1>6, <1>7, <1>8, <2>1, <2>2, GrowCases, RequestTyped DEF AddNetworkBegin
<1>9. CASE AddNetworkCheck(o)
  <2>1. PICK p \in Outcomes(Cfg(o).nodes) :
           /\ dropURLs' = dropURLs \cup p.fatal
           /\ Step(o, IF p.best # <<>>
                      THEN [req[o] EXCEPT !.pc = "store", !.best = p.best]
                      ELSE IF IsBulk(o) THEN NextCfg(o) ELSE Ended("refused"))
    BY <1>9 DEF AddNetworkCheck
  <2>2. p.best \in Seq(Node) /\ p.fatal \subseteq Urls
    BY <1>4, OutcomeIsSound
  <2> DEFINE r == [req[o] EXCEPT !.pc = "store", !.best = p.best]
  <2>3. r \in Request /\ RequestOK(o, r)
    BY <1>1, <1>3, <2>2 DEF Request, RequestOK
  <2>4. Step(o, r) \/ Step(o, NextCfg(o)) \/ Step(o, Ended("refused"))
    BY <2>1
  <2> QED
    BY <1>6, <1>7, <1>9, <2>1, <2>2, <2>3, <2>4, GrowCases, RequestTyped DEF AddNetworkCheck
<1>10. CASE AddNetworkStore(o)
  <2>1. Grow
    BY <1>3, <1>4, <1>10, AddNetworkEffect DEF AddNetworkStore, Grow
  <2> QED
    BY <1>7, <1>10, <2>1, RequestTyped DEF AddNetworkStore
<1> QED
  BY <1>8, <1>9, <1>10

\* What a handler that goes through an advert holds on to.
LEMMA HandlerFields ==
    ASSUME Typed, NEW m \in Msgs
    PROVE  LET g == gossip[m]
           IN  /\ g \in Handler /\ HandlerOK(m, g)
               /\ g.i \in Nat /\ g.i >= 1
               /\ g.plan \in Seq(Node) /\ g.held \in Seq(DiscoveredNode)
               /\ g.ptr \in [Nets -> Nat]
               /\ g.pc \in {"cap", "load", "write"} =>
                     g.i \in 1..Len(m.adverts) /\ AdvertNet(m) \in Nets
<1> DEFINE g == gossip[m]
<1>1. g \in Handler /\ HandlerOK(m, g)
  BY DEF Typed, TypeOK, PointersOK
<1>2. /\ g.i \in Nat /\ g.i >= 1
      /\ g.plan \in Seq(Node) /\ g.held \in Seq(DiscoveredNode)
      /\ g.ptr \in [Nets -> Nat]
  BY <1>1 DEF Handler, HandlerOK
<1>3. ASSUME g.pc \in {"cap", "load", "write"}
      PROVE  g.i \in 1..Len(m.adverts) /\ AdvertNet(m) \in Nets
  <2>1. Len(m.adverts) \in Nat
    BY ControlPlaneAssumption DEF Messages
  <2>2. g.i \in 1..Len(m.adverts)
    BY <1>1, <1>2, <1>3, <2>1 DEF HandlerOK
  <2> QED
    BY <2>2, MsgFields DEF AdvertNet
<1> QED
  BY <1>1, <1>2, <1>3

\* The list a gossip handler reads and writes through its pointer.
LEMMA DiscoveredObject ==
    ASSUME Typed, NEW m \in Msgs, gossip[m].pc \in {"cap", "load", "write"},
           gossip[m].plan # <<>>
    PROVE  LET x == [net |-> AdvertNet(m), ptr |-> gossip[m].ptr[AdvertNet(m)]]
           IN  /\ x \in Objects /\ Valid(x)
               /\ Obj(x).disc = Discovered(m)
               /\ Discovered(m) \in Seq(DiscoveredNode)
<1> DEFINE x == [net |-> AdvertNet(m), ptr |-> gossip[m].ptr[AdvertNet(m)]]
<1>1. AdvertNet(m) \in Nets /\ gossip[m].ptr[AdvertNet(m)] \in Nat
  BY HandlerFields
<1>2. HandlerOK(m, gossip[m])
  BY HandlerFields
<1>3. Len(State[AdvertNet(m)]) \in Nat
  BY <1>1 DEF Typed, TypeOK, RegistryTypeOK
<1>4. x.ptr >= 1 /\ x.ptr <= Len(State[AdvertNet(m)])
  BY <1>1, <1>2 DEF HandlerOK, AdvertNet
<1>5. x \in Objects /\ Valid(x)
  BY <1>1, <1>3, <1>4 DEF Objects, Valid
<1>6. Obj(x).disc \in Seq(DiscoveredNode)
  BY <1>5, ObjType DEF Typed, TypeOK
<1> QED
  BY <1>5, <1>6 DEF Obj, Discovered

\* The gossip handler's write, to the object its snapshot points at.
LEMMA WriteEffect ==
    ASSUME Typed, NEW m \in Msgs, GossipWrite(m)
    PROVE  \E x \in Objects, d \in DiscoveredNode :
              /\ Append(gossip[m].held, d) \in Seq(DiscoveredNode)
              /\ Valid(x) /\ Only(x, [Obj(x) EXCEPT !.disc = Append(gossip[m].held, d)])
<1> DEFINE g   == gossip[m]
           x   == [net |-> AdvertNet(m), ptr |-> g.ptr[AdvertNet(m)]]
           d   == [node |-> Head(g.plan), expires |-> now + TTL]
           new == Append(g.held, d)
           st  == [Obj(x) EXCEPT !.disc = new]
<1>1. g.pc = "write" /\ g.plan # <<>> /\ g.plan \in Seq(Node) /\ g.held \in Seq(DiscoveredNode)
  BY HandlerFields DEF GossipWrite, HandlerOK
<1>2. x \in Objects /\ Valid(x)
  BY <1>1, DiscoveredObject
<1>3. Head(g.plan) \in Node
  BY <1>1
<1>4. now + TTL \in Nat
  BY ControlPlaneAssumption DEF Typed, TypeOK
<1>5. d \in DiscoveredNode
  BY <1>3, <1>4 DEF DiscoveredNode
<1>6. new \in Seq(DiscoveredNode)
  BY <1>1, <1>5
<1>7. State' = [State EXCEPT ![x.net] = [State[x.net] EXCEPT ![x.ptr] = st]]
  BY DEF GossipWrite, Obj
<1>8. RegistryTypeOK
  BY DEF Typed, TypeOK
<1> HIDE DEF new, d, x
<1>9. st \in NetworkState
  BY <1>2, <1>6, <1>8, ObjType DEF NetworkState
<1> HIDE DEF st
<1>10. Only(x, st)
  BY <1>2, <1>7, <1>8, <1>9, WriteOne DEF Only
<1> QED
  BY <1>2, <1>5, <1>6, <1>10 DEF st, new

LEMMA PlanIsList ==
    ASSUME Typed, NEW m \in Msgs, NEW i \in 1..Len(m.adverts)
    PROVE  /\ Plan(m, m.adverts[i]) \in Seq(Node)
           /\ Plan(m, m.adverts[i]) # <<>> => gossip[m].ptr[m.adverts[i].net] >= 1
<1> DEFINE adv == m.adverts[i]
           ptr == gossip[m].ptr[adv.net]
           I   == {k \in DOMAIN adv.nodes :
                     adv.nodes[k].url \notin UrlsOf(Elements(State[adv.net][ptr].all))}
<1>1. adv.net \in Nets /\ adv.nodes \in Seq(Node)
  BY MsgFields
<1>2. ptr \in Nat
  BY <1>1, HandlerFields
<1>3. Plan(m, adv) = IF ptr = 0 THEN <<>> ELSE Repeated(Kept(adv.nodes, I))
  BY DEF Plan
<1>4. Kept(adv.nodes, I) \in Seq(Node)
  BY <1>1, KeptIsList
<1>5. Repeated(Kept(adv.nodes, I)) \in Seq(Node)
  BY <1>4, RepeatedIsList
<1> HIDE DEF ptr, I, adv
<1>6. Plan(m, adv) \in Seq(Node) /\ (Plan(m, adv) # <<>> => ptr >= 1)
  BY <1>2, <1>3, <1>5
<1> QED
  BY <1>6 DEF adv, ptr

LEMMA GossipTyped == Typed /\ (\E m \in Msgs : GossipStep(m)) => Typed'
<1> SUFFICES ASSUME Typed, NEW m \in Msgs, GossipStep(m) PROVE Typed'
  OBVIOUS
<1> DEFINE g == gossip[m]
<1>1. /\ g \in Handler /\ HandlerOK(m, g)
      /\ g.i \in Nat /\ g.i >= 1
      /\ g.plan \in Seq(Node) /\ g.held \in Seq(DiscoveredNode)
      /\ g.ptr \in [Nets -> Nat]
      /\ g.pc \in {"cap", "load", "write"} => g.i \in 1..Len(m.adverts) /\ AdvertNet(m) \in Nets
  BY HandlerFields
<1>2. RegistryTypeOK
  BY DEF Typed, TypeOK
<1>3. UNCHANGED State => Grow
  BY <1>2, GrowCases
<1>4. CASE GossipBegin(m)
  <2> DEFINE p  == [net \in Nets |-> Pointer(net)]
             g2 == [g EXCEPT !.pc = "advert", !.ptr = p]
  <2>1. \A net \in Nets : Pointer(net) \in Nat /\ Pointer(net) = Len(State[net])
    BY <1>2 DEF RegistryTypeOK, Pointer
  <2>2. p \in [Nets -> Nat]
    BY <2>1
  <2>3. \A net \in Nets : p[net] <= Len(State[net])
    BY <2>1
  <2> HIDE DEF p
  <2>4. g2 \in Handler /\ g2.pc = "advert" /\ g2.ptr = p /\ g2.i = g.i
    BY <1>1, <2>2 DEF Handler
  <2>5. Handle(m, g2) /\ UNCHANGED State
    BY <1>4 DEF GossipBegin, p
  <2> HIDE DEF g2
  <2>6. HandlerOK(m, g2)
    BY <1>1, <2>3, <2>4 DEF HandlerOK
  <2> QED
    BY <1>3, <2>4, <2>5, <2>6, HandlerTyped
<1>5. CASE GossipAdvert(m)
  <2>1. CASE g.i > Len(m.adverts)
    <3> DEFINE g2 == [Undelivered EXCEPT !.pc = "done"]
    <3>1. g2 = [pc |-> "done", i |-> 1, ptr |-> [net \in Nets |-> 0], plan |-> <<>>, held |-> <<>>]
      BY DEF Undelivered
    <3>2. Handle(m, g2) /\ UNCHANGED State
      BY <1>5, <2>1 DEF GossipAdvert
    <3>3. <<>> \in Seq(Node) /\ <<>> \in Seq(DiscoveredNode)
      OBVIOUS
    <3> HIDE DEF g2
    <3>4. g2 \in Handler
      BY <3>1, <3>3 DEF Handler
    <3>5. \A net \in Nets : 0 <= Len(State[net])
      BY <1>2 DEF RegistryTypeOK
    <3>6. HandlerOK(m, g2)
      BY <3>1, <3>5 DEF HandlerOK
    <3> QED
      BY <1>3, <3>2, <3>4, <3>6, HandlerTyped
  <2>2. CASE ~(g.i > Len(m.adverts))
    <3> DEFINE plan == Plan(m, m.adverts[g.i])
               g2   == [g EXCEPT !.pc = "cap", !.plan = plan]
    <3>1. Len(m.adverts) \in Nat
      BY ControlPlaneAssumption DEF Messages
    <3>2. g.i \in 1..Len(m.adverts)
      BY <1>1, <2>2, <3>1
    <3>3. plan \in Seq(Node) /\ (plan # <<>> => g.ptr[m.adverts[g.i].net] >= 1)
      BY <3>2, PlanIsList
    <3>4. Handle(m, g2) /\ UNCHANGED State
      BY <1>5, <2>2 DEF GossipAdvert
    <3> HIDE DEF plan
    <3>5. g2 \in Handler /\ g2.pc = "cap" /\ g2.ptr = g.ptr /\ g2.i = g.i /\ g2.plan = plan
      BY <1>1, <3>3 DEF Handler
    <3> HIDE DEF g2
    <3>6. HandlerOK(m, g2)
      BY <1>1, <3>1, <3>2, <3>3, <3>5 DEF HandlerOK
    <3> QED
      BY <1>3, <3>4, <3>5, <3>6, HandlerTyped
  <2> QED
    BY <2>1, <2>2
<1>6. CASE GossipCap(m)
  <2>1. CASE g.plan = <<>>
    <3> DEFINE g2 == [g EXCEPT !.pc = "advert", !.i = @ + 1]
    <3>1. Handle(m, g2) /\ UNCHANGED State
      BY <1>6, <2>1 DEF GossipCap
    <3>2. g2 \in Handler /\ g2.pc = "advert" /\ g2.ptr = g.ptr /\ g2.i = g.i + 1
      <4>1. g.i + 1 \in Nat
        BY <1>1
      <4>2. g2 = [g EXCEPT !.pc = "advert", !.i = g.i + 1]
        OBVIOUS
      <4> QED
        BY <1>1, <4>1, <4>2 DEF Handler
    <3> HIDE DEF g2
    <3>3. HandlerOK(m, g2)
      BY <1>1, <3>2 DEF HandlerOK
    <3> QED
      BY <1>3, <3>1, <3>2, <3>3, HandlerTyped
  <2>2. CASE g.plan # <<>> /\ Len(Discovered(m)) >= MaxDiscovered
    <3> DEFINE g2 == [g EXCEPT !.plan = Tail(@)]
    <3>1. g.pc = "cap"
      BY <1>6 DEF GossipCap
    <3>2. Handle(m, g2) /\ UNCHANGED State
      BY <1>6, <2>2 DEF GossipCap
    <3>3. Tail(g.plan) \in Seq(Node)
      BY <1>1, <2>2
    <3>4. g2 \in Handler /\ g2.pc = "cap" /\ g2.ptr = g.ptr /\ g2.i = g.i
      BY <1>1, <3>1, <3>3 DEF Handler
    <3> HIDE DEF g2
    <3>5. HandlerOK(m, g2)
      BY <1>1, <2>2, <3>1, <3>4 DEF HandlerOK
    <3> QED
      BY <1>3, <3>2, <3>4, <3>5, HandlerTyped
  <2>3. CASE g.plan # <<>> /\ ~(Len(Discovered(m)) >= MaxDiscovered)
    <3> DEFINE g2 == [g EXCEPT !.pc = "load"]
    <3>1. g.pc = "cap"
      BY <1>6 DEF GossipCap
    <3>2. Handle(m, g2) /\ UNCHANGED State
      BY <1>6, <2>3 DEF GossipCap
    <3>3. g2 \in Handler /\ g2.pc = "load" /\ g2.ptr = g.ptr /\ g2.i = g.i /\ g2.plan = g.plan
      BY <1>1 DEF Handler
    <3> HIDE DEF g2
    <3>4. HandlerOK(m, g2)
      BY <1>1, <2>3, <3>1, <3>3 DEF HandlerOK
    <3> QED
      BY <1>3, <3>2, <3>3, <3>4, HandlerTyped
  <2> QED
    BY <2>1, <2>2, <2>3
<1>7. CASE GossipLoad(m)
  <2> DEFINE g2 == [g EXCEPT !.pc = "write", !.held = Discovered(m)]
  <2>1. g.pc = "load" /\ g.plan # <<>>
    BY <1>1, <1>7 DEF GossipLoad, HandlerOK
  <2>2. Discovered(m) \in Seq(DiscoveredNode)
    BY <2>1, DiscoveredObject
  <2>3. Handle(m, g2) /\ UNCHANGED State
    BY <1>7 DEF GossipLoad
  <2>4. g2 \in Handler /\ g2.pc = "write" /\ g2.ptr = g.ptr /\ g2.i = g.i /\ g2.plan = g.plan
    BY <1>1, <2>2 DEF Handler
  <2> HIDE DEF g2
  <2>5. HandlerOK(m, g2)
    BY <1>1, <2>1, <2>4 DEF HandlerOK
  <2> QED
    BY <1>3, <2>3, <2>4, <2>5, HandlerTyped
<1>8. CASE GossipWrite(m)
  <2> DEFINE g2 == [g EXCEPT !.pc = "cap", !.plan = Tail(@), !.held = <<>>]
  <2>1. g.pc = "write" /\ g.plan # <<>>
    BY <1>1, <1>8 DEF GossipWrite, HandlerOK
  <2>2. Tail(g.plan) \in Seq(Node) /\ <<>> \in Seq(DiscoveredNode)
    BY <1>1, <2>1
  <2>3. Handle(m, g2)
    BY <1>8 DEF GossipWrite
  <2>4. Grow
    BY <1>2, <1>8, WriteEffect, GrowCases
  <2>5. g2 \in Handler /\ g2.pc = "cap" /\ g2.ptr = g.ptr /\ g2.i = g.i
    BY <1>1, <2>2 DEF Handler
  <2> HIDE DEF g2
  <2>6. HandlerOK(m, g2)
    BY <1>1, <2>1, <2>5 DEF HandlerOK
  <2> QED
    BY <2>3, <2>4, <2>5, <2>6, HandlerTyped
<1> QED
  BY <1>4, <1>5, <1>6, <1>7, <1>8 DEF GossipStep

LEMMA NextTyped == Typed /\ [Next]_vars => Typed'
<1> SUFFICES ASSUME Typed, [Next]_vars PROVE Typed'
  OBVIOUS
<1>1. CASE HealthStep
  BY <1>1, HealthTyped
<1>2. ASSUME NEW o \in Ops, AdminStep(o) PROVE Typed'
  BY <1>2, AddNodeTyped, DeleteTyped, AddNetworkTyped DEF AdminStep
<1>3. ASSUME NEW m \in Msgs, GossipStep(m) PROVE Typed'
  BY <1>3, GossipTyped
<1>4. CASE Advance
  BY <1>4, GrowCases, QuietTyped, ControlPlaneAssumption DEF Advance, Typed, TypeOK
<1>5. CASE UNCHANGED vars
  <2>1. TypeOK'
    BY <1>5 DEF vars, Typed, TypeOK, RegistryTypeOK
  <2>2. PointersOK'
    BY <1>5 DEF vars, Typed, PointersOK, WorkerOK, RequestOK, HandlerOK
  <2> QED
    BY <2>1, <2>2 DEF Typed
<1> QED
  BY <1>1, <1>2, <1>3, <1>4, <1>5 DEF Next

\* Every value has its type and every pointer a goroutine or a handler holds
\* is to an object that exists: the control plane never dereferences the nil
\* a missing network would give, nor an index outside a request's list.
THEOREM TypeCorrect == Spec => [](TypeOK /\ PointersOK)
<1>1. Init => Typed
  BY InitTyped
<1>2. Typed /\ [Next]_vars => Typed'
  BY NextTyped
<1> QED
  BY <1>1, <1>2, PTL DEF Spec, Typed

=============================================================================
