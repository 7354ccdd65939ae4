---------------------------- MODULE ServedProofs -----------------------------
(***************************************************************************)
(* What reaches the failover lists, for every set of networks, nodes,      *)
(* requests and messages.  One lemma says where the value of a Best list   *)
(* can come from in any step (BestMoves), another how a request comes by   *)
(* the list it is about to store (RequestMoves); the theorems follow from  *)
(* what each of those sources gives.                                       *)
(*                                                                         *)
(* Then what the rounds are good for: they keep drops and reads apart      *)
(* (NeverPanics), so that what a check was given is still known when its   *)
(* answer is published (ServedKnown), and ControlPlane without requests    *)
(* implements RoutingTable (Implements).  Last, the cap on what a network  *)
(* may discover (DiscoveredCapped).                                        *)
(***************************************************************************)
EXTENDS ControlPlaneProofs

\* The Best list of object x after a step is one of: what it was; that
\* without one URL; the answer of a health check; the list a request stored;
\* what it was and the node an AddNode request found alive.
Moved(x) ==
    \/ Valid(x) /\ Obj(x).best' = Obj(x).best
    \/ Valid(x) /\ \E url \in Urls : Obj(x).best' = Without(Obj(x).best, url)
    \/ \E net \in Nets : \E r \in Outcomes(worker[net].nodes) : Obj(x).best' = r.best
    \/ \E o \in Ops : Obj(x).best' = req[o].best
    \/ Valid(x) /\ \E o \in Ops : /\ o.op = "AddNode" /\ req[o].pc = "serve"
                                  /\ Obj(x).best' = Append(Obj(x).best, o.node)

\* The list a request holds after a step: what it held, nothing, an object's
\* Best without a URL, or the answer of a check.
RequestMoved(o) ==
    \/ req'[o].best = req[o].best
    \/ req'[o].best = <<>>
    \/ \E x \in Objects, url \in Urls : Valid(x) /\ req'[o].best = Without(Obj(x).best, url)
    \/ \E nodes \in Seq(Node) : \E r \in Outcomes(nodes) : req'[o].best = r.best

LEMMA ListsTyped ==
    ASSUME Typed
    PROVE  /\ RegistryTypeOK
           /\ \A net \in Nets : worker[net].nodes \in Seq(Node)
           /\ \A o \in Ops : req[o] \in Request /\ req[o].best \in Seq(Node)
<1> USE DEF Typed, TypeOK
<1>1. \A net \in Nets : worker[net] \in Worker
  OBVIOUS
<1>2. \A o \in Ops : req[o] \in Request
  OBVIOUS
<1>3. \A g \in Worker : g.nodes \in Seq(Node)
  BY DEF Worker
<1>4. \A r \in Request : r.best \in Seq(Node)
  BY DEF Request
<1> QED
  BY <1>1, <1>2, <1>3, <1>4

\* A write that leaves Best alone, and one that sets it.
LEMMA OnlyMoves ==
    ASSUME RegistryTypeOK, NEW w \in Objects, Valid(w), NEW st, Only(w, st), NEW x \in Objects, Valid(x)'
    PROVE  Valid(x) /\ Obj(x).best' = IF x = w THEN st.best ELSE Obj(x).best
BY DEF Only

LEMMA EachMoves ==
    ASSUME RegistryTypeOK, NEW F, EachBy([st \in NetworkState |-> F[st]]), NEW x \in Objects, Valid(x)'
    PROVE  /\ Valid(x) /\ Obj(x) \in NetworkState
           /\ Obj(x)' = Obj(x) \/ Obj(x)' = F[Obj(x)]
<1>1. Valid(x)
  BY DEF EachBy
<1>2. Obj(x) \in NetworkState
  BY <1>1, ObjType
<1> QED
  BY <1>1, <1>2 DEF EachBy

LEMMA BestMoves ==
    ASSUME Typed, [Next]_vars, NEW x \in Objects, Valid(x)'
    PROVE  Moved(x)
<1>1. RegistryTypeOK /\ \A o \in Ops : req[o].best \in Seq(Node)
  BY ListsTyped
<1>2. ASSUME UNCHANGED State PROVE Moved(x)
  BY <1>2 DEF Moved, Valid, Obj
<1>3. ASSUME NEW net \in Nets, NEW best \in Seq(Node), SetBest(net, best)
      PROVE  Valid(x) /\ (Obj(x).best' = Obj(x).best \/ Obj(x).best' = best)
  <2>1. CASE UNCHANGED State
    BY <2>1 DEF Valid, Obj
  <2> DEFINE w == Ref(net)  st == [Obj(w) EXCEPT !.best = best]
  <2>2. CASE Exists(net) /\ Only(w, st)
    <3>1. w \in Objects /\ Valid(w)
      BY <1>1, <2>2, CurrentIsValid
    <3>2. Obj(w) \in NetworkState
      BY <1>1, <3>1, ObjType
    <3>3. st.best = best
      BY <3>2 DEF NetworkState
    <3> HIDE DEF w, st
    <3> QED
      BY <1>1, <2>2, <3>1, <3>3, OnlyMoves
  <2> QED
    BY <1>1, <1>3, <2>1, <2>2, SetBestEffect
<1>4. CASE HealthStep
  <2>1. ASSUME NEW net \in Nets, PickLimiter(net) \/ ReadFirst(net) \/ StartCheck(net) PROVE Moved(x)
    BY <1>2, <2>1 DEF PickLimiter, ReadFirst, StartCheck
  <2>2. ASSUME NEW net \in Nets, Publish(net) PROVE Moved(x)
    <3>1. PICK r \in Outcomes(worker[net].nodes) : SetBest(net, r.best)
      BY <2>2 DEF Publish
    <3>2. r.best \in Seq(Node)
      BY ListsTyped, OutcomeIsSound
    <3> QED
      BY <1>3, <3>1, <3>2 DEF Moved
  <2>3. CASE Booted \/ Spawn \/ Drain \/ RoundDone
    BY <1>2, <2>3 DEF Booted, Spawn, Drain, RoundDone
  <2>4. CASE Tick
    <3> DEFINE F == [st \in NetworkState |-> PrunedAndMerged(st, now)]
    <3>1. EachBy(F)
      BY <1>1, <2>4, PruneEffect DEF Tick
    <3>2. Valid(x) /\ Obj(x) \in NetworkState /\ (Obj(x)' = Obj(x) \/ Obj(x)' = F[Obj(x)])
      BY <1>1, <3>1, EachMoves
    <3>3. Obj(x)'.best = Obj(x).best
      BY <3>2, MergedState
    <3> QED
      BY <3>2, <3>3 DEF Moved
  <2>5. ASSUME NEW url \in Urls, Drop(url) PROVE Moved(x)
    <3> DEFINE F == [st \in NetworkState |-> Removed(st, url)]
    <3>1. EachBy(F)
      BY <1>1, <2>5, RemoveEffect DEF Drop
    <3>2. Valid(x) /\ Obj(x) \in NetworkState /\ (Obj(x)' = Obj(x) \/ Obj(x)' = F[Obj(x)])
      BY <1>1, <3>1, EachMoves
    <3>3. Obj(x)'.best = Obj(x).best \/ Obj(x)'.best = Without(Obj(x).best, url)
      BY <3>2 DEF Removed
    <3> QED
      BY <3>2, <3>3 DEF Moved
  <2> QED
    BY <1>4, <2>1, <2>2, <2>3, <2>4, <2>5 DEF HealthStep
<1>5. ASSUME NEW o \in Ops, AdminStep(o) PROVE Moved(x)
  <2>1. CASE \/ AddNodeBegin(o) \/ AddNodeCheck(o) \/ DeleteBegin(o) \/ DeleteReadBest(o)
             \/ DeleteReadAll(o) \/ AddNetworkBegin(o) \/ AddNetworkCheck(o)
    BY <1>2, <2>1 DEF AddNodeBegin, AddNodeCheck, DeleteBegin, DeleteReadBest, DeleteReadAll,
                      AddNetworkBegin, AddNetworkCheck
  <2>2. CASE AddNodeStore(o)
    <3>1. o.net \in Nets /\ o.node \in Node /\ AddNode(o.net, o.node)
      BY <2>2, OpFields DEF AddNodeStore
    <3> DEFINE w == Ref(o.net)  st == [Obj(w) EXCEPT !.all = Append(@, o.node)]
    <3>2. CASE Exists(o.net) /\ Only(w, st)
      <4>1. w \in Objects /\ Valid(w)
        BY <1>1, <3>1, <3>2, CurrentIsValid
      <4>2. st.best = Obj(w).best
        OBVIOUS
      <4> HIDE DEF w, st
      <4> QED
        BY <1>1, <3>2, <4>1, <4>2, OnlyMoves DEF Moved
    <3> QED
      BY <1>1, <1>2, <3>1, <3>2, AddNodeEffect
  <2>3. CASE AddNodeServe(o)
    <3>1. /\ o.op = "AddNode" /\ req[o].pc = "serve"
          /\ o.net \in Nets /\ o.node \in Node /\ AppendBest(o.net, o.node)
      BY <2>3, OpFields DEF AddNodeServe
    <3> DEFINE w == Ref(o.net)  st == [Obj(w) EXCEPT !.best = Append(@, o.node)]
    <3>2. CASE Exists(o.net) /\ Only(w, st)
      <4>1. w \in Objects /\ Valid(w)
        BY <1>1, <3>1, <3>2, CurrentIsValid
      <4>2. Obj(w) \in NetworkState
        BY <1>1, <4>1, ObjType
      <4>3. st.best = Append(Obj(w).best, o.node)
        BY <4>2 DEF NetworkState
      <4> HIDE DEF w, st
      <4> QED
        BY <1>1, <3>1, <3>2, <4>1, <4>3, OnlyMoves DEF Moved
    <3> QED
      BY <1>1, <1>2, <3>1, <3>2, AppendBestEffect
  <2>4. CASE DeleteSetBest(o)
    <3>1. o.net \in Nets /\ SetBest(o.net, req[o].best)
      BY <2>4, OpFields DEF DeleteSetBest
    <3> QED
      BY <1>1, <1>3, <3>1 DEF Moved
  <2>5. CASE DeleteSetAll(o)
    <3> DEFINE w == Ref(o.net)  st == [Obj(w) EXCEPT !.all = req[o].all]
    <3>1. o.net \in Nets /\ Exists(o.net) /\ Only(w, st)
      BY <2>5, SetAllEffect, OpFields DEF DeleteSetAll
    <3>2. w \in Objects /\ Valid(w)
      BY <1>1, <3>1, CurrentIsValid
    <3>3. st.best = Obj(w).best
      OBVIOUS
    <3> HIDE DEF w, st
    <3> QED
      BY <1>1, <3>1, <3>2, <3>3, OnlyMoves DEF Moved
  <2>6. CASE AddNetworkStore(o)
    <3>1. /\ Cfg(o).net \in Nets /\ Cfg(o).nodes \in Seq(Node)
          /\ AddNetwork(Cfg(o).net, Cfg(o).nodes, req[o].best)
      BY <2>6, CfgFields DEF AddNetworkStore
    <3>2. \/ Valid(x) /\ Obj(x)' = Obj(x)
          \/ Obj(x)' = NewState(Cfg(o).nodes, req[o].best)
      BY <1>1, <3>1, AddNetworkEffect
    <3>3. NewState(Cfg(o).nodes, req[o].best).best = req[o].best
      BY DEF NewState
    <3> QED
      BY <3>2, <3>3 DEF Moved
  <2> QED
    BY <1>5, <2>1, <2>2, <2>3, <2>4, <2>5, <2>6 DEF AdminStep
<1>6. ASSUME NEW m \in Msgs, GossipStep(m) PROVE Moved(x)
  <2>1. CASE GossipBegin(m) \/ GossipAdvert(m) \/ GossipCap(m) \/ GossipLoad(m)
    BY <1>2, <2>1 DEF GossipBegin, GossipAdvert, GossipCap, GossipLoad
  <2>2. CASE GossipWrite(m)
    <3> PICK w \in Objects, disc \in Seq(DiscoveredNode) :
          Valid(w) /\ Only(w, [Obj(w) EXCEPT !.disc = disc])
      BY <2>2, WriteEffect
    <3> DEFINE st == [Obj(w) EXCEPT !.disc = disc]
    <3>1. st.best = Obj(w).best
      OBVIOUS
    <3> HIDE DEF st
    <3> QED
      BY <1>1, <3>1, OnlyMoves DEF Moved, st
  <2> QED
    BY <1>6, <2>1, <2>2 DEF GossipStep
<1>7. CASE Advance \/ UNCHANGED vars
  BY <1>2, <1>7 DEF Advance, vars
<1> QED
  BY <1>4, <1>5, <1>6, <1>7 DEF Next

\* One request moves in a step, the others hold what they held.
LEMMA StepWrites ==
    ASSUME Typed, NEW o \in Ops, NEW r, Step(o, r), NEW p \in Ops
    PROVE  req'[p] = IF p = o THEN r ELSE req[p]
BY DEF Typed, TypeOK, Step

\* A step of the handler of an AddNode request gets past the check only if
\* the node passed it.
LEMMA RequestMoves ==
    ASSUME Typed, [Next]_vars, NEW p \in Ops
    PROVE  /\ RequestMoved(p)
           /\ p.op = "AddNode" /\ req'[p].pc \in {"store", "serve"} =>
                 \/ req[p].pc \in {"store", "serve"}
                 \/ \E r \in Outcomes(<<p.node>>) : r.best # <<>>
<1> DEFINE Passed == p.op = "AddNode" /\ req'[p].pc \in {"store", "serve"} =>
                        \/ req[p].pc \in {"store", "serve"}
                        \/ \E r \in Outcomes(<<p.node>>) : r.best # <<>>
<1>1. ASSUME req'[p] = req[p] PROVE RequestMoved(p) /\ Passed
  BY <1>1 DEF RequestMoved
<1>2. ASSUME NEW o \in Ops, NEW r \in Request, Step(o, r), r.pc \notin {"store", "serve"},
             r.best = <<>> \/ r.best = req[o].best
      PROVE  RequestMoved(p) /\ Passed
  BY <1>1, <1>2, StepWrites DEF RequestMoved
<1>3. ASSUME NEW pc \in {"done", "refused"}
      PROVE  Ended(pc) \in Request /\ Ended(pc).pc = pc /\ Ended(pc).best = <<>>
  BY EndedFields
<1>4. \A o \in Ops : req[o] \in Request
  BY ListsTyped
<1>5. ASSUME NEW o \in Ops, NEW pc \in {"check", "store", "serve", "best", "setBest", "all", "setAll"},
             NEW r, r = [req[o] EXCEPT !.pc = pc]
      PROVE  r \in Request /\ r.pc = pc /\ r.best = req[o].best
  BY <1>4, <1>5 DEF Request
<1>6. CASE HealthStep \/ (\E m \in Msgs : GossipStep(m)) \/ Advance \/ UNCHANGED vars
  <2>1. UNCHANGED req
    BY <1>6 DEF HealthStep, PickLimiter, ReadFirst, StartCheck, Publish, Booted, Tick, Spawn, Drain,
                RoundDone, Drop, GossipStep, GossipBegin, GossipAdvert, GossipCap, GossipLoad,
                GossipWrite, Handle, Advance, vars
  <2> QED
    BY <1>1, <2>1
<1>7. ASSUME NEW o \in Ops, AdminStep(o) PROVE RequestMoved(p) /\ Passed
  <2>1. CASE AddNodeBegin(o)
    <3> DEFINE r == [req[o] EXCEPT !.pc = "check"]
    <3>1. Step(o, r) \/ Step(o, Ended("refused"))
      BY <2>1 DEF AddNodeBegin
    <3>2. r \in Request /\ r.pc = "check" /\ r.best = req[o].best
      BY <1>5
    <3> HIDE DEF r
    <3> QED
      BY <1>2, <1>3, <3>1, <3>2
  <2>2. CASE AddNodeCheck(o)
    <3> DEFINE r == [req[o] EXCEPT !.pc = "store"]
    <3>1. PICK a \in Outcomes(<<o.node>>) :
             Step(o, IF a.best = <<>> THEN Ended("refused") ELSE r)
      BY <2>2 DEF AddNodeCheck
    <3>2. CASE a.best = <<>>
      BY <1>2, <1>3, <3>1, <3>2
    <3>3. CASE a.best # <<>>
      <4>1. Step(o, r) /\ r.best = req[o].best
        BY <1>5, <3>1, <3>3
      <4> HIDE DEF r
      <4>2. req'[p] = IF p = o THEN r ELSE req[p]
        BY <4>1, StepWrites
      <4> QED
        BY <3>3, <4>1, <4>2 DEF RequestMoved
    <3> QED
      BY <3>2, <3>3
  <2>3. CASE AddNodeStore(o)
    <3> DEFINE r == [req[o] EXCEPT !.pc = "serve"]
    <3>1. Step(o, r) /\ r.best = req[o].best /\ req[o].pc = "store"
      BY <1>5, <2>3 DEF AddNodeStore
    <3> HIDE DEF r
    <3>2. req'[p] = IF p = o THEN r ELSE req[p]
      BY <3>1, StepWrites
    <3> QED
      BY <3>1, <3>2 DEF RequestMoved
  <2>4. CASE AddNodeServe(o) \/ DeleteSetAll(o)
    BY <1>2, <1>3, <2>4 DEF AddNodeServe, DeleteSetAll
  <2>5. CASE DeleteBegin(o)
    <3> DEFINE r == [req[o] EXCEPT !.pc = "best", !.ptr = Pointer(o.net)]
    <3>1. Step(o, r) \/ Step(o, Ended("refused"))
      BY <2>5 DEF DeleteBegin
    <3>2. r.pc = "best" /\ r.best = req[o].best
      BY <1>4 DEF Request
    <3> HIDE DEF r
    <3>3. Step(o, r) => req'[p] = IF p = o THEN r ELSE req[p]
      BY StepWrites
    <3> QED
      BY <1>2, <1>3, <3>1, <3>2, <3>3 DEF RequestMoved
  <2>6. CASE DeleteReadBest(o)
    <3> DEFINE x == [net |-> o.net, ptr |-> req[o].ptr]
               r == [req[o] EXCEPT !.pc = "setBest", !.best = Without(State[o.net][req[o].ptr].best, o.url)]
    <3>1. x \in Objects /\ Valid(x) /\ o.url \in Urls /\ o.op = "DeleteNode"
      BY <2>6, DeleteObject, OpFields DEF DeleteReadBest
    <3>2. Step(o, r) /\ r.pc = "setBest" /\ r.best = Without(Obj(x).best, o.url)
      BY <1>4, <2>6 DEF DeleteReadBest, Request, Obj
    <3> HIDE DEF r, x
    <3>3. req'[p] = IF p = o THEN r ELSE req[p]
      BY <3>2, StepWrites
    <3> QED
      BY <3>1, <3>2, <3>3 DEF RequestMoved
  <2>7. CASE DeleteSetBest(o)
    <3> DEFINE r == [req[o] EXCEPT !.pc = "all", !.best = <<>>]
    <3>1. Step(o, r) /\ r.pc = "all" /\ r.best = <<>>
      BY <1>4, <2>7 DEF DeleteSetBest, Request
    <3> HIDE DEF r
    <3>2. req'[p] = IF p = o THEN r ELSE req[p]
      BY <3>1, StepWrites
    <3> QED
      BY <3>1, <3>2 DEF RequestMoved
  <2>8. CASE DeleteReadAll(o)
    <3> DEFINE r == [req[o] EXCEPT !.pc = "setAll", !.all = Without(State[o.net][req[o].ptr].all, o.url)]
    <3>1. Step(o, r) /\ r.pc = "setAll" /\ r.best = req[o].best
      BY <1>4, <2>8 DEF DeleteReadAll, Request
    <3> HIDE DEF r
    <3>2. req'[p] = IF p = o THEN r ELSE req[p]
      BY <3>1, StepWrites
    <3> QED
      BY <3>1, <3>2 DEF RequestMoved
  <2>9. NextCfg(o).best = <<>> /\ NextCfg(o).pc \notin {"store", "serve"}
    BY <1>3 DEF NextCfg, Waiting
  <2>10. CASE AddNetworkBegin(o)
    <3> DEFINE r == [req[o] EXCEPT !.pc = "check"]
    <3>1. PICK q \in {r, NextCfg(o), Ended("refused")} : Step(o, q)
      BY <2>10 DEF AddNetworkBegin
    <3>2. r.pc = "check" /\ r.best = req[o].best
      BY <1>5
    <3>3. q.pc \notin {"store", "serve"} /\ (q.best = <<>> \/ q.best = req[o].best)
      BY <1>3, <2>9, <3>1, <3>2
    <3>4. req'[p] = IF p = o THEN q ELSE req[p]
      BY <3>1, StepWrites
    <3> HIDE DEF r
    <3> QED
      BY <3>3, <3>4 DEF RequestMoved
  <2>11. CASE AddNetworkCheck(o)
    <3>1. PICK a \in Outcomes(Cfg(o).nodes) :
             Step(o, IF a.best # <<>>
                     THEN [req[o] EXCEPT !.pc = "store", !.best = a.best]
                     ELSE IF IsBulk(o) THEN NextCfg(o) ELSE Ended("refused"))
      BY <2>11 DEF AddNetworkCheck
    <3> DEFINE r == [req[o] EXCEPT !.pc = "store", !.best = a.best]
    <3>2. o.op # "AddNode" /\ Cfg(o).nodes \in Seq(Node)
      BY <2>11, CfgFields DEF AddNetworkCheck
    <3>3. r.best = a.best
      BY <1>4 DEF Request
    <3>4. PICK q \in {r, NextCfg(o), Ended("refused")} : Step(o, q)
      BY <3>1
    <3>5. q.best = <<>> \/ q.best = a.best
      BY <1>3, <2>9, <3>3, <3>4
    <3>6. req'[p] = IF p = o THEN q ELSE req[p]
      BY <3>4, StepWrites
    <3> HIDE DEF r
    <3> QED
      BY <3>2, <3>5, <3>6 DEF RequestMoved
  <2>12. CASE AddNetworkStore(o)
    <3>1. Step(o, NextCfg(o))
      BY <2>12 DEF AddNetworkStore
    <3>2. req'[p] = IF p = o THEN NextCfg(o) ELSE req[p]
      BY <3>1, StepWrites
    <3> QED
      BY <2>9, <3>2 DEF RequestMoved
  <2> QED
    BY <1>7, <2>1, <2>2, <2>3, <2>4, <2>5, <2>6, <2>7, <2>8, <2>10, <2>11, <2>12 DEF AdminStep
<1> QED
  BY <1>6, <1>7 DEF Next
-----------------------------------------------------------------------------
(* Only checked nodes are served. *)

\* A node that passed the check of its own request can be alive.
LEMMA PassedIsAlive ==
    ASSUME NEW n \in Node, NEW r \in Outcomes(<<n>>), r.best # <<>>
    PROVE  n.url \notin NeverAlive
<1>1. <<n>> \in Seq(Node) /\ Elements(<<n>>) = {n}
  BY DEF Elements
<1>2. r.best \in Seq(Node) /\ Elements(r.best) \subseteq {k \in {n} : k.url \notin NeverAlive}
  BY <1>1, OutcomeIsSound
<1>3. 1 \in DOMAIN r.best
  BY <1>2
<1>4. r.best[1] \in Elements(r.best)
  BY <1>3 DEF Elements
<1> QED
  BY <1>2, <1>4

LEMMA AppendElements ==
    ASSUME NEW s \in Seq(Node), NEW n \in Node
    PROVE  Elements(Append(s, n)) = Elements(s) \cup {n}
<1>1. DOMAIN s = 1..Len(s) /\ DOMAIN Append(s, n) = 1..(Len(s) + 1) /\ Len(s) \in Nat
  OBVIOUS
<1>2. \A i \in 1..(Len(s) + 1) : Append(s, n)[i] = IF i = Len(s) + 1 THEN n ELSE s[i]
  OBVIOUS
<1> QED
  BY <1>1, <1>2 DEF Elements

\* In terms of pointers, as BestMoves has it.
PendingObjects ==
    /\ \A x \in Objects : Valid(x) => Checked(Obj(x).best)
    /\ \A o \in Ops :
          /\ Checked(req[o].best)
          /\ o.op = "AddNode" /\ req[o].pc \in {"store", "serve"} => o.node.url \notin NeverAlive

LEMMA PendingByObject == RegistryTypeOK => (OnlyCheckedPending <=> PendingObjects)
<1> SUFFICES ASSUME RegistryTypeOK PROVE OnlyCheckedPending <=> PendingObjects
  OBVIOUS
<1>1. ASSUME NEW net \in Nets, NEW ptr \in 1..Len(State[net])
      PROVE  \E x \in Objects : Valid(x) /\ Obj(x) = State[net][ptr]
  <2>1. State[net] \in Seq(NetworkState)
    BY DEF RegistryTypeOK
  <2>2. ptr \in Nat
    BY <2>1
  <2>3. [net |-> net, ptr |-> ptr] \in Objects
    BY <2>2 DEF Objects
  <2> QED
    BY <2>3 DEF Valid, Obj
<1>2. ASSUME NEW x \in Objects, Valid(x)
      PROVE  x.net \in Nets /\ x.ptr \in 1..Len(State[x.net]) /\ Obj(x) = State[x.net][x.ptr]
  BY <1>2 DEF Objects, Valid, Obj
<1> QED
  BY <1>1, <1>2 DEF OnlyCheckedPending, PendingObjects

LEMMA PendingInit == Init => OnlyCheckedPending
<1> SUFFICES ASSUME Init PROVE OnlyCheckedPending
  OBVIOUS
<1>1. Checked(<<>>)
  BY DEF Checked, Elements
<1>2. ASSUME NEW net \in Nets, NEW ptr \in 1..Len(State[net]) PROVE State[net][ptr].best = <<>>
  <2>1. net \in DOMAIN Config /\ State[net] = <<NewState(Config[net], <<>>)>>
    BY <1>2 DEF Init, InitFromConfigs
  <2> QED
    BY <2>1 DEF NewState
<1>3. \A o \in Ops : req[o].best = <<>> /\ req[o].pc = "idle"
  BY DEF Init, Waiting
<1> QED
  BY <1>1, <1>2, <1>3 DEF OnlyCheckedPending

LEMMA PendingStep == Typed /\ OnlyCheckedPending /\ [Next]_vars => OnlyCheckedPending'
<1> SUFFICES ASSUME Typed, OnlyCheckedPending, [Next]_vars PROVE OnlyCheckedPending'
  OBVIOUS
<1>1. Typed' /\ RegistryTypeOK /\ RegistryTypeOK'
  BY NextTyped DEF Typed, TypeOK
<1>2. ASSUME NEW x \in Objects, Valid(x) PROVE Checked(Obj(x).best) /\ Obj(x).best \in Seq(Node)
  BY <1>1, <1>2, PendingByObject, ObjType DEF PendingObjects
<1>3. ASSUME NEW o \in Ops PROVE Checked(req[o].best)
  BY <1>3 DEF OnlyCheckedPending
<1>4. ASSUME NEW o \in Ops, o.op = "AddNode", req[o].pc \in {"store", "serve"}
       PROVE  o.node.url \notin NeverAlive
  BY <1>4 DEF OnlyCheckedPending
<1>5. ASSUME NEW nodes \in Seq(Node), NEW r \in Outcomes(nodes) PROVE Checked(r.best)
  BY OutcomeIsSound DEF Checked
<1>6. ASSUME NEW s \in Seq(Node), Checked(s), NEW url PROVE Checked(Without(s, url))
  BY <1>6, WithoutIsList DEF Checked
<1>7. Checked(<<>>)
  BY DEF Checked, Elements
<1>8. ASSUME NEW x \in Objects, Valid(x)' PROVE Checked(Obj(x).best)'
  <2>1. Moved(x)
    BY <1>8, BestMoves
  <2>2. \A net \in Nets : worker[net].nodes \in Seq(Node)
    BY ListsTyped
  <2>3. ASSUME NEW s, Obj(x).best' = s, Checked(s) PROVE Checked(Obj(x).best)'
    BY <2>3 DEF Checked, Elements
  <2>4. CASE Valid(x) /\ Obj(x).best' = Obj(x).best
    BY <1>2, <2>3, <2>4
  <2>5. CASE Valid(x) /\ \E url \in Urls : Obj(x).best' = Without(Obj(x).best, url)
    BY <1>2, <1>6, <2>3, <2>5
  <2>6. CASE \E net \in Nets : \E r \in Outcomes(worker[net].nodes) : Obj(x).best' = r.best
    BY <1>5, <2>2, <2>3, <2>6
  <2>7. CASE \E o \in Ops : Obj(x).best' = req[o].best
    BY <1>3, <2>3, <2>7
  <2>8. ASSUME Valid(x), NEW o \in Ops, o.op = "AddNode", req[o].pc = "serve",
               Obj(x).best' = Append(Obj(x).best, o.node)
        PROVE  Checked(Obj(x).best)'
    <3>1. o.node \in Node
      BY <2>8, OpFields
    <3>2. o.node.url \notin NeverAlive
      BY <1>4, <2>8
    <3>3. Checked(Append(Obj(x).best, o.node))
      BY <1>2, <2>8, <3>1, <3>2, AppendElements DEF Checked
    <3> QED
      BY <2>3, <2>8, <3>3
  <2> QED
    BY <2>1, <2>4, <2>5, <2>6, <2>7, <2>8 DEF Moved
<1>9. ASSUME NEW o \in Ops
      PROVE  /\ Checked(req[o].best)'
             /\ o.op = "AddNode" /\ req'[o].pc \in {"store", "serve"} => o.node.url \notin NeverAlive
  <2>1. RequestMoved(o)
    BY RequestMoves
  <2>2. ASSUME NEW s, req'[o].best = s, Checked(s) PROVE Checked(req[o].best)'
    BY <2>2 DEF Checked, Elements
  <2>3. Checked(req[o].best)'
    <3>1. CASE req'[o].best = req[o].best
      BY <1>3, <2>2, <3>1
    <3>2. CASE req'[o].best = <<>>
      BY <1>7, <2>2, <3>2
    <3>3. ASSUME NEW x \in Objects, NEW url \in Urls, Valid(x), req'[o].best = Without(Obj(x).best, url)
          PROVE  Checked(req[o].best)'
      BY <1>2, <1>6, <2>2, <3>3
    <3>4. ASSUME NEW nodes \in Seq(Node), NEW r \in Outcomes(nodes), req'[o].best = r.best
          PROVE  Checked(req[o].best)'
      BY <1>5, <2>2, <3>4
    <3> QED
      BY <2>1, <3>1, <3>2, <3>3, <3>4 DEF RequestMoved
  <2>4. ASSUME o.op = "AddNode", req'[o].pc \in {"store", "serve"} PROVE o.node.url \notin NeverAlive
    <3>1. CASE req[o].pc \in {"store", "serve"}
      BY <1>4, <2>4, <3>1
    <3>2. CASE \E r \in Outcomes(<<o.node>>) : r.best # <<>>
      <4>1. o.node \in Node
        BY <2>4, OpFields
      <4> QED
        BY <3>2, <4>1, PassedIsAlive
    <3> QED
      BY <2>4, <3>1, <3>2, RequestMoves
  <2> QED
    BY <2>3, <2>4
<1>10. PendingObjects'
  BY <1>8, <1>9 DEF PendingObjects
<1> QED
  BY <1>1, <1>10, PendingByObject, PTL

\* No interleaving of health rounds, admin requests and gossip puts a node
\* that cannot pass a health check into the list a network serves.
THEOREM CheckedServed == Spec => []OnlyCheckedServed
<1>1. Init => Typed /\ OnlyCheckedPending
  BY InitTyped, PendingInit
<1>2. Typed /\ OnlyCheckedPending /\ [Next]_vars => (Typed /\ OnlyCheckedPending)'
  BY NextTyped, PendingStep
<1>3. Typed /\ OnlyCheckedPending => OnlyCheckedServed
  <2> SUFFICES ASSUME Typed, OnlyCheckedPending, NEW net \in Present
               PROVE  UrlsOf(Served(net)) \cap NeverAlive = {}
    BY DEF OnlyCheckedServed
  <2>1. net \in Nets /\ Exists(net) /\ RegistryTypeOK
    BY DEF Present, Typed, TypeOK
  <2>2. Checked(Current(net).best)
    BY <2>1, CurrentIsValid, PendingByObject DEF PendingObjects
  <2> QED
    BY <2>2 DEF Checked, Served, UrlsOf
<1> QED
  BY <1>1, <1>2, <1>3, PTL DEF Spec
-----------------------------------------------------------------------------
(* Without POST .../nodes, the failover order. *)

OrderedObjects ==
    /\ \A x \in Objects : Valid(x) => Ordered(Obj(x).best)
    /\ \A o \in Ops : Ordered(req[o].best)

LEMMA OrderedByObject == RegistryTypeOK => (OrderedPending <=> OrderedObjects)
<1> SUFFICES ASSUME RegistryTypeOK PROVE OrderedPending <=> OrderedObjects
  OBVIOUS
<1>1. ASSUME NEW net \in Nets, NEW ptr \in 1..Len(State[net])
      PROVE  \E x \in Objects : Valid(x) /\ Obj(x) = State[net][ptr]
  <2>1. State[net] \in Seq(NetworkState)
    BY DEF RegistryTypeOK
  <2>2. ptr \in Nat
    BY <2>1
  <2>3. [net |-> net, ptr |-> ptr] \in Objects
    BY <2>2 DEF Objects
  <2> QED
    BY <2>3 DEF Valid, Obj
<1>2. ASSUME NEW x \in Objects, Valid(x)
      PROVE  x.net \in Nets /\ x.ptr \in 1..Len(State[x.net]) /\ Obj(x) = State[x.net][x.ptr]
  BY <1>2 DEF Objects, Valid, Obj
<1> QED
  BY <1>1, <1>2 DEF OrderedPending, OrderedObjects

LEMMA OrderedInit == Init => OrderedPending
<1> SUFFICES ASSUME Init PROVE OrderedPending
  OBVIOUS
<1>1. Ordered(<<>>)
  BY DEF Ordered
<1>2. ASSUME NEW net \in Nets, NEW ptr \in 1..Len(State[net]) PROVE State[net][ptr].best = <<>>
  <2>1. net \in DOMAIN Config /\ State[net] = <<NewState(Config[net], <<>>)>>
    BY <1>2 DEF Init, InitFromConfigs
  <2> QED
    BY <2>1 DEF NewState
<1>3. \A o \in Ops : req[o].best = <<>>
  BY DEF Init, Waiting
<1> QED
  BY <1>1, <1>2, <1>3 DEF OrderedPending

LEMMA OrderedStep ==
    ASSUME \A o \in Ops : o.op # "AddNode"
    PROVE  Typed /\ OrderedPending /\ [Next]_vars => OrderedPending'
<1> SUFFICES ASSUME Typed, OrderedPending, [Next]_vars PROVE OrderedPending'
  OBVIOUS
<1>1. Typed' /\ RegistryTypeOK /\ RegistryTypeOK'
  BY NextTyped DEF Typed, TypeOK
<1>2. ASSUME NEW x \in Objects, Valid(x) PROVE Ordered(Obj(x).best) /\ Obj(x).best \in Seq(Node)
  BY <1>1, <1>2, OrderedByObject, ObjType DEF OrderedObjects
<1>3. ASSUME NEW o \in Ops PROVE Ordered(req[o].best)
  BY <1>3 DEF OrderedPending
<1>4. ASSUME NEW nodes \in Seq(Node), NEW r \in Outcomes(nodes) PROVE Ordered(r.best)
  BY OutcomeIsSound
<1>5. ASSUME NEW s \in Seq(Node), Ordered(s), NEW url PROVE Ordered(Without(s, url))
  BY <1>5, WithoutIsList
<1>6. Ordered(<<>>)
  BY DEF Ordered
<1>7. ASSUME NEW x \in Objects, Valid(x)' PROVE Ordered(Obj(x).best)'
  <2>1. Moved(x)
    BY <1>7, BestMoves
  <2>2. \A net \in Nets : worker[net].nodes \in Seq(Node)
    BY ListsTyped
  <2>3. ASSUME NEW s, Obj(x).best' = s, Ordered(s) PROVE Ordered(Obj(x).best)'
    BY <2>3 DEF Ordered
  <2>4. CASE Valid(x) /\ Obj(x).best' = Obj(x).best
    BY <1>2, <2>3, <2>4
  <2>5. CASE Valid(x) /\ \E url \in Urls : Obj(x).best' = Without(Obj(x).best, url)
    BY <1>2, <1>5, <2>3, <2>5
  <2>6. CASE \E net \in Nets : \E r \in Outcomes(worker[net].nodes) : Obj(x).best' = r.best
    BY <1>4, <2>2, <2>3, <2>6
  <2>7. CASE \E o \in Ops : Obj(x).best' = req[o].best
    BY <1>3, <2>3, <2>7
  <2> QED
    BY <2>1, <2>4, <2>5, <2>6, <2>7 DEF Moved
<1>8. ASSUME NEW o \in Ops PROVE Ordered(req[o].best)'
  <2>1. RequestMoved(o)
    BY RequestMoves
  <2>2. ASSUME NEW s, req'[o].best = s, Ordered(s) PROVE Ordered(req[o].best)'
    BY <2>2 DEF Ordered
  <2>3. CASE req'[o].best = req[o].best
    BY <1>3, <2>2, <2>3
  <2>4. CASE req'[o].best = <<>>
    BY <1>6, <2>2, <2>4
  <2>5. ASSUME NEW x \in Objects, NEW url \in Urls, Valid(x), req'[o].best = Without(Obj(x).best, url)
        PROVE  Ordered(req[o].best)'
    BY <1>2, <1>5, <2>2, <2>5
  <2>6. ASSUME NEW nodes \in Seq(Node), NEW r \in Outcomes(nodes), req'[o].best = r.best
        PROVE  Ordered(req[o].best)'
    BY <1>4, <2>2, <2>6
  <2> QED
    BY <2>1, <2>3, <2>4, <2>5, <2>6 DEF RequestMoved
<1>9. OrderedObjects'
  BY <1>7, <1>8 DEF OrderedObjects
<1> QED
  BY <1>1, <1>9, OrderedByObject, PTL

\* As long as nobody appends a node with POST .../nodes, the list a proxied
\* request tries front to back is sorted by priority, one node for each.
THEOREM OrderedServed ==
    ASSUME \A o \in Ops : o.op # "AddNode"
    PROVE  Spec => []FailoverOrdered
<1>1. Init => Typed /\ OrderedPending
  BY InitTyped, OrderedInit
<1>2. Typed /\ OrderedPending /\ [Next]_vars => (Typed /\ OrderedPending)'
  BY NextTyped, OrderedStep
<1>3. Typed /\ OrderedPending => FailoverOrdered
  <2> SUFFICES ASSUME Typed, OrderedPending, NEW net \in Present PROVE Ordered(Current(net).best)
    BY DEF FailoverOrdered
  <2>1. net \in Nets /\ Exists(net) /\ RegistryTypeOK
    BY DEF Present, Typed, TypeOK
  <2> QED
    BY <2>1, CurrentIsValid, OrderedByObject DEF OrderedObjects
<1> QED
  BY <1>1, <1>2, <1>3, PTL DEF Spec
-----------------------------------------------------------------------------
(* Without DELETE .../nodes, pickLimiter's second read. *)

\* Goroutines run only while their round waits for them.
LEMMA BarrierInit == Init => RoundBarrier
  BY DEF Init, RoundBarrier

LEMMA BarrierStep == Typed /\ RoundBarrier /\ [Next]_vars => RoundBarrier'
<1> SUFFICES ASSUME Typed, RoundBarrier, [Next]_vars PROVE RoundBarrier'
  OBVIOUS
<1>1. ASSUME NEW net \in Nets, PickLimiter(net) \/ ReadFirst(net) \/ StartCheck(net) \/ Publish(net)
      PROVE  RoundBarrier'
  <2>1. worker[net].pc # "off" /\ round' = round
    BY <1>1 DEF PickLimiter, ReadFirst, StartCheck, Publish
  <2> QED  BY <2>1 DEF RoundBarrier, AllOff
<1>2. CASE Booted \/ Tick \/ Drain \/ RoundDone
  BY <1>2 DEF Booted, Tick, Drain, RoundDone, RoundBarrier, AllOff
<1>3. CASE Spawn
  BY <1>3 DEF Spawn, RoundBarrier
<1>4. CASE \/ \E url \in Urls : Drop(url)
           \/ \E o \in Ops : AdminStep(o)
           \/ \E m \in Msgs : GossipStep(m)
           \/ Advance
           \/ UNCHANGED vars
  <2>1. UNCHANGED <<round, worker>>
    BY <1>4 DEF Drop, AdminStep, AddNodeBegin, AddNodeCheck, AddNodeStore, AddNodeServe,
                DeleteBegin, DeleteReadBest, DeleteSetBest, DeleteReadAll, DeleteSetAll,
                AddNetworkBegin, AddNetworkCheck, AddNetworkStore, Step, GossipStep, GossipBegin,
                GossipAdvert, GossipCap, GossipLoad, GossipWrite, Handle, Advance, vars
  <2> QED  BY <2>1 DEF RoundBarrier, AllOff
<1> QED  BY <1>1, <1>2, <1>3, <1>4 DEF Next, HealthStep

\* In a step that drops nothing and stores no list of a DELETE request, the All
\* list of an object that has nodes keeps some.
LEMMA AllStays ==
    ASSUME \A o \in Ops : o.op # "DeleteNode",
           Typed, [Next]_vars, \A url \in Urls : ~Drop(url),
           NEW x \in Objects, Valid(x), Obj(x).all # <<>>
    PROVE  Valid(x)' /\ Obj(x).all' # <<>>
<1>1. RegistryTypeOK /\ Obj(x) \in NetworkState
  BY ObjType DEF Typed, TypeOK
<1>2. ASSUME UNCHANGED State PROVE Valid(x)' /\ Obj(x).all' # <<>>
  BY <1>2 DEF Valid, Obj
<1>3. ASSUME NEW w \in Objects, NEW st, Only(w, st), Valid(w), Obj(w).all # <<>> => st.all # <<>>
      PROVE  Valid(x)' /\ Obj(x).all' # <<>>
  BY <1>3 DEF Only
<1>4. ASSUME NEW net \in Nets, NEW best \in Seq(Node), SetBest(net, best)
      PROVE  Valid(x)' /\ Obj(x).all' # <<>>
  <2> DEFINE w == Ref(net)  st == [Obj(w) EXCEPT !.best = best]
  <2>1. CASE Exists(net) /\ Only(w, st)
    <3>1. w \in Objects /\ Valid(w)
      BY <1>1, <2>1, CurrentIsValid
    <3>2. st.all = Obj(w).all
      OBVIOUS
    <3> HIDE DEF w, st
    <3> QED  BY <1>3, <2>1, <3>1, <3>2
  <2> QED  BY <1>1, <1>2, <1>4, <2>1, SetBestEffect
<1>5. CASE HealthStep
  <2>1. CASE \/ \E net \in Nets : PickLimiter(net) \/ ReadFirst(net) \/ StartCheck(net)
             \/ Booted \/ Spawn \/ Drain \/ RoundDone
    BY <1>2, <2>1 DEF PickLimiter, ReadFirst, StartCheck, Booted, Spawn, Drain, RoundDone
  <2>2. ASSUME NEW net \in Nets, Publish(net) PROVE Valid(x)' /\ Obj(x).all' # <<>>
    <3>1. PICK r \in Outcomes(worker[net].nodes) : SetBest(net, r.best)
      BY <2>2 DEF Publish
    <3>2. r.best \in Seq(Node)
      BY ListsTyped, OutcomeIsSound
    <3> QED  BY <1>4, <3>1, <3>2
  <2>3. CASE Tick
    <3> DEFINE F == [st \in NetworkState |-> PrunedAndMerged(st, now)]
    <3>1. EachBy(F)
      BY <1>1, <2>3, PruneEffect DEF Tick
    <3>2. Valid(x)' /\ (Obj(x)' = Obj(x) \/ Obj(x)' = F[Obj(x)])
      BY <3>1 DEF EachBy
    <3>3. F[Obj(x)].all # <<>>
      BY <1>1, MergedState
    <3> HIDE DEF F
    <3> QED  BY <3>2, <3>3
  <2> QED  BY <1>5, <2>1, <2>2, <2>3 DEF HealthStep
<1>6. ASSUME NEW o \in Ops, AdminStep(o) PROVE Valid(x)' /\ Obj(x).all' # <<>>
  <2>1. CASE AddNodeBegin(o) \/ AddNodeCheck(o) \/ AddNetworkBegin(o) \/ AddNetworkCheck(o)
    BY <1>2, <2>1 DEF AddNodeBegin, AddNodeCheck, AddNetworkBegin, AddNetworkCheck
  <2>2. CASE AddNodeStore(o)
    <3>1. o.net \in Nets /\ o.node \in Node /\ AddNode(o.net, o.node)
      BY <2>2, OpFields DEF AddNodeStore
    <3> DEFINE w == Ref(o.net)  st == [Obj(w) EXCEPT !.all = Append(@, o.node)]
    <3>2. CASE Exists(o.net) /\ Only(w, st)
      <4>1. w \in Objects /\ Valid(w) /\ Obj(w) \in NetworkState /\ Obj(w).all \in Seq(Node)
        BY <1>1, <3>1, <3>2, CurrentIsValid, ObjType
      <4>2. st.all = Append(Obj(w).all, o.node)
        BY <4>1 DEF NetworkState
      <4>3. st.all # <<>>
        BY <3>1, <4>1, <4>2
      <4> HIDE DEF w, st
      <4> QED  BY <1>3, <3>2, <4>1, <4>3
    <3> QED  BY <1>1, <1>2, <3>1, <3>2, AddNodeEffect
  <2>3. CASE AddNodeServe(o)
    <3>1. o.net \in Nets /\ o.node \in Node /\ AppendBest(o.net, o.node)
      BY <2>3, OpFields DEF AddNodeServe
    <3> DEFINE w == Ref(o.net)  st == [Obj(w) EXCEPT !.best = Append(@, o.node)]
    <3>2. CASE Exists(o.net) /\ Only(w, st)
      <4>1. w \in Objects /\ Valid(w)
        BY <1>1, <3>1, <3>2, CurrentIsValid
      <4>2. st.all = Obj(w).all
        OBVIOUS
      <4> HIDE DEF w, st
      <4> QED  BY <1>3, <3>2, <4>1, <4>2
    <3> QED  BY <1>1, <1>2, <3>1, <3>2, AppendBestEffect
  <2>4. CASE AddNetworkStore(o)
    <3>1. /\ Cfg(o).net \in Nets /\ Cfg(o).nodes \in Seq(Node) /\ req[o].best \in Seq(Node)
          /\ AddNetwork(Cfg(o).net, Cfg(o).nodes, req[o].best)
      BY <2>4, CfgFields, ListsTyped DEF AddNetworkStore
    <3>2. Valid(x)' /\ Obj(x)' = Obj(x)
      BY <1>1, <3>1, AddNetworkEffect
    <3> QED  BY <3>2
  <2>5. CASE \/ DeleteBegin(o) \/ DeleteReadBest(o) \/ DeleteSetBest(o)
             \/ DeleteReadAll(o) \/ DeleteSetAll(o)
    BY <2>5 DEF DeleteBegin, DeleteReadBest, DeleteSetBest, DeleteReadAll, DeleteSetAll
  <2> QED  BY <1>6, <2>1, <2>2, <2>3, <2>4, <2>5 DEF AdminStep
<1>7. ASSUME NEW m \in Msgs, GossipStep(m) PROVE Valid(x)' /\ Obj(x).all' # <<>>
  <2>1. CASE GossipBegin(m) \/ GossipAdvert(m) \/ GossipCap(m) \/ GossipLoad(m)
    BY <1>2, <2>1 DEF GossipBegin, GossipAdvert, GossipCap, GossipLoad
  <2>2. CASE GossipWrite(m)
    <3> PICK w \in Objects, disc \in Seq(DiscoveredNode) :
          Valid(w) /\ Only(w, [Obj(w) EXCEPT !.disc = disc])
      BY <2>2, WriteEffect
    <3> DEFINE st == [Obj(w) EXCEPT !.disc = disc]
    <3>1. st.all = Obj(w).all
      OBVIOUS
    <3> HIDE DEF st
    <3> QED  BY <1>3, <3>1 DEF st
  <2> QED  BY <1>7, <2>1, <2>2 DEF GossipStep
<1>8. CASE Advance \/ UNCHANGED vars
  BY <1>2, <1>8 DEF Advance, vars
<1> QED  BY <1>5, <1>6, <1>7, <1>8 DEF Next

\* The object that the goroutine of net looks at.
LEMMA SeenObject ==
    ASSUME Typed, NEW net \in Nets, worker[net].pc # "off"
    PROVE  LET x == [net |-> net, ptr |-> worker[net].ptr]
           IN  x \in Objects /\ Valid(x) /\ Obj(x) = Seen(net) /\ Obj(x) \in NetworkState
<1> DEFINE x == [net |-> net, ptr |-> worker[net].ptr]
<1>1. worker[net].ptr \in 1..Len(State[net]) /\ State[net] \in Seq(NetworkState)
  BY DEF Typed, TypeOK, PointersOK, WorkerOK, RegistryTypeOK
<1>2. x \in Objects /\ Valid(x) /\ Obj(x) = Seen(net)
  BY <1>1 DEF Objects, Valid, Obj, Seen
<1> QED  BY <1>2, ObjType DEF Typed, TypeOK

LEMMA PickedStep ==
    ASSUME \A o \in Ops : o.op # "DeleteNode"
    PROVE  Typed /\ RoundBarrier /\ PickedNonEmpty /\ [Next]_vars => PickedNonEmpty'
<1> SUFFICES ASSUME Typed, RoundBarrier, PickedNonEmpty, [Next]_vars PROVE PickedNonEmpty'
  OBVIOUS
<1>1. ~crashed'
  <2>1. ASSUME NEW net \in Nets, ReadFirst(net) PROVE ~crashed'
    BY <2>1 DEF ReadFirst, PickedNonEmpty
  <2>2. ASSUME NEW net \in Nets, PickLimiter(net) \/ StartCheck(net) \/ Publish(net)
        PROVE  ~crashed'
    BY <2>2 DEF PickLimiter, StartCheck, Publish, PickedNonEmpty
  <2>3. CASE Booted \/ Tick \/ Spawn \/ Drain \/ RoundDone \/ \E url \in Urls : Drop(url)
    BY <2>3 DEF Booted, Tick, Spawn, Drain, RoundDone, Drop, PickedNonEmpty
  <2>4. CASE \/ \E o \in Ops : AdminStep(o)
             \/ \E m \in Msgs : GossipStep(m)
             \/ Advance
             \/ UNCHANGED vars
    BY <2>4 DEF AdminStep, AddNodeBegin, AddNodeCheck, AddNodeStore, AddNodeServe,
                DeleteBegin, DeleteReadBest, DeleteSetBest, DeleteReadAll, DeleteSetAll,
                AddNetworkBegin, AddNetworkCheck, AddNetworkStore, Step, GossipStep, GossipBegin,
                GossipAdvert, GossipCap, GossipLoad, GossipWrite, Handle, Advance, vars,
                PickedNonEmpty
  <2> QED  BY <2>1, <2>2, <2>3, <2>4 DEF Next, HealthStep
<1>2. ASSUME NEW net \in Nets, worker'[net].pc = "pick" PROVE State'[net][worker'[net].ptr].all # <<>>
  <2> DEFINE x == [net |-> net, ptr |-> worker[net].ptr]
  <2>1. /\ worker[net].pc # "off" /\ worker'[net].ptr = worker[net].ptr
        /\ Seen(net).all # <<>>
    <3>1. ASSUME NEW n \in Nets, PickLimiter(n)
          PROVE  worker[net].pc # "off" /\ worker'[net].ptr = worker[net].ptr /\ Seen(net).all # <<>>
      BY <1>2, <3>1 DEF PickLimiter, PickedNonEmpty, Typed, TypeOK, Worker
    <3>2. ASSUME NEW n \in Nets, ReadFirst(n) \/ StartCheck(n) \/ Publish(n)
          PROVE  worker[net].pc # "off" /\ worker'[net].ptr = worker[net].ptr /\ Seen(net).all # <<>>
      <4>1. worker'[n].pc # "pick" \/ UNCHANGED worker
        BY <3>2 DEF ReadFirst, StartCheck, Publish, Off, Typed, TypeOK, Worker
      <4>2. net # n => worker'[net] = worker[net]
        BY <3>2 DEF ReadFirst, StartCheck, Publish, Typed, TypeOK
      <4> QED  BY <1>2, <4>1, <4>2 DEF PickedNonEmpty
    <3>3. CASE Spawn
      BY <1>2, <3>3 DEF Spawn, Spawned, Off
    <3>4. CASE UNCHANGED worker
      BY <1>2, <3>4 DEF PickedNonEmpty
    <3>5. \/ \E n \in Nets : PickLimiter(n) \/ ReadFirst(n) \/ StartCheck(n) \/ Publish(n)
          \/ Spawn \/ UNCHANGED worker
      BY DEF Next, HealthStep, Booted, Tick, Drain, RoundDone, Drop, AdminStep, AddNodeBegin,
             AddNodeCheck, AddNodeStore, AddNodeServe, DeleteBegin, DeleteReadBest, DeleteSetBest,
             DeleteReadAll, DeleteSetAll, AddNetworkBegin, AddNetworkCheck, AddNetworkStore, Step,
             GossipStep, GossipBegin, GossipAdvert, GossipCap, GossipLoad, GossipWrite, Handle,
             Advance, vars
    <3> QED  BY <3>1, <3>2, <3>3, <3>4, <3>5
  <2>2. x \in Objects /\ Valid(x) /\ Obj(x) = Seen(net)
    BY <2>1, SeenObject
  <2>3. \A url \in Urls : ~Drop(url)
    BY <2>1 DEF Drop, RoundBarrier, AllOff
  <2> DEFINE k == worker[net].ptr
  <2>4. Obj([net |-> net, ptr |-> k]).all # <<>>
    BY <2>1, <2>2
  <2> HIDE DEF k
  <2>5. \A p : [net |-> net, ptr |-> p] \in Objects /\ Valid([net |-> net, ptr |-> p])
                  /\ Obj([net |-> net, ptr |-> p]).all # <<>>
               => State'[net][p].all # <<>>
    <3> SUFFICES ASSUME NEW p, [net |-> net, ptr |-> p] \in Objects,
                        Valid([net |-> net, ptr |-> p]), Obj([net |-> net, ptr |-> p]).all # <<>>
                 PROVE  State'[net][p].all # <<>>
      OBVIOUS
    <3>1. Obj([net |-> net, ptr |-> p]).all' # <<>>
      BY <2>3, AllStays
    <3> QED  BY <3>1 DEF Obj
  <2> QED  BY <2>1, <2>2, <2>4, <2>5 DEF k
<1> QED  BY <1>1, <1>2 DEF PickedNonEmpty, Seen

\* As long as nobody deletes nodes, no health goroutine indexes a list that was
\* emptied between its two reads: not by the drops of a round, which wait for
\* its goroutines, nor by a replaced network, whose old object stays as it was.
THEOREM NeverPanics ==
    ASSUME \A o \in Ops : o.op # "DeleteNode"
    PROVE  Spec => []NoPanic
<1>1. Init => Typed /\ RoundBarrier /\ PickedNonEmpty
  <2>1. Init => PickedNonEmpty
    BY DEF Init, PickedNonEmpty, Spawned, Off
  <2> QED  BY <2>1, InitTyped, BarrierInit
<1>2. Typed /\ RoundBarrier /\ PickedNonEmpty /\ [Next]_vars
         => (Typed /\ RoundBarrier /\ PickedNonEmpty)'
  BY NextTyped, BarrierStep, PickedStep
<1>3. PickedNonEmpty => NoPanic
  BY DEF PickedNonEmpty, NoPanic
<1> QED  BY <1>1, <1>2, <1>3, PTL DEF Spec
-----------------------------------------------------------------------------
(* Without admin requests, the registry is a routing table. *)

\* There is one object per network, and its pointer never changes.
The(net) == [net |-> net, ptr |-> 1]

Solo == \A net \in Nets : Len(State[net]) <= 1

LEMMA SoloObject ==
    ASSUME RegistryTypeOK, Solo, NEW net \in Nets
    PROVE  /\ The(net) \in Objects
           /\ Valid(The(net)) <=> Exists(net)
           /\ Exists(net) => /\ Ref(net) = The(net)
                             /\ Pointer(net) = 1
                             /\ Current(net) = Obj(The(net))
                             /\ Obj(The(net)) \in NetworkState
                             /\ Obj(The(net)).all \in Seq(Node)
                             /\ Obj(The(net)).best \in Seq(Node)
<1>1. State[net] \in Seq(NetworkState) /\ Len(State[net]) <= 1
  BY DEF RegistryTypeOK, Solo
<1>2. The(net) \in Objects /\ (Valid(The(net)) <=> Exists(net))
  BY <1>1 DEF The, Objects, Valid, Exists
<1>3. Exists(net) => Pointer(net) = 1
  <2>1. \A s \in Seq(NetworkState) : s # <<>> /\ Len(s) <= 1 => Len(s) = 1
    OBVIOUS
  <2> QED  BY <1>1, <2>1 DEF Exists, Pointer
<1>4. Exists(net) => Ref(net) = The(net) /\ Current(net) = Obj(The(net))
  BY <1>3 DEF Ref, The, Current, Obj
<1> QED  BY <1>2, <1>3, <1>4, ObjType

\* What a step can do to the objects of all networks: nothing that concerns All
\* and Best; publish the answer of a check; prune and merge; drop a URL.
Silent ==
    \A net \in Nets : Exists(net) => /\ Obj(The(net)).all' = Obj(The(net)).all
                                     /\ Obj(The(net)).best' = Obj(The(net)).best

Publishes(net, best) ==
    \A n \in Nets : Exists(n) => /\ Obj(The(n)).all' = Obj(The(n)).all
                                 /\ Obj(The(n)).best' = IF n = net THEN best ELSE Obj(The(n)).best

Merges == \A net \in Nets : Exists(net) => Obj(The(net))' = PrunedAndMerged(Obj(The(net)), now)

Drops(url) == \A net \in Nets : Exists(net) => Obj(The(net))' = Removed(Obj(The(net)), url)

AloneMoved ==
    \/ Silent
    \/ \E net \in Nets : /\ worker[net].pc = "run" /\ Exists(net)
                         /\ \E r \in Outcomes(worker[net].nodes) : Publishes(net, r.best)
    \/ Merges
    \/ round = "drop" /\ \E url \in Urls : Drops(url)

LEMMA TheDiffer == \A n, net : The(n) = The(net) => n = net
  BY DEF The

LEMMA AloneMoves ==
    ASSUME Ops = {}, Typed, Solo, [Next]_vars
    PROVE  /\ AloneMoved
           /\ RegistryTypeOK'
           /\ \A net \in Nets : Len(State'[net]) = Len(State[net])
<1> DEFINE Same == RegistryTypeOK' /\ \A net \in Nets : Len(State'[net]) = Len(State[net])
<1>1. RegistryTypeOK
  BY DEF Typed, TypeOK
<1>2. ASSUME UNCHANGED State PROVE Silent /\ Same
  BY <1>1, <1>2 DEF Silent, Obj, RegistryTypeOK
<1>3. CASE HealthStep
  <2>1. CASE \/ \E net \in Nets : PickLimiter(net) \/ ReadFirst(net) \/ StartCheck(net)
             \/ Booted \/ Spawn \/ Drain \/ RoundDone
    BY <1>2, <2>1 DEF PickLimiter, ReadFirst, StartCheck, Booted, Spawn, Drain, RoundDone, AloneMoved
  <2>2. ASSUME NEW net \in Nets, Publish(net) PROVE AloneMoved /\ Same
    <3>1. PICK r \in Outcomes(worker[net].nodes) : SetBest(net, r.best)
      BY <2>2 DEF Publish
    <3>2. r.best \in Seq(Node)
      BY ListsTyped, OutcomeIsSound
    <3> DEFINE w == Ref(net)  st == [Obj(w) EXCEPT !.best = r.best]
    <3>3. CASE Exists(net) /\ Only(w, st)
      <4>1. w = The(net) /\ Obj(w) \in NetworkState
        BY <1>1, <3>3, SoloObject
      <4>2. st.best = r.best /\ st.all = Obj(w).all
        BY <4>1 DEF NetworkState
      <4>3. Only(The(net), st) /\ st.all = Obj(The(net)).all
        BY <3>3, <4>1, <4>2
      <4> HIDE DEF w, st
      <4>4. \A n \in Nets : Exists(n) =>
               Obj(The(n))' = IF The(n) = The(net) THEN st ELSE Obj(The(n))
        BY <1>1, <4>3, SoloObject DEF Only
      <4>5. Publishes(net, r.best)
        BY <4>2, <4>3, <4>4, TheDiffer DEF Publishes
      <4>6. worker[net].pc = "run"
        BY <2>2 DEF Publish
      <4> QED  BY <3>3, <4>5, <4>6 DEF AloneMoved, Only
    <3> QED  BY <1>1, <1>2, <3>1, <3>2, <3>3, SetBestEffect DEF AloneMoved
  <2>3. CASE Tick
    <3> DEFINE F == [st \in NetworkState |-> PrunedAndMerged(st, now)]
    <3>1. EachBy(F)
      BY <1>1, <2>3, PruneEffect DEF Tick
    <3>2. ASSUME NEW net \in Nets, Exists(net) PROVE Obj(The(net))' = F[Obj(The(net))]
      <4>1. The(net).ptr = Pointer(The(net).net)
        BY <1>1, <3>2, SoloObject DEF The
      <4> QED  BY <1>1, <3>1, <3>2, <4>1, SoloObject DEF EachBy
    <3>3. Merges
      BY <1>1, <3>2, SoloObject DEF Merges
    <3> QED  BY <3>1, <3>3 DEF AloneMoved, EachBy
  <2>4. ASSUME NEW url \in Urls, Drop(url) PROVE AloneMoved /\ Same
    <3> DEFINE F == [st \in NetworkState |-> Removed(st, url)]
    <3>1. EachBy(F) /\ round = "drop"
      BY <1>1, <2>4, RemoveEffect DEF Drop
    <3>2. ASSUME NEW net \in Nets, Exists(net) PROVE Obj(The(net))' = F[Obj(The(net))]
      <4>1. The(net).ptr = Pointer(The(net).net)
        BY <1>1, <3>2, SoloObject DEF The
      <4> QED  BY <1>1, <3>1, <3>2, <4>1, SoloObject DEF EachBy
    <3>3. Drops(url)
      BY <1>1, <3>2, SoloObject DEF Drops
    <3> QED  BY <3>1, <3>3 DEF AloneMoved, EachBy
  <2> QED  BY <1>3, <2>1, <2>2, <2>3, <2>4 DEF HealthStep
<1>4. ASSUME NEW m \in Msgs, GossipStep(m) PROVE AloneMoved /\ Same
  <2>1. CASE GossipBegin(m) \/ GossipAdvert(m) \/ GossipCap(m) \/ GossipLoad(m)
    BY <1>2, <2>1 DEF GossipBegin, GossipAdvert, GossipCap, GossipLoad, AloneMoved
  <2>2. CASE GossipWrite(m)
    <3> PICK w \in Objects, disc \in Seq(DiscoveredNode) :
          Valid(w) /\ Only(w, [Obj(w) EXCEPT !.disc = disc])
      BY <2>2, WriteEffect
    <3> DEFINE st == [Obj(w) EXCEPT !.disc = disc]
    <3>1. st.all = Obj(w).all /\ st.best = Obj(w).best
      OBVIOUS
    <3>2. Only(w, st)
      OBVIOUS
    <3> HIDE DEF st
    <3>3. Silent
      BY <1>1, <3>1, <3>2, SoloObject DEF Silent, Only
    <3> QED  BY <3>2, <3>3 DEF AloneMoved, Only
  <2> QED  BY <1>4, <2>1, <2>2 DEF GossipStep
<1>5. CASE Advance \/ UNCHANGED vars
  BY <1>2, <1>5 DEF Advance, vars, AloneMoved
<1> QED  BY <1>3, <1>4, <1>5 DEF Next

KnownInv == Typed /\ RoundBarrier /\ SnapshotsKnown

LEMMA KnownInit == Init => KnownInv
<1> SUFFICES ASSUME Init PROVE KnownInv
  OBVIOUS
<1>1. ASSUME NEW net \in Nets
      PROVE  /\ Len(State[net]) <= 1
             /\ Exists(net) => Current(net).best = <<>>
             /\ worker[net].pc # "run"
  <2>1. CASE net \in DOMAIN Config
    <3>1. State[net] = <<NewState(Config[net], <<>>)>> /\ worker[net] = Spawned(1)
      BY <2>1 DEF Init, InitFromConfigs
    <3> QED  BY <3>1 DEF Current, Pointer, NewState, Spawned
  <2>2. CASE net \notin DOMAIN Config
    <3>1. State[net] = <<>> /\ worker[net] = Off
      BY <2>2 DEF Init, InitFromConfigs
    <3> QED  BY <3>1 DEF Exists, Off
  <2> QED  BY <2>1, <2>2
<1>2. Elements(<<>>) = {}
  BY DEF Elements
<1> QED  BY <1>1, <1>2, InitTyped, BarrierInit DEF KnownInv, SnapshotsKnown, Served

\* SnapshotsKnown in terms of pointers.
LEMMA KnownByObject ==
    ASSUME KnownInv, NEW net \in Nets, Exists(net)
    PROVE  /\ Elements(Obj(The(net)).best) \subseteq Elements(Obj(The(net)).all)
           /\ worker[net].pc = "run" => Elements(worker[net].nodes) \subseteq Elements(Obj(The(net)).all)
<1>1. RegistryTypeOK /\ Solo
  BY DEF KnownInv, Typed, TypeOK, SnapshotsKnown, Solo
<1>2. Current(net) = Obj(The(net))
  BY <1>1, SoloObject
<1> QED  BY <1>2 DEF KnownInv, SnapshotsKnown, Served

\* What the goroutine of a network checks after a step, it checked before or
\* it is the All list.
LEMMA ChecksMove ==
    ASSUME Ops = {}, Typed, Solo, [Next]_vars, NEW net \in Nets, worker'[net].pc = "run"
    PROVE  \/ worker[net].pc = "run" /\ worker'[net].nodes = worker[net].nodes
           \/ UNCHANGED State /\ Exists(net) /\ worker'[net].nodes = Obj(The(net)).all
<1>1. worker \in [Nets -> Worker]
  BY DEF Typed, TypeOK
<1>2. ASSUME NEW n \in Nets, PickLimiter(n) \/ ReadFirst(n) \/ Publish(n)
      PROVE  worker[net].pc = "run" /\ worker'[net].nodes = worker[net].nodes
  <2>1. worker'[n].pc # "run" \/ UNCHANGED worker
    BY <1>1, <1>2 DEF PickLimiter, ReadFirst, Publish, Off, Worker
  <2>2. net # n => worker'[net] = worker[net]
    BY <1>1, <1>2 DEF PickLimiter, ReadFirst, Publish
  <2> QED  BY <2>1, <2>2
<1>3. ASSUME NEW n \in Nets, StartCheck(n)
      PROVE  \/ worker[net].pc = "run" /\ worker'[net].nodes = worker[net].nodes
             \/ UNCHANGED State /\ Exists(net) /\ worker'[net].nodes = Obj(The(net)).all
  <2>1. CASE n = net
    <3>1. worker[net].pc # "off" /\ UNCHANGED State /\ worker'[net].nodes = Seen(net).all
      BY <1>1, <1>3, <2>1 DEF StartCheck, Worker
    <3>2. worker[net].ptr \in 1..Len(State[net]) /\ State[net] \in Seq(NetworkState)
          /\ Len(State[net]) <= 1
      BY <3>1 DEF Typed, TypeOK, PointersOK, WorkerOK, RegistryTypeOK, Solo
    <3>3. worker[net].ptr = 1 /\ Exists(net)
      BY <3>2 DEF Exists
    <3> QED  BY <3>1, <3>3 DEF Seen, Obj, The
  <2>2. CASE n # net
    BY <1>1, <1>3, <2>2 DEF StartCheck
  <2> QED  BY <2>1, <2>2
<1>4. CASE Spawn
  BY <1>4 DEF Spawn, Spawned, Off
<1>5. \/ \E n \in Nets : PickLimiter(n) \/ ReadFirst(n) \/ StartCheck(n) \/ Publish(n)
      \/ Spawn \/ UNCHANGED worker
  BY DEF Next, HealthStep, Booted, Tick, Drain, RoundDone, Drop, GossipStep, GossipBegin,
         GossipAdvert, GossipCap, GossipLoad, GossipWrite, Handle, Advance, vars
<1> QED  BY <1>2, <1>3, <1>4, <1>5

LEMMA KnownStep == Ops = {} => (KnownInv /\ [Next]_vars => KnownInv')
<1> SUFFICES ASSUME Ops = {}, KnownInv, [Next]_vars PROVE KnownInv'
  OBVIOUS
<1>1. Typed /\ RoundBarrier /\ RegistryTypeOK /\ Solo
  BY DEF KnownInv, Typed, TypeOK, SnapshotsKnown, Solo
<1>2. Typed' /\ RoundBarrier'
  BY <1>1, NextTyped, BarrierStep
<1>3. AloneMoved /\ RegistryTypeOK' /\ \A net \in Nets : Len(State'[net]) = Len(State[net])
  BY <1>1, AloneMoves
<1>4. ASSUME NEW net \in Nets, State'[net] # <<>>
      PROVE  Exists(net) /\ Pointer(net) = 1 /\ Len(State'[net]) = 1
  <2>1. Exists(net)
    BY <1>1, <1>3, <1>4 DEF RegistryTypeOK, Exists
  <2> QED  BY <1>1, <1>3, <2>1, SoloObject DEF Pointer
<1>5. ASSUME NEW net \in Nets, Exists(net)
      PROVE  /\ Elements(Obj(The(net)).best') \subseteq Elements(Obj(The(net)).all')
             /\ \/ Elements(Obj(The(net)).all) \subseteq Elements(Obj(The(net)).all')
                \/ AllOff
  <2>1. /\ Obj(The(net)) \in NetworkState
        /\ Elements(Obj(The(net)).best) \subseteq Elements(Obj(The(net)).all)
    BY <1>1, <1>5, SoloObject, KnownByObject
  <2>2. CASE Silent
    BY <1>5, <2>1, <2>2 DEF Silent
  <2>3. ASSUME NEW n \in Nets, worker[n].pc = "run", Exists(n),
               NEW r \in Outcomes(worker[n].nodes), Publishes(n, r.best)
        PROVE  /\ Elements(Obj(The(net)).best') \subseteq Elements(Obj(The(net)).all')
               /\ Elements(Obj(The(net)).all) \subseteq Elements(Obj(The(net)).all')
    <3>1. Elements(r.best) \subseteq Elements(worker[n].nodes)
      BY <1>1, ListsTyped, OutcomeIsSound
    <3>2. Elements(worker[n].nodes) \subseteq Elements(Obj(The(n)).all)
      BY <2>3, KnownByObject
    <3> QED  BY <1>5, <2>1, <2>3, <3>1, <3>2 DEF Publishes
  <2>4. CASE Merges
    <3>1. Obj(The(net))' = PrunedAndMerged(Obj(The(net)), now)
      BY <1>5, <2>4 DEF Merges
    <3> QED  BY <2>1, <3>1, MergedState
  <2>5. ASSUME round = "drop", NEW url \in Urls, Drops(url)
        PROVE  /\ Elements(Obj(The(net)).best') \subseteq Elements(Obj(The(net)).all')
               /\ AllOff
    <3>1. Obj(The(net))' = Removed(Obj(The(net)), url)
      BY <1>5, <2>5 DEF Drops
    <3>2. AllOff
      BY <1>1, <2>5 DEF RoundBarrier
    <3> QED  BY <2>1, <3>1, <3>2, RemovedState
  <2> QED  BY <1>3, <2>2, <2>3, <2>4, <2>5 DEF AloneMoved
<1>6. ASSUME NEW net \in Nets, Exists(net), worker'[net].pc = "run"
      PROVE  Elements(worker'[net].nodes) \subseteq Elements(Obj(The(net)).all')
  <2>1. CASE worker[net].pc = "run" /\ worker'[net].nodes = worker[net].nodes
    BY <1>5, <1>6, <2>1, KnownByObject DEF AllOff
  <2>2. CASE UNCHANGED State /\ worker'[net].nodes = Obj(The(net)).all
    BY <2>2 DEF Obj
  <2> QED  BY <1>1, <1>6, <2>1, <2>2, ChecksMove
<1>7. ASSUME NEW net \in Nets
      PROVE  /\ Len(State'[net]) <= 1
             /\ State'[net] # <<>> =>
                   /\ Elements(State'[net][Len(State'[net])].best)
                         \subseteq Elements(State'[net][Len(State'[net])].all)
                   /\ worker'[net].pc = "run" =>
                         Elements(worker'[net].nodes)
                            \subseteq Elements(State'[net][Len(State'[net])].all)
  <2>1. Len(State'[net]) <= 1
    BY <1>1, <1>3 DEF Solo
  <2>2. Obj(The(net))' = State'[net][1]
    BY DEF Obj, The
  <2> QED  BY <1>4, <1>5, <1>6, <2>1, <2>2
<1>8. SnapshotsKnown'
  BY <1>7 DEF SnapshotsKnown, Exists, Served, Current, Pointer
<1> QED  BY <1>2, <1>8 DEF KnownInv

\* As long as the admin API is not used, no network serves a node that it does
\* not know: nothing that the loop, its goroutines and gossip do at the same
\* time brings back what was dropped.
THEOREM ServedKnown ==
    ASSUME Ops = {}
    PROVE  Spec => []ServedIsKnown
<1>1. KnownInv /\ [Next]_vars => KnownInv'
  BY KnownStep
<1>2. KnownInv => ServedIsKnown
  BY DEF KnownInv, SnapshotsKnown, ServedIsKnown, Present
<1> QED  BY KnownInit, <1>1, <1>2, PTL DEF Spec

\* The routing table's lists of nodes are the registry's.
LEMMA SameOperators ==
    /\ Table!Node = Node
    /\ \A S : Table!UrlsOf(S) = UrlsOf(S)
    /\ \A s : Table!Elements(s) = Elements(s)
    /\ \A s, url : Table!Without(s, url) = Without(s, url)
    /\ \A S : Table!Selections(S) = Selections(S)
<1>1. Table!Node = Node
  BY DEF Table!Node, Node
<1>2. \A S : Table!UrlsOf(S) = UrlsOf(S)
  BY DEF Table!UrlsOf, UrlsOf
<1>3. \A s : Table!Elements(s) = Elements(s)
  BY DEF Table!Elements, Elements
<1>0. \A S : Table!Cardinality(S) = Cardinality(S)
  BY DEF Table!Cardinality, Cardinality
<1>4. \A S, i : Table!Nth(S, i) = Nth(S, i)
  BY <1>0 DEF Table!Nth, Nth
<1>5. \A s, I : Table!Kept(s, I) = Kept(s, I)
  BY <1>0, <1>4 DEF Table!Kept, Kept
<1>6. \A s, url : Table!Without(s, url) = Without(s, url)
  BY <1>5 DEF Table!Without, Without
<1>7. \A S : Table!PriosOf(S) = PriosOf(S)
  BY DEF Table!PriosOf, PriosOf
<1>8. \A S : Table!Selections(S) = Selections(S)
  BY <1>0, <1>4, <1>7 DEF Table!Selections, Selections
<1> QED  BY <1>1, <1>2, <1>3, <1>6, <1>8

\* What the routing table sees of the objects.
LEMMA TableOfObjects ==
    RegistryTypeOK /\ Solo =>
       /\ Known \in [Nets -> SUBSET Node]
       /\ ServedList \in [Nets -> Seq(Node)]
       /\ \A net \in Nets :
             /\ Exists(net) => /\ Known[net] = Elements(Obj(The(net)).all)
                               /\ ServedList[net] = Obj(The(net)).best
             /\ ~Exists(net) => Known[net] = {} /\ ServedList[net] = <<>>
<1> SUFFICES ASSUME RegistryTypeOK, Solo
    PROVE  /\ Known \in [Nets -> SUBSET Node]
           /\ ServedList \in [Nets -> Seq(Node)]
           /\ \A net \in Nets :
                 /\ Exists(net) => /\ Known[net] = Elements(Obj(The(net)).all)
                                   /\ ServedList[net] = Obj(The(net)).best
                 /\ ~Exists(net) => Known[net] = {} /\ ServedList[net] = <<>>
  OBVIOUS
<1>1. ASSUME NEW net \in Nets
      PROVE  /\ Exists(net) => /\ Known[net] = Elements(Obj(The(net)).all)
                               /\ ServedList[net] = Obj(The(net)).best
             /\ ~Exists(net) => Known[net] = {} /\ ServedList[net] = <<>>
  <2>1. /\ Known[net] = IF Exists(net) THEN Elements(Current(net).all) ELSE {}
        /\ ServedList[net] = IF Exists(net) THEN Current(net).best ELSE <<>>
    BY DEF Known, ServedList
  <2>2. Exists(net) => Current(net) = Obj(The(net))
    BY SoloObject
  <2> QED  BY <2>1, <2>2
<1>2. \A s \in Seq(Node) : Elements(s) \subseteq Node
  BY DEF Elements
<1>3. ASSUME NEW net \in Nets
      PROVE  Known[net] \in SUBSET Node /\ ServedList[net] \in Seq(Node)
  <2>1. CASE Exists(net)
    <3>1. Obj(The(net)) \in NetworkState
      BY <2>1, SoloObject
    <3>2. Obj(The(net)).all \in Seq(Node) /\ Obj(The(net)).best \in Seq(Node)
      BY <3>1 DEF NetworkState
    <3> QED  BY <1>1, <1>2, <2>1, <3>2
  <2>2. CASE ~Exists(net)
    <3>1. <<>> \in Seq(Node)
      OBVIOUS
    <3> QED  BY <1>1, <2>2, <3>1
  <2> QED  BY <2>1, <2>2
<1>4. DOMAIN Known = Nets /\ DOMAIN ServedList = Nets
  BY DEF Known, ServedList
<1>5. Known = [net \in Nets |-> Known[net]] /\ ServedList = [net \in Nets |-> ServedList[net]]
  BY DEF Known, ServedList
<1> QED  BY <1>1, <1>3, <1>5

LEMMA TableInit == Init => Table!Init
<1> SUFFICES ASSUME Init PROVE Table!Init
  OBVIOUS
<1>1. ASSUME NEW net \in Nets
      PROVE  /\ Known[net] = IF net \in DOMAIN Config THEN Elements(Config[net]) ELSE {}
             /\ ServedList[net] = <<>>
  <2>1. CASE net \in DOMAIN Config
    <3>1. State[net] = <<NewState(Config[net], <<>>)>>
      BY <2>1 DEF Init, InitFromConfigs
    <3>2. Exists(net) /\ Current(net) = NewState(Config[net], <<>>)
      BY <3>1 DEF Exists, Current, Pointer
    <3> QED  BY <2>1, <3>2 DEF Known, ServedList, NewState
  <2>2. CASE net \notin DOMAIN Config
    <3>1. ~Exists(net)
      BY <2>2 DEF Init, InitFromConfigs, Exists
    <3> QED  BY <2>2, <3>1 DEF Known, ServedList
  <2> QED  BY <2>1, <2>2
<1>2. Known = [net \in Nets |-> IF net \in DOMAIN Config THEN Elements(Config[net]) ELSE {}]
  BY <1>1 DEF Known
<1>3. ServedList = [net \in Nets |-> <<>>]
  BY <1>1 DEF ServedList
<1> QED  BY <1>2, <1>3, SameOperators DEF Table!Init

\* An answer of a check is a selection of the nodes that may be alive.
LEMMA OutcomeIsSelection ==
    ASSUME NEW nodes \in Seq(Node), NEW r \in Outcomes(nodes), NEW K, Elements(nodes) \subseteq K
    PROVE  \E alive \in SUBSET {n \in K : n.url \notin NeverAlive} : r.best \in Selections(alive)
<1>1. PICK I \in SUBSET {i \in DOMAIN nodes : nodes[i].url \notin NeverAlive} :
         r \in [best  : Selections({nodes[i] : i \in I}),
                fatal : SUBSET {nodes[i].url : i \in DOMAIN nodes \ I}]
  BY DEF Outcomes
<1> DEFINE alive == {nodes[i] : i \in I}
<1>2. r.best \in Selections(alive)
  BY <1>1
<1>3. alive \subseteq {n \in K : n.url \notin NeverAlive}
  BY DEF Elements
<1> HIDE DEF alive
<1> QED  BY <1>2, <1>3

LEMMA TableStep == Ops = {} => (KnownInv /\ [Next]_vars => [Table!Next]_<<Known, ServedList>>)
<1> SUFFICES ASSUME Ops = {}, KnownInv, [Next]_vars PROVE [Table!Next]_<<Known, ServedList>>
  OBVIOUS
<1>0. (RegistryTypeOK /\ Solo =>
         /\ Known \in [Nets -> SUBSET Node]
         /\ ServedList \in [Nets -> Seq(Node)]
         /\ \A net \in Nets :
               /\ Exists(net) => /\ Known[net] = Elements(Obj(The(net)).all)
                                 /\ ServedList[net] = Obj(The(net)).best
               /\ ~Exists(net) => Known[net] = {} /\ ServedList[net] = <<>>)'
  BY TableOfObjects, PTL
<1>1. Typed /\ RoundBarrier /\ RegistryTypeOK /\ Solo
  BY DEF KnownInv, Typed, TypeOK, SnapshotsKnown, Solo
<1>2. AloneMoved /\ RegistryTypeOK' /\ \A net \in Nets : Len(State'[net]) = Len(State[net])
  BY <1>1, AloneMoves
<1>3. Solo'
  BY <1>1, <1>2 DEF Solo
<1>4. \A net \in Nets : State'[net] # <<>> <=> State[net] # <<>>
  <2>1. \A s, t \in Seq(NetworkState) : Len(s) = Len(t) => (s # <<>> <=> t # <<>>)
    OBVIOUS
  <2> QED  BY <1>1, <1>2, <2>1 DEF RegistryTypeOK
<1>5. \A net \in Nets :
         /\ Exists(net) => /\ Known[net] = Elements(Obj(The(net)).all)
                           /\ ServedList[net] = Obj(The(net)).best
         /\ ~Exists(net) => Known[net] = {} /\ ServedList[net] = <<>>
  BY <1>1, TableOfObjects
<1>6. \A net \in Nets :
         /\ Exists(net) => /\ Known'[net] = Elements(Obj(The(net)).all')
                           /\ ServedList'[net] = Obj(The(net)).best'
         /\ ~Exists(net) => Known'[net] = {} /\ ServedList'[net] = <<>>
  <2>1. \A net \in Nets :
           /\ Exists(net)' => /\ Known'[net] = Elements(Obj(The(net)).all')
                              /\ ServedList'[net] = Obj(The(net)).best'
           /\ ~Exists(net)' => Known'[net] = {} /\ ServedList'[net] = <<>>
    BY <1>0, <1>2, <1>3 DEF Elements
  <2>2. \A net \in Nets : Exists(net)' <=> Exists(net)
    BY <1>4 DEF Exists
  <2> QED  BY <2>1, <2>2
<1>7. /\ Known \in [Nets -> SUBSET Node] /\ ServedList \in [Nets -> Seq(Node)]
      /\ Known' \in [Nets -> SUBSET Node] /\ ServedList' \in [Nets -> Seq(Node)]
  BY <1>0, <1>1, <1>2, <1>3, TableOfObjects
<1> HIDE DEF Known, ServedList
<1>8. CASE Silent
  <2>1. \A net \in Nets : Known'[net] = Known[net] /\ ServedList'[net] = ServedList[net]
    BY <1>5, <1>6, <1>8 DEF Silent
  <2>2. Known' = Known /\ ServedList' = ServedList
    BY <1>7, <2>1
  <2> QED  BY <2>2
<1>9. ASSUME NEW net \in Nets, worker[net].pc = "run", Exists(net),
             NEW r \in Outcomes(worker[net].nodes), Publishes(net, r.best)
      PROVE  Table!Publish(net)
  <2>1. \A n \in Nets : /\ Known'[n] = Known[n]
                        /\ ServedList'[n] = IF n = net THEN r.best ELSE ServedList[n]
    <3>1. ASSUME NEW n \in Nets
          PROVE  /\ Known'[n] = Known[n]
                 /\ ServedList'[n] = IF n = net THEN r.best ELSE ServedList[n]
      <4>1. CASE Exists(n)
        <5>1. /\ Obj(The(n)).all' = Obj(The(n)).all
              /\ Obj(The(n)).best' = IF n = net THEN r.best ELSE Obj(The(n)).best
          BY <1>9, <4>1 DEF Publishes
        <5> QED  BY <1>5, <1>6, <4>1, <5>1
      <4>2. CASE ~Exists(n)
        <5>1. n # net
          BY <1>9, <4>2
        <5> QED  BY <1>5, <1>6, <4>2, <5>1
      <4> QED  BY <4>1, <4>2
    <3> QED  BY <3>1
  <2>2. Known' = Known /\ ServedList' = [ServedList EXCEPT ![net] = r.best]
    BY <1>7, <2>1
  <2>3. worker[net].nodes \in Seq(Node) /\ Elements(worker[net].nodes) \subseteq Known[net]
    BY <1>1, <1>5, <1>9, ListsTyped, KnownByObject
  <2>4. PICK alive \in SUBSET {n \in Known[net] : n.url \notin NeverAlive} :
           r.best \in Selections(alive)
    BY <2>3, OutcomeIsSelection
  <2> QED  BY <2>2, <2>4, SameOperators DEF Table!Publish
<1>10. CASE Merges
  <2>1. ASSUME NEW net \in Nets
        PROVE  /\ ServedList'[net] = ServedList[net]
               /\ Known[net] \subseteq Known'[net]
               /\ \A n \in Known'[net] \ Known[net] :
                     /\ n.url \notin UrlsOf(Known[net])
                     /\ \A x \in Known'[net] \ Known[net] : x.url = n.url => x = n
    <3>1. CASE Exists(net)
      <4> DEFINE st == Obj(The(net))  st2 == PrunedAndMerged(st, now)
      <4>1. st \in NetworkState /\ Obj(The(net))' = st2
        BY <1>1, <1>10, <3>1, SoloObject DEF Merges
      <4>2. /\ Known[net] = Elements(st.all) /\ ServedList[net] = st.best
            /\ Known'[net] = Elements(st2.all) /\ ServedList'[net] = st2.best
        BY <1>5, <1>6, <3>1, <4>1
      <4>3. /\ st2.best = st.best
            /\ Elements(st.all) \subseteq Elements(st2.all)
            /\ \A n \in Elements(st2.all) \ Elements(st.all) :
                  /\ n.url \notin UrlsOf(Elements(st.all))
                  /\ \A m \in Elements(st2.all) \ Elements(st.all) : n.url = m.url => n = m
        BY <4>1, MergedState
      <4> HIDE DEF st, st2
      <4> QED  BY <4>2, <4>3
    <3>2. CASE ~Exists(net)
      BY <1>5, <1>6, <3>2
    <3> QED  BY <3>1, <3>2
  <2>2. ServedList' = ServedList
    BY <1>7, <2>1
  <2>3. Table!Learn
    BY <1>7, <2>1, <2>2, SameOperators DEF Table!Learn
  <2> QED  BY <2>3 DEF Table!Next
<1>11. ASSUME NEW url \in Urls, Drops(url)
       PROVE  Table!Forget(url)
  <2>1. Without(<<>>, url) = <<>>
    <3>1. <<>> \in Seq(Node) /\ Elements(<<>>) = {}
      BY DEF Elements
    <3>2. Without(<<>>, url) \in Seq(Node) /\ Elements(Without(<<>>, url)) = {}
      BY <3>1, WithoutIsList
    <3>3. \A s \in Seq(Node) : Elements(s) = {} => s = <<>>
      <4> SUFFICES ASSUME NEW s \in Seq(Node), s # <<>> PROVE Elements(s) # {}
        OBVIOUS
      <4>1. 1 \in DOMAIN s
        OBVIOUS
      <4> QED  BY <4>1 DEF Elements
    <3> QED  BY <3>2, <3>3
  <2>2. ASSUME NEW net \in Nets
        PROVE  /\ Known'[net] = {n \in Known[net] : n.url # url}
               /\ ServedList'[net] = Without(ServedList[net], url)
    <3>1. CASE Exists(net)
      <4> DEFINE st == Obj(The(net))  st2 == Removed(st, url)
      <4>1. st \in NetworkState /\ Obj(The(net))' = st2
        BY <1>1, <1>11, <3>1, SoloObject DEF Drops
      <4>2. /\ Known[net] = Elements(st.all) /\ ServedList[net] = st.best
            /\ Known'[net] = Elements(st2.all) /\ ServedList'[net] = st2.best
        BY <1>5, <1>6, <3>1, <4>1
      <4>3. Elements(st2.all) = {n \in Elements(st.all) : n.url # url}
        BY <4>1, RemovedState
      <4>4. st2.best = Without(st.best, url)
        BY DEF Removed
      <4> HIDE DEF st, st2
      <4> QED  BY <4>2, <4>3, <4>4
    <3>2. CASE ~Exists(net)
      BY <1>5, <1>6, <2>1, <3>2
    <3> QED  BY <3>1, <3>2
  <2>3. Known' = [net \in Nets |-> {n \in Known[net] : n.url # url}]
    BY <1>7, <2>2
  <2>4. ServedList' = [net \in Nets |-> Without(ServedList[net], url)]
    BY <1>7, <2>2
  <2> QED  BY <2>3, <2>4, SameOperators DEF Table!Forget
<1> QED  BY <1>2, <1>8, <1>9, <1>10, <1>11 DEF AloneMoved, Table!Next

\* As long as the admin API is not used, the registry, with its unlocked reads,
\* old snapshots and marks, does nothing that the routing table does not: every
\* step learns nodes, publishes a selection of known ones, forgets a URL
\* everywhere at once, or shows nothing.
THEOREM Implements ==
    ASSUME Ops = {}
    PROVE  Spec => ImplementsRoutingTable
<1>1. Init => KnownInv /\ Table!Init
  BY KnownInit, TableInit
<1>2. KnownInv /\ [Next]_vars => KnownInv'
  BY KnownStep
<1>3. KnownInv /\ [Next]_vars => [Table!Next]_<<Known, ServedList>>
  BY TableStep
<1> QED  BY <1>1, <1>2, <1>3, PTL DEF Spec, ImplementsRoutingTable, Table!Spec
-----------------------------------------------------------------------------
(* The cap on Discovered. *)

\* The Discovered list of object x after a step is no longer than it was, or
\* is what a gossip handler writes.
DiscMoved(x) ==
    \/ Len(Obj(x).disc') = 0
    \/ Valid(x) /\ Len(Obj(x).disc') <= Len(Obj(x).disc)
    \/ \E m \in Msgs, d \in DiscoveredNode :
          GossipWrite(m) /\ Obj(x).disc' = Append(gossip[m].held, d)

LEMMA FilterShortens ==
    ASSUME NEW T, NEW s \in Seq(T), NEW I \in SUBSET DOMAIN s
    PROVE  Len(Kept(s, I)) <= Len(s)
<1>1. DOMAIN s = 1..Len(s) /\ Len(s) \in Nat
  OBVIOUS
<1>2. IsFiniteSet(1..Len(s)) /\ Cardinality(1..Len(s)) = Len(s)
  <2>1. \A k \in Nat : IsFiniteSet(1..k) /\ Cardinality(1..k) = IF 1 > k THEN 0 ELSE k - 1 + 1
    BY FS_Interval
  <2> QED  BY <1>1, <2>1
<1>3. Cardinality(I) <= Cardinality(1..Len(s))
  BY <1>1, <1>2, FS_Subset
<1> QED  BY <1>2, <1>3, KeptIsList

LEMMA DiscMoves ==
    ASSUME Typed, [Next]_vars, NEW x \in Objects, Valid(x)'
    PROVE  DiscMoved(x)
<1>1. RegistryTypeOK
  BY DEF Typed, TypeOK
<1>2. Valid(x) => Obj(x) \in NetworkState /\ Obj(x).disc \in Seq(DiscoveredNode)
                  /\ Len(Obj(x).disc) \in Nat
  BY <1>1, ObjType
<1>3. ASSUME Valid(x), Obj(x).disc' = Obj(x).disc PROVE DiscMoved(x)
  BY <1>2, <1>3 DEF DiscMoved
<1>4. ASSUME UNCHANGED State PROVE DiscMoved(x)
  BY <1>3, <1>4 DEF Valid, Obj
<1>5. ASSUME NEW w \in Objects, NEW st, Only(w, st), st.disc = Obj(w).disc
      PROVE  DiscMoved(x)
  <2>1. Valid(x) /\ Obj(x)' = IF x = w THEN st ELSE Obj(x)
    BY <1>5 DEF Only
  <2> QED  BY <1>3, <1>5, <2>1
<1>6. ASSUME NEW net \in Nets, NEW best \in Seq(Node), SetBest(net, best)
      PROVE  DiscMoved(x)
  <2> DEFINE w == Ref(net)  st == [Obj(w) EXCEPT !.best = best]
  <2>1. CASE Exists(net) /\ Only(w, st)
    <3>1. w \in Objects
      BY <1>1, <2>1, CurrentIsValid
    <3>2. st.disc = Obj(w).disc
      OBVIOUS
    <3> HIDE DEF w, st
    <3> QED  BY <1>5, <2>1, <3>1, <3>2
  <2> QED  BY <1>1, <1>4, <1>6, <2>1, SetBestEffect
<1>7. CASE HealthStep
  <2>1. CASE \/ \E net \in Nets : PickLimiter(net) \/ ReadFirst(net) \/ StartCheck(net)
             \/ Booted \/ Spawn \/ Drain \/ RoundDone
    BY <1>4, <2>1 DEF PickLimiter, ReadFirst, StartCheck, Booted, Spawn, Drain, RoundDone
  <2>2. ASSUME NEW net \in Nets, Publish(net) PROVE DiscMoved(x)
    <3>1. PICK r \in Outcomes(worker[net].nodes) : SetBest(net, r.best)
      BY <2>2 DEF Publish
    <3>2. r.best \in Seq(Node)
      BY ListsTyped, OutcomeIsSound
    <3> QED  BY <1>6, <3>1, <3>2
  <2>3. ASSUME NEW F, EachBy([st \in NetworkState |-> F[st]]),
               \A st \in NetworkState : Len(F[st].disc) <= Len(st.disc)
        PROVE  DiscMoved(x)
    <3>1. Valid(x) /\ Obj(x) \in NetworkState /\ (Obj(x)' = Obj(x) \/ Obj(x)' = F[Obj(x)])
      BY <1>1, <2>3, EachMoves
    <3>2. Len(Obj(x).disc') <= Len(Obj(x).disc)
      BY <1>2, <2>3, <3>1
    <3> QED  BY <3>1, <3>2 DEF DiscMoved
  <2>4. CASE Tick
    <3> DEFINE F == [st \in NetworkState |-> PrunedAndMerged(st, now)]
    <3>1. EachBy(F)
      BY <1>1, <2>4, PruneEffect DEF Tick
    <3>2. ASSUME NEW st \in NetworkState PROVE Len(F[st].disc) <= Len(st.disc)
      <4>1. st.disc \in Seq(DiscoveredNode)
        BY DEF NetworkState
      <4>2. Len(Unexpired(st.disc, now)) <= Len(st.disc)
        BY <4>1, FilterShortens DEF Unexpired
      <4>3. PrunedAndMerged(st, now).disc = Unexpired(st.disc, now)
        BY DEF PrunedAndMerged, NetworkState
      <4> QED  BY <4>2, <4>3
    <3>3. F = [st \in NetworkState |-> F[st]]
      OBVIOUS
    <3> HIDE DEF F
    <3> QED  BY <2>3, <3>1, <3>2, <3>3
  <2>5. ASSUME NEW url \in Urls, Drop(url) PROVE DiscMoved(x)
    <3> DEFINE F == [st \in NetworkState |-> Removed(st, url)]
    <3>1. EachBy(F)
      BY <1>1, <2>5, RemoveEffect DEF Drop
    <3>2. ASSUME NEW st \in NetworkState PROVE Len(F[st].disc) <= Len(st.disc)
      <4>1. st.disc \in Seq(DiscoveredNode)
        BY DEF NetworkState
      <4>2. Len(Kept(st.disc, {i \in DOMAIN st.disc : st.disc[i].node.url # url})) <= Len(st.disc)
        BY <4>1, FilterShortens
      <4> QED  BY <4>2 DEF Removed
    <3>3. F = [st \in NetworkState |-> F[st]]
      OBVIOUS
    <3> HIDE DEF F
    <3> QED  BY <2>3, <3>1, <3>2, <3>3
  <2> QED  BY <1>7, <2>1, <2>2, <2>4, <2>5 DEF HealthStep
<1>8. ASSUME NEW o \in Ops, AdminStep(o) PROVE DiscMoved(x)
  <2>1. CASE \/ AddNodeBegin(o) \/ AddNodeCheck(o) \/ DeleteBegin(o) \/ DeleteReadBest(o)
             \/ DeleteReadAll(o) \/ AddNetworkBegin(o) \/ AddNetworkCheck(o)
    BY <1>4, <2>1 DEF AddNodeBegin, AddNodeCheck, DeleteBegin, DeleteReadBest, DeleteReadAll,
                      AddNetworkBegin, AddNetworkCheck
  <2>2. CASE AddNodeStore(o)
    <3>1. o.net \in Nets /\ o.node \in Node /\ AddNode(o.net, o.node)
      BY <2>2, OpFields DEF AddNodeStore
    <3> DEFINE w == Ref(o.net)  st == [Obj(w) EXCEPT !.all = Append(@, o.node)]
    <3>2. CASE Exists(o.net) /\ Only(w, st)
      <4>1. w \in Objects
        BY <1>1, <3>1, <3>2, CurrentIsValid
      <4>2. st.disc = Obj(w).disc
        OBVIOUS
      <4> HIDE DEF w, st
      <4> QED  BY <1>5, <3>2, <4>1, <4>2
    <3> QED  BY <1>1, <1>4, <3>1, <3>2, AddNodeEffect
  <2>3. CASE AddNodeServe(o)
    <3>1. o.net \in Nets /\ o.node \in Node /\ AppendBest(o.net, o.node)
      BY <2>3, OpFields DEF AddNodeServe
    <3> DEFINE w == Ref(o.net)  st == [Obj(w) EXCEPT !.best = Append(@, o.node)]
    <3>2. CASE Exists(o.net) /\ Only(w, st)
      <4>1. w \in Objects
        BY <1>1, <3>1, <3>2, CurrentIsValid
      <4>2. st.disc = Obj(w).disc
        OBVIOUS
      <4> HIDE DEF w, st
      <4> QED  BY <1>5, <3>2, <4>1, <4>2
    <3> QED  BY <1>1, <1>4, <3>1, <3>2, AppendBestEffect
  <2>4. CASE DeleteSetBest(o)
    <3>1. o.net \in Nets /\ SetBest(o.net, req[o].best) /\ req[o].best \in Seq(Node)
      BY <2>4, OpFields, ListsTyped DEF DeleteSetBest
    <3> QED  BY <1>6, <3>1
  <2>5. CASE DeleteSetAll(o)
    <3> DEFINE w == Ref(o.net)  st == [Obj(w) EXCEPT !.all = req[o].all]
    <3>1. o.net \in Nets /\ Exists(o.net) /\ Only(w, st)
      BY <2>5, SetAllEffect, OpFields DEF DeleteSetAll
    <3>2. w \in Objects
      BY <1>1, <3>1, CurrentIsValid
    <3>3. st.disc = Obj(w).disc
      OBVIOUS
    <3> HIDE DEF w, st
    <3> QED  BY <1>5, <3>1, <3>2, <3>3
  <2>6. CASE AddNetworkStore(o)
    <3>1. /\ Cfg(o).net \in Nets /\ Cfg(o).nodes \in Seq(Node) /\ req[o].best \in Seq(Node)
          /\ AddNetwork(Cfg(o).net, Cfg(o).nodes, req[o].best)
      BY <2>6, CfgFields, ListsTyped DEF AddNetworkStore
    <3>2. \/ Valid(x) /\ Obj(x)' = Obj(x)
          \/ Obj(x)' = NewState(Cfg(o).nodes, req[o].best)
      BY <1>1, <3>1, AddNetworkEffect
    <3>3. Len(NewState(Cfg(o).nodes, req[o].best).disc) = 0
      BY DEF NewState
    <3> QED  BY <1>3, <3>2, <3>3 DEF DiscMoved
  <2> QED  BY <1>8, <2>1, <2>2, <2>3, <2>4, <2>5, <2>6 DEF AdminStep
<1>9. ASSUME NEW m \in Msgs, GossipStep(m) PROVE DiscMoved(x)
  <2>1. CASE GossipBegin(m) \/ GossipAdvert(m) \/ GossipCap(m) \/ GossipLoad(m)
    BY <1>4, <2>1 DEF GossipBegin, GossipAdvert, GossipCap, GossipLoad
  <2>2. CASE GossipWrite(m)
    <3> PICK w \in Objects, d \in DiscoveredNode :
          Valid(w) /\ Only(w, [Obj(w) EXCEPT !.disc = Append(gossip[m].held, d)])
      BY <2>2, WriteEffect
    <3> DEFINE st == [Obj(w) EXCEPT !.disc = Append(gossip[m].held, d)]
    <3>1. st.disc = Append(gossip[m].held, d)
      BY <1>1, ObjType DEF NetworkState
    <3>2. Valid(x) /\ Obj(x)' = IF x = w THEN st ELSE Obj(x)
      BY DEF Only
    <3> HIDE DEF st
    <3>3. CASE x = w
      BY <2>2, <3>1, <3>2, <3>3 DEF DiscMoved
    <3>4. CASE x # w
      BY <1>3, <3>2, <3>4
    <3> QED  BY <3>3, <3>4
  <2> QED  BY <1>9, <2>1, <2>2 DEF GossipStep
<1>10. CASE Advance \/ UNCHANGED vars
  BY <1>4, <1>10 DEF Advance, vars
<1> QED  BY <1>7, <1>8, <1>9, <1>10 DEF Next

\* With one gossip handler, Discovered has room when the handler has found that
\* it has, until it has written: meanwhile nobody else makes the list longer.
RoomFor(m) ==
    /\ gossip[m].pc = "load" => Len(Discovered(m)) < MaxDiscovered
    /\ gossip[m].pc = "write" => Len(gossip[m].held) < MaxDiscovered

CapInv ==
    /\ Typed
    /\ \A x \in Objects : Valid(x) => Len(Obj(x).disc) <= MaxDiscovered
    /\ \A m \in Msgs : RoomFor(m)

\* A handler that has not written yet holds what it held, or has just tested
\* or loaded the list.
LEMMA HandlerMoves ==
    ASSUME Typed, [Next]_vars, NEW m \in Msgs
    PROVE  \/ gossip'[m] = gossip[m]
           \/ gossip'[m].pc \notin {"load", "write"}
           \/ /\ gossip[m].pc = "cap" /\ gossip[m].plan # <<>>
              /\ Len(Discovered(m)) < MaxDiscovered /\ UNCHANGED State
              /\ gossip'[m].pc = "load"
              /\ gossip'[m].i = gossip[m].i /\ gossip'[m].ptr = gossip[m].ptr
           \/ /\ gossip[m].pc = "load" /\ UNCHANGED State
              /\ gossip'[m].pc = "write" /\ gossip'[m].held = Discovered(m)
<1> DEFINE Goal == \/ gossip'[m] = gossip[m]
                   \/ gossip'[m].pc \notin {"load", "write"}
                   \/ /\ gossip[m].pc = "cap" /\ gossip[m].plan # <<>>
                      /\ Len(Discovered(m)) < MaxDiscovered /\ UNCHANGED State
                      /\ gossip'[m].pc = "load"
                      /\ gossip'[m].i = gossip[m].i /\ gossip'[m].ptr = gossip[m].ptr
                   \/ /\ gossip[m].pc = "load" /\ UNCHANGED State
                      /\ gossip'[m].pc = "write" /\ gossip'[m].held = Discovered(m)
<1>1. CASE HealthStep \/ (\E o \in Ops : AdminStep(o)) \/ Advance \/ UNCHANGED vars
  <2>1. UNCHANGED gossip
    BY <1>1 DEF HealthStep, PickLimiter, ReadFirst, StartCheck, Publish, Booted, Tick, Spawn, Drain,
                RoundDone, Drop, AdminStep, AddNodeBegin, AddNodeCheck, AddNodeStore, AddNodeServe,
                DeleteBegin, DeleteReadBest, DeleteSetBest, DeleteReadAll, DeleteSetAll,
                AddNetworkBegin, AddNetworkCheck, AddNetworkStore, Step, Advance, vars
  <2> QED  BY <2>1
<1>2. ASSUME NEW p \in Msgs, GossipStep(p) PROVE Goal
  <2>1. \A g : Handle(p, g) => gossip'[m] = IF m = p THEN g ELSE gossip[m]
    BY DEF Handle, Typed, TypeOK
  <2>2. gossip[p] \in Handler
    BY HandlerFields
  <2>4. CASE GossipBegin(p)
    <3> DEFINE g == [gossip[p] EXCEPT !.pc = "advert", !.ptr = [net \in Nets |-> Pointer(net)]]
    <3>1. gossip'[m] = gossip[m] \/ gossip'[m].pc = "advert"
      <4>1. Handle(p, g) /\ g.pc = "advert"
        BY <2>2, <2>4 DEF GossipBegin, Handler
      <4> HIDE DEF g
      <4> QED  BY <2>1, <4>1
    <3> QED  BY <3>1
  <2>5. CASE GossipAdvert(p)
    <3>1. \/ gossip'[m] = gossip[m]
          \/ gossip'[m] = [Undelivered EXCEPT !.pc = "done"]
          \/ gossip'[m] = [gossip[p] EXCEPT !.pc = "cap", !.plan = Plan(p, p.adverts[gossip[p].i])]
      BY <2>1, <2>5 DEF GossipAdvert
    <3>2. gossip'[m] = gossip[m] \/ gossip'[m].pc \in {"cap", "done"}
      BY <2>2, <3>1 DEF Handler, Undelivered
    <3> QED  BY <3>2
  <2>6. CASE GossipCap(p)
    <3>1. CASE gossip[p].plan # <<>> /\ ~(Len(Discovered(p)) >= MaxDiscovered)
      <4>1. gossip[p].pc = "cap" /\ UNCHANGED State /\ Handle(p, [gossip[p] EXCEPT !.pc = "load"])
        BY <2>6, <3>1 DEF GossipCap
      <4>2. gossip'[m] = IF m = p THEN [gossip[p] EXCEPT !.pc = "load"] ELSE gossip[m]
        BY <2>1, <4>1
      <4>3. Len(Discovered(p)) \in Nat
        BY <3>1, <4>1, DiscoveredObject
      <4>4. Len(Discovered(p)) < MaxDiscovered
        BY <3>1, <4>3, ControlPlaneAssumption
      <4> QED  BY <2>2, <3>1, <4>1, <4>2, <4>4 DEF Handler
    <3>2. CASE gossip[p].plan = <<>>
      <4>1. Handle(p, [gossip[p] EXCEPT !.pc = "advert", !.i = @ + 1])
        BY <2>6, <3>2 DEF GossipCap
      <4> DEFINE g == [gossip[p] EXCEPT !.pc = "advert", !.i = @ + 1]
      <4>3. g.pc = "advert" /\ Handle(p, g)
        BY <2>2, <4>1 DEF Handler
      <4> HIDE DEF g
      <4>2. gossip'[m] = gossip[m] \/ gossip'[m].pc = "advert"
        BY <2>1, <4>3
      <4> QED  BY <4>2
    <3>3. CASE gossip[p].plan # <<>> /\ Len(Discovered(p)) >= MaxDiscovered
      <4>1. gossip[p].pc = "cap" /\ Handle(p, [gossip[p] EXCEPT !.plan = Tail(@)])
        BY <2>6, <3>3 DEF GossipCap
      <4>2. gossip'[m] = gossip[m] \/ gossip'[m].pc = "cap"
        BY <2>1, <2>2, <4>1 DEF Handler
      <4> QED  BY <4>2
    <3> QED  BY <3>1, <3>2, <3>3
  <2>7. CASE GossipLoad(p)
    <3> DEFINE g == [gossip[p] EXCEPT !.pc = "write", !.held = Discovered(p)]
    <3>1. /\ gossip[p].pc = "load" /\ UNCHANGED State /\ Handle(p, g)
          /\ g.pc = "write" /\ g.held = Discovered(p)
      BY <2>2, <2>7 DEF GossipLoad, Handler
    <3> HIDE DEF g
    <3>2. gossip'[m] = IF m = p THEN g ELSE gossip[m]
      BY <2>1, <3>1
    <3> QED  BY <3>1, <3>2
  <2>8. CASE GossipWrite(p)
    <3> DEFINE g == [gossip[p] EXCEPT !.pc = "cap", !.plan = Tail(@), !.held = <<>>]
    <3>1. gossip'[m] = gossip[m] \/ gossip'[m].pc = "cap"
      <4>1. Handle(p, g) /\ g.pc = "cap"
        BY <2>2, <2>8 DEF GossipWrite, Handler
      <4> HIDE DEF g
      <4> QED  BY <2>1, <4>1
    <3> QED  BY <3>1
  <2> QED  BY <1>2, <2>4, <2>5, <2>6, <2>7, <2>8 DEF GossipStep
<1> QED  BY <1>1, <1>2 DEF Next

LEMMA CapInit == Init => CapInv
<1> SUFFICES ASSUME Init PROVE CapInv
  OBVIOUS
<1>1. Typed /\ RegistryTypeOK
  BY InitTyped DEF Typed, TypeOK
<1>2. ASSUME NEW x \in Objects, Valid(x) PROVE Len(Obj(x).disc) <= MaxDiscovered
  <2>1. x.net \in Nets
    BY DEF Objects
  <2>2. x.net \in DOMAIN Config /\ Obj(x) = NewState(Config[x.net], <<>>)
    BY <1>2, <2>1 DEF Init, InitFromConfigs, Valid, Obj
  <2>3. Len(Obj(x).disc) = 0
    BY <2>2 DEF NewState
  <2> QED  BY <2>3, ControlPlaneAssumption
<1>3. \A m \in Msgs : RoomFor(m)
  BY DEF Init, Undelivered, RoomFor
<1> QED  BY <1>1, <1>2, <1>3 DEF CapInv

\* The object a handler's advert is about.
AdvertRef(m) == [net |-> AdvertNet(m), ptr |-> gossip[m].ptr[AdvertNet(m)]]

\* The objects' Discovered lists, and the one a handler is about to load.
LEMMA DiscTyped ==
    /\ RegistryTypeOK =>
          \A x \in Objects : Valid(x) => /\ Obj(x).disc \in Seq(DiscoveredNode)
                                       /\ Len(Obj(x).disc) \in Nat
    /\ Typed =>
          \A m \in Msgs : \A x :
             gossip[m].pc = "load" /\ x = AdvertRef(m) =>
                x \in Objects /\ Valid(x) /\ Obj(x).disc = Discovered(m)
<1>1. RegistryTypeOK =>
          \A x \in Objects : Valid(x) => /\ Obj(x).disc \in Seq(DiscoveredNode)
                                       /\ Len(Obj(x).disc) \in Nat
  BY ObjType
<1>2. ASSUME Typed, NEW m \in Msgs, gossip[m].pc = "load"
      PROVE  LET x == AdvertRef(m)
             IN  x \in Objects /\ Valid(x) /\ Obj(x).disc = Discovered(m)
  <2>1. gossip[m].plan # <<>>
    BY <1>2, HandlerFields DEF HandlerOK
  <2> QED  BY <1>2, <2>1, DiscoveredObject DEF AdvertRef
<1> QED  BY <1>1, <1>2

LEMMA CapStep ==
    (\A m, p \in Msgs : m = p) => (CapInv /\ [Next]_vars => CapInv')
<1> SUFFICES ASSUME \A m, p \in Msgs : m = p, CapInv, [Next]_vars PROVE CapInv'
  OBVIOUS
<1>1. Typed /\ Typed' /\ RegistryTypeOK
  BY NextTyped DEF CapInv, Typed, TypeOK
<1>2. MaxDiscovered \in Nat
  BY ControlPlaneAssumption
<1>5. RegistryTypeOK' /\ \A x \in Objects : Valid(x)' => Len(Obj(x).disc') \in Nat
  <2>1. (RegistryTypeOK =>
          \A x \in Objects : Valid(x) => /\ Obj(x).disc \in Seq(DiscoveredNode)
                                       /\ Len(Obj(x).disc) \in Nat)'
    BY DiscTyped, PTL
  <2> QED  BY <1>1, <2>1 DEF Typed, TypeOK
<1>6. \A m \in Msgs : \A x :
         gossip'[m].pc = "load" /\ x = AdvertRef(m)' =>
            x \in Objects /\ Valid(x)' /\ Obj(x).disc' = Discovered(m)'
  <2>1. (Typed =>
          \A m \in Msgs : \A x :
             gossip[m].pc = "load" /\ x = AdvertRef(m) =>
                x \in Objects /\ Valid(x) /\ Obj(x).disc = Discovered(m))'
    BY DiscTyped, PTL
  <2> QED  BY <1>1, <2>1
<1>3. ASSUME NEW x \in Objects, Valid(x)' PROVE Len(Obj(x).disc') <= MaxDiscovered
  <2>1. CASE Len(Obj(x).disc') = 0
    BY <1>2, <2>1
  <2>2. CASE Valid(x) /\ Len(Obj(x).disc') <= Len(Obj(x).disc)
    <3>1. Len(Obj(x).disc) \in Nat /\ Len(Obj(x).disc) <= MaxDiscovered
      BY <1>1, <2>2, ObjType DEF CapInv
    <3>2. Len(Obj(x).disc') \in Nat
      BY <1>3, <1>5
    <3> QED  BY <1>2, <2>2, <3>1, <3>2
  <2>3. ASSUME NEW m \in Msgs, NEW d \in DiscoveredNode,
               GossipWrite(m), Obj(x).disc' = Append(gossip[m].held, d)
        PROVE  Len(Obj(x).disc') <= MaxDiscovered
    <3>1. gossip[m].held \in Seq(DiscoveredNode)
      BY <1>1, HandlerFields
    <3>2. Len(gossip[m].held) < MaxDiscovered
      BY <2>3 DEF CapInv, RoomFor, GossipWrite
    <3> QED  BY <1>2, <2>3, <3>1, <3>2
  <2> QED  BY <1>1, <1>3, <2>1, <2>2, <2>3, DiscMoves DEF DiscMoved
<1>4. ASSUME NEW m \in Msgs PROVE RoomFor(m)'
  <2>0. PICK x : x = AdvertRef(m)
    OBVIOUS
  <2>1. CASE gossip'[m] = gossip[m]
    <3>1. CASE gossip[m].pc = "load"
      <4>2. x \in Objects /\ Valid(x) /\ Obj(x).disc = Discovered(m)
        BY <1>1, <2>0, <3>1, DiscTyped
      <4>3. AdvertRef(m)' = x
        BY <2>0, <2>1 DEF AdvertNet, AdvertRef
      <4>4. Valid(x)' /\ Discovered(m)' = Obj(x).disc'
        BY <1>6, <2>1, <3>1, <4>3
      <4>5. Len(Obj(x).disc) < MaxDiscovered /\ Len(Obj(x).disc) \in Nat
        BY <1>1, <3>1, <4>2, DiscTyped DEF CapInv, RoomFor
      <4>6. ~\E p \in Msgs : GossipWrite(p)
        BY <3>1 DEF GossipWrite
      <4>7. DiscMoved(x)
        BY <1>1, <4>2, <4>4, DiscMoves
      <4>8. Len(Obj(x).disc') < MaxDiscovered
        <5>1. CASE Len(Obj(x).disc') = 0
          BY <1>2, <4>5, <5>1
        <5>2. CASE Len(Obj(x).disc') <= Len(Obj(x).disc)
          <6>1. Len(Obj(x).disc') \in Nat
            BY <1>5, <4>2, <4>4
          <6> QED  BY <1>2, <4>5, <5>2, <6>1
        <5> QED  BY <4>6, <4>7, <5>1, <5>2 DEF DiscMoved
      <4> QED  BY <2>1, <3>1, <4>4, <4>8 DEF RoomFor
    <3>2. CASE gossip[m].pc # "load"
      BY <2>1, <3>2 DEF RoomFor, CapInv
    <3> QED  BY <3>1, <3>2
  <2>2. CASE gossip'[m].pc \notin {"load", "write"}
    BY <2>2 DEF RoomFor
  <2>3. CASE /\ gossip[m].pc = "cap" /\ gossip[m].plan # <<>>
             /\ Len(Discovered(m)) < MaxDiscovered /\ UNCHANGED State
             /\ gossip'[m].pc = "load"
             /\ gossip'[m].i = gossip[m].i /\ gossip'[m].ptr = gossip[m].ptr
    <3>1. Discovered(m)' = Discovered(m)
      BY <2>3 DEF Discovered, AdvertNet
    <3> QED  BY <2>3, <3>1 DEF RoomFor
  <2>4. CASE /\ gossip[m].pc = "load" /\ UNCHANGED State
             /\ gossip'[m].pc = "write" /\ gossip'[m].held = Discovered(m)
    BY <2>4 DEF RoomFor, CapInv
  <2> QED  BY <1>1, <2>1, <2>2, <2>3, <2>4, HandlerMoves
<1> QED  BY <1>1, <1>3, <1>4 DEF CapInv

\* One gossip handler at a time keeps to the cap, whatever the health loop and
\* the administrators do between its test, its load and its write.  (With two
\* handlers the cap can be overrun.)
THEOREM DiscoveredCapped ==
    ASSUME \A m, p \in Msgs : m = p
    PROVE  Spec => []DiscoveredBounded
<1>1. CapInv /\ [Next]_vars => CapInv'
  BY CapStep
<1>2. CapInv => DiscoveredBounded
  <2> SUFFICES ASSUME CapInv, NEW net \in Nets, Exists(net)
               PROVE  Len(Current(net).disc) <= MaxDiscovered
    BY DEF DiscoveredBounded, Present
  <2>1. RegistryTypeOK
    BY DEF CapInv, Typed, TypeOK
  <2>2. Ref(net) \in Objects /\ Valid(Ref(net)) /\ Obj(Ref(net)) = Current(net)
    BY <2>1, CurrentIsValid
  <2> QED  BY <2>2 DEF CapInv
<1> QED  BY CapInit, <1>1, <1>2, PTL DEF Spec

=============================================================================
