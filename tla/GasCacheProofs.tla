--------------------------- MODULE GasCacheProofs ----------------------------
(***************************************************************************)
(* GasCache for every set of networks, requests and clients: types, that   *)
(* the locks keep stores exclusive, and that answers are about their       *)
(* network.  An action does one thing to a lock (LockEffect) and moves one *)
(* request; the invariants follow per action.                              *)
(***************************************************************************)
EXTENDS GasCache, TLAPS

LEMMA NetLock ==
    ASSUME NEW o \in Requests
    PROVE  o.net \in Nets /\ Lock(o.net) \in Locks
BY GasAssumption DEF Lock, Locks

\* A handler that only goes on is a handler.
LEMMA MovedTyped ==
    ASSUME NEW r \in Request,
           NEW pc \in {"rlock", "check", "official", "wait", "store", "proxied"},
           NEW x, x = [r EXCEPT !.pc = pc]
    PROVE  x \in Request /\ x.pc = pc /\ x.status = r.status /\ x.body = r.body
BY DEF Request

\* Type correctness, with what ComputeFailed needs to count down.
THEOREM TypeCorrect == Spec => [](TypeOK /\ NodeLeft)
<1>1. Init => TypeOK /\ NodeLeft
  <2> SUFFICES ASSUME Init PROVE TypeOK /\ NodeLeft
    OBVIOUS
  <2>1. cache \in [Nets -> Entry]
    BY DEF Init, Entry
  <2>2. mu \in [Locks -> RWMutex]
    BY DEF Init, RWMutex
  <2>3. req \in [Requests -> Request] /\ NodeLeft
    BY DEF Init, Blank, Request, NodeLeft
  <2> QED
    BY <2>1, <2>2, <2>3 DEF TypeOK
<1>2. TypeOK /\ NodeLeft /\ [Next]_vars => TypeOK' /\ NodeLeft'
  <2> SUFFICES ASSUME TypeOK, NodeLeft, [Next]_vars PROVE TypeOK' /\ NodeLeft'
    OBVIOUS
  <2> USE DEF TypeOK
  <2>0. \A o \in Requests : req[o] \in Request
    OBVIOUS
  <2>1. ASSUME NEW o \in Requests, NEW r \in Request, Handle(o, r), r.pc = "compute" => r.left > 0
        PROVE  req' \in [Requests -> Request] /\ NodeLeft'
    BY <2>1 DEF Handle, NodeLeft
  <2>2. ASSUME NEW o \in Requests, RLock(o) \/ RUnlock(o) \/ Announce(o) \/ Unlock(o)
        PROVE  mu' \in [Locks -> RWMutex]
    <3>1. Lock(o.net) \in Locks /\ mu[Lock(o.net)] \in RWMutex
      BY NetLock
    <3>2. mu[Lock(o.net)].readers \subseteq Requests /\ mu[Lock(o.net)].writers \subseteq Requests
      BY <3>1 DEF RWMutex
    <3>3. ASSUME NEW S \in SUBSET Requests
          PROVE  /\ [mu EXCEPT ![Lock(o.net)].readers = S] \in [Locks -> RWMutex]
                 /\ [mu EXCEPT ![Lock(o.net)].writers = S] \in [Locks -> RWMutex]
      BY <3>1 DEF RWMutex
    <3>4. CASE RLock(o)
      BY <3>2, <3>3, <3>4 DEF RLock
    <3>5. CASE RUnlock(o)
      BY <3>2, <3>3, <3>5 DEF RUnlock
    <3>6. CASE Announce(o)
      BY <3>3, <3>6 DEF Announce
    <3>7. CASE Unlock(o)
      BY <3>3, <3>7 DEF Unlock
    <3> QED  BY <2>2, <3>4, <3>5, <3>6, <3>7
  <2>3. ASSUME NEW o \in Requests, NEW status \in {200, 502, 503},
               NEW body \in Nets \cup {"nothing"}, Answer(o, status, body)
        PROVE  req' \in [Requests -> Request] /\ NodeLeft'
    <3> DEFINE r == [pc |-> "reply", left |-> 0, body |-> body, status |-> status]
    <3>1. r \in Request /\ r.pc # "compute"
      BY DEF Request
    <3>2. Handle(o, r)
      BY <2>3 DEF Answer
    <3> HIDE DEF r
    <3> QED
      BY <2>1, <3>1, <3>2
  <2>4. ASSUME NEW o \in Requests,
               NEW pc \in {"rlock", "check", "official", "wait", "store", "proxied"},
               Handle(o, [req[o] EXCEPT !.pc = pc])
        PROVE  req' \in [Requests -> Request] /\ NodeLeft'
    <3> DEFINE r == [req[o] EXCEPT !.pc = pc]
    <3>1. r \in Request /\ r.pc # "compute"
      BY <2>0, MovedTyped
    <3>2. Handle(o, r)
      BY <2>4
    <3> HIDE DEF r
    <3> QED
      BY <2>1, <3>1, <3>2
  <2>5. ASSUME NEW o \in Requests, Got(o)
        PROVE  req' \in [Requests -> Request] /\ NodeLeft'
    <3> DEFINE r == [pc |-> "lock", left |-> 0, body |-> o.net, status |-> 0]
    <3>1. r \in Request /\ r.pc # "compute"
      BY NetLock DEF Request
    <3>2. Handle(o, r)
      BY <2>5 DEF Got
    <3> HIDE DEF r
    <3> QED
      BY <2>1, <3>1, <3>2
  <2>6. ASSUME NEW o \in Requests, NEW k \in Nat \ {0},
               Handle(o, [pc |-> "compute", left |-> k, body |-> "nothing", status |-> 0])
        PROVE  req' \in [Requests -> Request] /\ NodeLeft'
    <3> DEFINE r == [pc |-> "compute", left |-> k, body |-> "nothing", status |-> 0]
    <3>1. r \in Request /\ r.left > 0
      BY DEF Request
    <3>2. Handle(o, r)
      BY <2>6
    <3> HIDE DEF r
    <3> QED
      BY <2>1, <3>1, <3>2
  <2>7. \A o \in Requests : /\ cache[o.net] \in Entry /\ cache[o.net].of \in Nets \cup {"nothing"}
                            /\ req[o] \in Request /\ req[o].body \in Nets \cup {"nothing"}
                            /\ req[o].left \in Nat
    <3>1. \A o \in Requests : o.net \in Nets
      BY NetLock
    <3>2. \A e \in Entry : e.of \in Nets \cup {"nothing"}
      BY DEF Entry
    <3>3. \A r \in Request : r.body \in Nets \cup {"nothing"} /\ r.left \in Nat
      BY DEF Request
    <3> QED
      BY <2>0, <3>1, <3>2, <3>3
  <2>8. ASSUME NEW o \in Requests, Arrive(o) \/ LockCache(o) PROVE TypeOK' /\ NodeLeft'
    <3>1. req' \in [Requests -> Request] /\ NodeLeft'
      BY <2>4, <2>8 DEF Arrive, LockCache
    <3> QED
      BY <2>2, <2>8, <3>1 DEF Arrive, LockCache
  <2>9. ASSUME NEW o \in Requests, CheckCache(o) PROVE TypeOK' /\ NodeLeft'
    <3>1. Answer(o, 200, cache[o.net].of) \/ Handle(o, [req[o] EXCEPT !.pc = "official"])
      BY <2>9 DEF CheckCache
    <3>2. req' \in [Requests -> Request] /\ NodeLeft'
      <4>1. CASE Answer(o, 200, cache[o.net].of)
        BY <2>3, <2>7, <4>1
      <4>2. CASE Handle(o, [req[o] EXCEPT !.pc = "official"])
        <5>1. "official" \in {"rlock", "check", "official", "wait", "store", "proxied"}
          OBVIOUS
        <5> QED
          BY <2>4, <4>2, <5>1, Zenon
      <4> QED
        BY <3>1, <4>1, <4>2
    <3> QED
      BY <2>2, <2>9, <3>2 DEF CheckCache
  <2>10. ASSUME NEW o \in Requests, FetchFromOfficial(o) \/ ComputeFromRPC(o) PROVE TypeOK' /\ NodeLeft'
    BY <2>5, <2>10 DEF FetchFromOfficial, ComputeFromRPC
  <2>11. ASSUME NEW o \in Requests, OfficialFailed(o) PROVE TypeOK' /\ NodeLeft'
    <3>1. PICK k \in 0..MaxNodes :
             IF k = 0 THEN Answer(o, 503, "nothing")
             ELSE Handle(o, [pc |-> "compute", left |-> k, body |-> "nothing", status |-> 0])
      BY <2>11 DEF OfficialFailed
    <3>2. req' \in [Requests -> Request] /\ NodeLeft'
      <4>1. CASE k = 0
        BY <2>3, <3>1, <4>1
      <4>2. CASE k # 0
        BY <2>6, <3>1, <4>2, GasAssumption
      <4> QED
        BY <4>1, <4>2
    <3> QED
      BY <2>11, <3>2 DEF OfficialFailed
  <2>12. ASSUME NEW o \in Requests, ComputeFailed(o) PROVE TypeOK' /\ NodeLeft'
    <3>1. CASE req[o].left = 1
      <4>1. Answer(o, 502, "nothing")
        BY <2>12, <3>1 DEF ComputeFailed
      <4> QED
        BY <2>3, <2>12, <4>1 DEF ComputeFailed
    <3>2. CASE req[o].left # 1
      <4> DEFINE r == [req[o] EXCEPT !.left = req[o].left - 1]
      <4>1. req[o].left > 1
        BY <2>7, <2>12, <3>2 DEF ComputeFailed, NodeLeft
      <4>2. r \in Request /\ r.left > 0
        <5>1. req[o].left \in Nat
          BY <2>0 DEF Request
        <5>2. req[o].left - 1 \in Nat /\ req[o].left - 1 > 0
          BY <4>1, <5>1
        <5>3. PICK k \in Nat : k = req[o].left - 1 /\ k > 0
          BY <5>2
        <5>4. r = [req[o] EXCEPT !.left = k]
          BY <5>3
        <5> HIDE DEF r
        <5> QED  BY <2>0, <5>3, <5>4 DEF Request
      <4>3. Handle(o, r)
        BY <2>12, <3>2 DEF ComputeFailed
      <4> HIDE DEF r
      <4> QED
        BY <2>1, <2>12, <4>2, <4>3 DEF ComputeFailed
    <3> QED
      BY <3>1, <3>2
  <2>13. ASSUME NEW o \in Requests, AnnounceStore(o) \/ BeginStore(o) PROVE TypeOK' /\ NodeLeft'
    <3>1. req' \in [Requests -> Request] /\ NodeLeft'
      BY <2>4, <2>13 DEF AnnounceStore, BeginStore
    <3> QED
      BY <2>2, <2>13, <3>1 DEF AnnounceStore, BeginStore
  <2>14. ASSUME NEW o \in Requests, Store(o) PROVE TypeOK' /\ NodeLeft'
    <3>1. req' \in [Requests -> Request] /\ NodeLeft'
      BY <2>3, <2>7, <2>14 DEF Store
    <3>2. cache' \in [Nets -> Entry]
      BY <2>7, <2>14, NetLock DEF Store, Entry
    <3> QED
      BY <2>2, <2>14, <3>1, <3>2 DEF Store
  <2>15. ASSUME NEW o \in Requests, Reply(o) PROVE TypeOK' /\ NodeLeft'
    <3>1. Blank("done") \in Request /\ Blank("done").pc # "compute"
      BY DEF Blank, Request
    <3> QED
      BY <2>1, <2>2, <2>15, <3>1 DEF Reply
  <2>16. ASSUME NEW net \in Nets, Expire(net) PROVE TypeOK' /\ NodeLeft'
    BY <2>16 DEF Expire, Entry, NodeLeft
  <2>17. CASE UNCHANGED vars
    BY <2>17 DEF vars, NodeLeft
  <2> QED
    BY <2>8, <2>9, <2>10, <2>11, <2>12, <2>13, <2>14, <2>15, <2>16, <2>17 DEF Next, Step
<1> QED
  BY <1>1, <1>2, PTL DEF Spec

-----------------------------------------------------------------------------
(* Effects *)

\* An action moves one handler.
LEMMA HandleEffect ==
    ASSUME TypeOK, NEW o \in Requests, NEW r, Handle(o, r)
    PROVE  \A p \in Requests : req'[p] = IF p = o THEN r ELSE req[p]
BY DEF TypeOK, Handle

\* What a call of a lock does to the lock of another handler p.
LEMMA LockTyped ==
    ASSUME TypeOK, NEW o \in Requests, NEW p \in Requests
    PROVE  /\ mu \in [Locks -> [readers : SUBSET Requests, writers : SUBSET Requests]]
           /\ Lock(o.net) \in Locks /\ Lock(p.net) \in Locks
BY NetLock DEF TypeOK, RWMutex

LEMMA RLockEffect ==
    ASSUME TypeOK, NEW o \in Requests, RLock(o), NEW p \in Requests
    PROVE  /\ mu[Lock(o.net)].writers = {}
           /\ mu'[Lock(p.net)].writers = mu[Lock(p.net)].writers
           /\ mu'[Lock(p.net)].readers = IF Lock(p.net) = Lock(o.net)
                                         THEN mu[Lock(p.net)].readers \cup {o}
                                         ELSE mu[Lock(p.net)].readers
<1> DEFINE l == Lock(o.net)  k == Lock(p.net)
<1>1. mu \in [Locks -> [readers : SUBSET Requests, writers : SUBSET Requests]] /\ l \in Locks /\ k \in Locks
  BY LockTyped
<1>2. mu[l].writers = {} /\ mu' = [mu EXCEPT ![l].readers = @ \cup {o}]
  BY DEF RLock
<1> HIDE DEF l, k
<1>3. mu'[k].writers = mu[k].writers /\ mu'[k].readers = IF k = l THEN mu[k].readers \cup {o} ELSE mu[k].readers
  BY <1>1, <1>2
<1> QED
  BY <1>2, <1>3 DEF l, k

LEMMA RUnlockEffect ==
    ASSUME TypeOK, NEW o \in Requests, RUnlock(o), NEW p \in Requests
    PROVE  /\ mu'[Lock(p.net)].writers = mu[Lock(p.net)].writers
           /\ mu'[Lock(p.net)].readers = IF Lock(p.net) = Lock(o.net)
                                         THEN mu[Lock(p.net)].readers \ {o}
                                         ELSE mu[Lock(p.net)].readers
<1> DEFINE l == Lock(o.net)  k == Lock(p.net)
<1>1. mu \in [Locks -> [readers : SUBSET Requests, writers : SUBSET Requests]] /\ l \in Locks /\ k \in Locks
  BY LockTyped
<1>2. mu' = [mu EXCEPT ![l].readers = @ \ {o}]
  BY DEF RUnlock
<1> HIDE DEF l, k
<1>3. mu'[k].writers = mu[k].writers /\ mu'[k].readers = IF k = l THEN mu[k].readers \ {o} ELSE mu[k].readers
  BY <1>1, <1>2
<1> QED
  BY <1>3 DEF l, k

LEMMA WritersEffect ==
    ASSUME TypeOK, NEW o \in Requests, NEW W, mu' = [mu EXCEPT ![Lock(o.net)].writers = W],
           NEW p \in Requests
    PROVE  /\ mu'[Lock(p.net)].readers = mu[Lock(p.net)].readers
           /\ mu'[Lock(p.net)].writers = IF Lock(p.net) = Lock(o.net)
                                         THEN W ELSE mu[Lock(p.net)].writers
<1> DEFINE l == Lock(o.net)  k == Lock(p.net)
<1>1. mu \in [Locks -> [readers : SUBSET Requests, writers : SUBSET Requests]] /\ l \in Locks /\ k \in Locks
  BY LockTyped
<1>2. mu' = [mu EXCEPT ![l].writers = W]
  OBVIOUS
<1> HIDE DEF l, k
<1>3. mu'[k].readers = mu[k].readers /\ mu'[k].writers = IF k = l THEN W ELSE mu[k].writers
  BY <1>1, <1>2
<1> QED
  BY <1>3 DEF l, k

-----------------------------------------------------------------------------
(* Exclusion *)

LEMMA LocksHeldStep ==
    ASSUME TypeOK, LocksHeld, [Next]_vars
    PROVE  LocksHeld'
<1> SUFFICES ASSUME NEW p \in Requests PROVE LockHeld(p)'
  BY DEF LocksHeld
<1>0. LockHeld(p) /\ req[p] \in Request
  BY DEF LocksHeld, TypeOK
<1>1. ASSUME UNCHANGED mu, NEW o \in Requests, NEW r, Handle(o, r),
             r.pc \notin {"check", "wait", "store"}
      PROVE  LockHeld(p)'
  BY <1>0, <1>1, HandleEffect DEF LockHeld
<1>2. ASSUME NEW o \in Requests, RUnlock(o), NEW r, Handle(o, r),
             r.pc \notin {"check", "wait", "store"}
      PROVE  LockHeld(p)'
  <2>1. req'[p] = IF p = o THEN r ELSE req[p]
    BY <1>2, HandleEffect
  <2>2. /\ mu'[Lock(p.net)].writers = mu[Lock(p.net)].writers
        /\ mu'[Lock(p.net)].readers \in {mu[Lock(p.net)].readers, mu[Lock(p.net)].readers \ {o}}
    BY <1>2, RUnlockEffect
  <2>3. CASE p = o
    BY <1>2, <2>1, <2>3 DEF LockHeld
  <2>4. CASE p # o
    BY <1>0, <2>1, <2>2, <2>4 DEF LockHeld
  <2> QED
    BY <2>3, <2>4
<1>3. ASSUME NEW o \in Requests, NEW r, Handle(o, r), r.pc = req[o].pc, UNCHANGED mu
      PROVE  LockHeld(p)'
  BY <1>0, <1>3, HandleEffect DEF LockHeld
<1>4. ASSUME NEW o \in Requests, Arrive(o) PROVE LockHeld(p)'
  <2> DEFINE r == [req[o] EXCEPT !.pc = IF o.net \in Named \cup Evm THEN "rlock" ELSE "proxied"]
  <2>1. r.pc \in {"rlock", "proxied"}
    BY DEF TypeOK, Request
  <2>2. Handle(o, r) /\ UNCHANGED mu
    BY <1>4 DEF Arrive
  <2> HIDE DEF r
  <2> QED
    BY <1>1, <2>1, <2>2
<1>5. ASSUME NEW o \in Requests, LockCache(o) PROVE LockHeld(p)'
  <2> DEFINE r == [req[o] EXCEPT !.pc = "check"]
  <2>1. r.pc = "check" /\ Handle(o, r) /\ RLock(o)
    BY <1>5 DEF LockCache, TypeOK, Request
  <2> HIDE DEF r
  <2>2. req'[p] = IF p = o THEN r ELSE req[p]
    BY <2>1, HandleEffect
  <2>3. /\ mu[Lock(o.net)].writers = {}
        /\ mu'[Lock(p.net)].writers = mu[Lock(p.net)].writers
        /\ mu'[Lock(p.net)].readers = IF Lock(p.net) = Lock(o.net)
                                      THEN mu[Lock(p.net)].readers \cup {o}
                                      ELSE mu[Lock(p.net)].readers
    BY <2>1, RLockEffect
  <2>4. CASE p = o
    BY <2>1, <2>2, <2>3, <2>4 DEF LockHeld
  <2>5. CASE p # o
    <3>1. req[p].pc = "store" => Lock(p.net) # Lock(o.net)
      BY <1>0, <2>3 DEF LockHeld
    <3> QED
      BY <1>0, <2>2, <2>3, <2>5, <3>1 DEF LockHeld
  <2> QED
    BY <2>4, <2>5
<1>6. ASSUME NEW o \in Requests, CheckCache(o) PROVE LockHeld(p)'
  <2>1. PICK r : Handle(o, r) /\ r.pc \in {"reply", "official"}
    BY <1>6 DEF CheckCache, Answer, TypeOK, Request
  <2>2. RUnlock(o) \/ UNCHANGED mu
    BY <1>6 DEF CheckCache
  <2> QED
    BY <1>1, <1>2, <2>1, <2>2
<1>7. ASSUME NEW o \in Requests,
             FetchFromOfficial(o) \/ ComputeFromRPC(o) \/ OfficialFailed(o) \/ ComputeFailed(o)
      PROVE  LockHeld(p)'
  <2>1. UNCHANGED mu
    BY <1>7 DEF FetchFromOfficial, ComputeFromRPC, OfficialFailed, ComputeFailed
  <2>2. PICK r : Handle(o, r) /\ r.pc \in {"lock", "reply", "compute"}
    <3>1. CASE FetchFromOfficial(o) \/ ComputeFromRPC(o)
      BY <3>1 DEF FetchFromOfficial, ComputeFromRPC, Got
    <3>2. CASE OfficialFailed(o)
      BY <3>2 DEF OfficialFailed, Answer
    <3>3. CASE ComputeFailed(o)
      BY <3>3 DEF ComputeFailed, Answer, TypeOK, Request
    <3> QED
      BY <1>7, <3>1, <3>2, <3>3
  <2> QED
    BY <1>1, <2>1, <2>2
<1>8. ASSUME NEW o \in Requests, AnnounceStore(o) PROVE LockHeld(p)'
  <2> DEFINE r == [req[o] EXCEPT !.pc = "wait"]
  <2>1. r.pc = "wait" /\ Handle(o, r) /\ Announce(o)
    BY <1>8 DEF AnnounceStore, TypeOK, Request
  <2>2. mu[Lock(o.net)].writers = {} /\ mu' = [mu EXCEPT ![Lock(o.net)].writers = {o}]
    BY <2>1 DEF Announce
  <2> HIDE DEF r
  <2>3. req'[p] = IF p = o THEN r ELSE req[p]
    BY <2>1, HandleEffect
  <2>4. /\ mu'[Lock(p.net)].readers = mu[Lock(p.net)].readers
        /\ mu'[Lock(p.net)].writers = IF Lock(p.net) = Lock(o.net) THEN {o}
                                      ELSE mu[Lock(p.net)].writers
    <3>1. PICK W : W = {o}
      OBVIOUS
    <3>2. mu' = [mu EXCEPT ![Lock(o.net)].writers = W]
      BY <2>2, <3>1
    <3>3. /\ mu'[Lock(p.net)].readers = mu[Lock(p.net)].readers
          /\ mu'[Lock(p.net)].writers = IF Lock(p.net) = Lock(o.net) THEN W
                                        ELSE mu[Lock(p.net)].writers
      BY <3>2, WritersEffect
    <3> QED  BY <3>1, <3>3
  <2>5. CASE p = o
    BY <2>1, <2>3, <2>4, <2>5 DEF LockHeld
  <2>6. CASE p # o
    <3>1. req[p].pc \in {"wait", "store"} => Lock(p.net) # Lock(o.net)
      BY <1>0, <2>2 DEF LockHeld
    <3> QED
      BY <1>0, <2>3, <2>4, <2>6, <3>1 DEF LockHeld
  <2> QED
    BY <2>5, <2>6
<1>9. ASSUME NEW o \in Requests, BeginStore(o) PROVE LockHeld(p)'
  <2> DEFINE r == [req[o] EXCEPT !.pc = "store"]
  <2>1. r.pc = "store" /\ Handle(o, r) /\ UNCHANGED mu
    BY <1>9 DEF BeginStore, TypeOK, Request
  <2>2. req[o].pc = "wait" /\ mu[Lock(o.net)].readers = {}
    BY <1>9 DEF BeginStore, ReadersGone
  <2> HIDE DEF r
  <2> QED
    BY <1>0, <2>1, <2>2, HandleEffect DEF LockHeld
<1>10. ASSUME NEW o \in Requests, Store(o) PROVE LockHeld(p)'
  <2>1. PICK r : Handle(o, r) /\ r.pc = "reply"
    BY <1>10 DEF Store, Answer
  <2>2. mu' = [mu EXCEPT ![Lock(o.net)].writers = {}] /\ mu[Lock(o.net)].writers = {o}
    BY <1>10 DEF Store, Unlock, LocksHeld, LockHeld
  <2> QED
    BY <1>0, <2>1, <2>2, HandleEffect, WritersEffect DEF LockHeld
<1>11. ASSUME NEW o \in Requests, Reply(o) PROVE LockHeld(p)'
  <2>1. Handle(o, Blank("done")) /\ RUnlock(o) /\ Blank("done").pc = "done"
    BY <1>11 DEF Reply, Blank
  <2> QED
    BY <1>2, <2>1
<1>12. CASE (\E net \in Nets : Expire(net)) \/ UNCHANGED vars
  BY <1>0, <1>12 DEF Expire, vars, LockHeld
<1> QED
  BY <1>4, <1>5, <1>6, <1>7, <1>8, <1>9, <1>10, <1>11, <1>12 DEF Next, Step

\* No cache is read while it is written, nor written by two handlers.
THEOREM StoresExclude == Spec => []StoreExclusive
<1>1. Init => LocksHeld
  BY DEF Init, Blank, LocksHeld, LockHeld
<1>2. TypeOK /\ LocksHeld /\ [Next]_vars => LocksHeld'
  BY LocksHeldStep
<1>3. LocksHeld => StoreExclusive
  BY DEF LocksHeld, LockHeld, StoreExclusive
<1> QED
  BY <1>1, <1>2, <1>3, TypeCorrect, PTL DEF Spec

-----------------------------------------------------------------------------
(* Values *)

\* Got and Answer are the only ways to a body; what is cached was got.
LEMMA ValuesOwnStep ==
    ASSUME TypeOK, ValuesOwn, OwnNetwork, [Next]_vars
    PROVE  ValuesOwn' /\ OwnNetwork'
<1> DEFINE Suits(r, net) == /\ r.pc \in {"lock", "wait", "store"} => r.body = net
                            /\ r.status = 200 => r.body = net
           CacheOwn == \A net \in Nets : cache[net].fresh => cache[net].of = net
           RequestsOwn == \A o \in Requests : Suits(req[o], o.net)
<1>0. CacheOwn /\ RequestsOwn /\ \A o \in Requests : req[o] \in Request
  BY DEF ValuesOwn, OwnNetwork, TypeOK
<1>1. SUFFICES CacheOwn' /\ RequestsOwn'
  BY DEF ValuesOwn, OwnNetwork
<1>2. ASSUME NEW o \in Requests, NEW r, Handle(o, r), Suits(r, o.net) PROVE RequestsOwn'
  <2>1. ASSUME NEW p \in Requests PROVE Suits(req'[p], p.net)
    <3>1. req'[p] = IF p = o THEN r ELSE req[p]
      BY <1>2, HandleEffect
    <3>2. Suits(req[p], p.net)
      BY <1>0
    <3> QED
      BY <1>2, <3>1, <3>2
  <2> QED
    BY <2>1
<1>3. ASSUME NEW o \in Requests, NEW pc \in {"rlock", "check", "official", "wait", "proxied", "store"},
             Handle(o, [req[o] EXCEPT !.pc = pc]),
             pc \in {"wait", "store"} => req[o].pc \in {"lock", "wait"}
      PROVE  RequestsOwn'
  <2> DEFINE r == [req[o] EXCEPT !.pc = pc]
  <2>1. r.pc = pc /\ r.status = req[o].status /\ r.body = req[o].body
    BY <1>0, MovedTyped
  <2>2. Suits(r, o.net)
    <3> HIDE DEF r
    <3> QED
      BY <1>0, <1>3, <2>1
  <2>3. Handle(o, r)
    BY <1>3
  <2> HIDE DEF r, Suits, RequestsOwn
  <2> QED
    BY <1>2, <2>2, <2>3
<1>4. ASSUME NEW o \in Requests, NEW status, NEW body, Answer(o, status, body),
             status = 200 => body = o.net
      PROVE  RequestsOwn'
  <2> DEFINE r == [pc |-> "reply", left |-> 0, body |-> body, status |-> status]
  <2>1. Suits(r, o.net)
    BY <1>4
  <2>2. Handle(o, r)
    BY <1>4 DEF Answer
  <2> HIDE DEF r, Suits, RequestsOwn
  <2> QED
    BY <1>2, <2>1, <2>2
<1>5. ASSUME NEW o \in Requests, Arrive(o) \/ LockCache(o) \/ AnnounceStore(o) \/ BeginStore(o)
      PROVE  CacheOwn' /\ RequestsOwn'
  <2>1. UNCHANGED cache
    BY <1>5 DEF Arrive, LockCache, AnnounceStore, BeginStore
  <2>2. PICK pc \in {"rlock", "check", "official", "wait", "proxied", "store"} :
           /\ Handle(o, [req[o] EXCEPT !.pc = pc])
           /\ pc \in {"wait", "store"} => req[o].pc \in {"lock", "wait"}
    BY <1>5 DEF Arrive, LockCache, AnnounceStore, BeginStore
  <2>3. RequestsOwn'
    <3> HIDE DEF RequestsOwn
    <3> QED
      BY <1>3, <2>2
  <2> QED
    BY <1>0, <2>1, <2>3
<1>6. ASSUME NEW o \in Requests, CheckCache(o) PROVE CacheOwn' /\ RequestsOwn'
  <2>1. CASE cache[o.net].fresh
    <3>1. Answer(o, 200, cache[o.net].of) /\ UNCHANGED cache /\ cache[o.net].of = o.net
      BY <1>0, <1>6, <2>1, NetLock DEF CheckCache
    <3> QED
      BY <1>0, <1>4, <3>1
  <2>2. CASE ~cache[o.net].fresh
    <3>1. Handle(o, [req[o] EXCEPT !.pc = "official"]) /\ UNCHANGED cache
      BY <1>6, <2>2 DEF CheckCache
    <3>2. RequestsOwn'
      <4> HIDE DEF RequestsOwn
      <4> QED
        BY <1>3, <3>1
    <3> QED
      BY <1>0, <3>1, <3>2
  <2> QED
    BY <2>1, <2>2
<1>7. ASSUME NEW o \in Requests,
             FetchFromOfficial(o) \/ ComputeFromRPC(o) \/ OfficialFailed(o) \/ ComputeFailed(o)
      PROVE  CacheOwn' /\ RequestsOwn'
  <2>1. UNCHANGED cache
    BY <1>7 DEF FetchFromOfficial, ComputeFromRPC, OfficialFailed, ComputeFailed
  <2>2. CASE FetchFromOfficial(o) \/ ComputeFromRPC(o)
    <3> DEFINE r == [pc |-> "lock", left |-> 0, body |-> o.net, status |-> 0]
    <3>1. Handle(o, r) /\ Suits(r, o.net)
      BY <2>2 DEF FetchFromOfficial, ComputeFromRPC, Got
    <3> HIDE DEF r
    <3> QED
      BY <1>0, <1>2, <2>1, <3>1
  <2>3. CASE OfficialFailed(o)
    <3>1. PICK k \in 0..MaxNodes :
             IF k = 0 THEN Answer(o, 503, "nothing")
             ELSE Handle(o, [pc |-> "compute", left |-> k, body |-> "nothing", status |-> 0])
      BY <2>3 DEF OfficialFailed
    <3>2. CASE k = 0
      BY <1>0, <1>4, <2>1, <3>1, <3>2
    <3>3. CASE k # 0
      <4> DEFINE r == [pc |-> "compute", left |-> k, body |-> "nothing", status |-> 0]
      <4>1. Handle(o, r) /\ Suits(r, o.net)
        BY <3>1, <3>3
      <4> HIDE DEF r
      <4> QED
        BY <1>0, <1>2, <2>1, <4>1
    <3> QED
      BY <3>2, <3>3
  <2>4. CASE ComputeFailed(o)
    <3>1. CASE req[o].left = 1
      <4>1. Answer(o, 502, "nothing")
        BY <2>4, <3>1 DEF ComputeFailed
      <4> QED
        BY <1>0, <1>4, <2>1, <4>1
    <3>2. CASE req[o].left # 1
      <4> DEFINE r == [req[o] EXCEPT !.left = req[o].left - 1]
      <4>1. Handle(o, r) /\ req[o].pc = "compute"
        BY <2>4, <3>2 DEF ComputeFailed
      <4>2. r.pc = req[o].pc /\ r.status = req[o].status /\ r.body = req[o].body
        BY <1>0 DEF Request
      <4> HIDE DEF r
      <4>3. Suits(r, o.net)
        BY <1>0, <4>1, <4>2
      <4> QED
        BY <1>0, <1>2, <2>1, <4>1, <4>3
    <3> QED
      BY <3>1, <3>2
  <2> QED
    BY <1>7, <2>2, <2>3, <2>4
<1>8. ASSUME NEW o \in Requests, Store(o) PROVE CacheOwn' /\ RequestsOwn'
  <2>1. req[o].body = o.net
    BY <1>0, <1>8 DEF Store
  <2>2. CacheOwn'
    BY <1>0, <1>8, <2>1 DEF Store, TypeOK, Entry
  <2>3. Answer(o, 200, req[o].body)
    BY <1>8 DEF Store
  <2> QED
    BY <1>4, <2>1, <2>2, <2>3
<1>9. ASSUME NEW o \in Requests, Reply(o) PROVE CacheOwn' /\ RequestsOwn'
  <2>1. Handle(o, Blank("done")) /\ UNCHANGED cache
    BY <1>9 DEF Reply
  <2>2. Suits(Blank("done"), o.net)
    BY DEF Blank
  <2> QED
    BY <1>0, <1>2, <2>1, <2>2
<1>10. ASSUME NEW net \in Nets, Expire(net) PROVE CacheOwn' /\ RequestsOwn'
  BY <1>0, <1>10 DEF Expire, TypeOK, Entry
<1>11. CASE UNCHANGED vars
  BY <1>0, <1>11 DEF vars
<1> QED
  BY <1>5, <1>6, <1>7, <1>8, <1>9, <1>10, <1>11 DEF Next, Step

\* An answer of 200 is about the network that was asked for.
THEOREM AnswersSuit == Spec => []OwnNetwork
<1>1. Init => ValuesOwn /\ OwnNetwork
  BY DEF Init, Blank, ValuesOwn, OwnNetwork
<1>2. TypeOK /\ ValuesOwn /\ OwnNetwork /\ [Next]_vars => ValuesOwn' /\ OwnNetwork'
  BY ValuesOwnStep
<1> QED
  BY <1>1, <1>2, TypeCorrect, PTL DEF Spec

=============================================================================
