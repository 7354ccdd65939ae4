--------------------------- MODULE PeerGossipProofs ---------------------------
(***************************************************************************)
(* Proofs about PeerGossip, for any processes, bootstrap processes,        *)
(* configurations and numbers of starts: stores and messages are well      *)
(* formed, and two processes that the same one answered have met.          *)
(***************************************************************************)
EXTENDS PeerGossip, TLAPS

-----------------------------------------------------------------------------
(* What a message is *)

Announce == [type : {"announce"}, from : Peer]
Listing  == [type : {"listing"}, from : Peer, by : Peer]
Answer   == [type : {"answer"}, to : Peer, by : Peer, peers : SUBSET Peer]
State    == [type : {"state"}, from : Peer, to : Procs, nodes : SUBSET Urls]

\* The type of a message says which fields it has.
LEMMA MessageFields ==
    ASSUME NEW m \in Messages
    PROVE  /\ m.type = "announce" => m \in Announce /\ m.from \in Peer
           /\ m.type = "listing" => m \in Listing /\ m.from \in Peer /\ m.by \in Peer
           /\ m.type = "answer" =>
                 m \in Answer /\ m.to \in Peer /\ m.by \in Peer /\ m.peers \subseteq Peer
           /\ m.type = "state" =>
                 m \in State /\ m.from \in Peer /\ m.to \in Procs /\ m.nodes \subseteq Urls
           /\ m.type \in {"announce", "listing", "answer", "state"}
  BY DEF Messages, Announce, Listing, Answer, State

\* No start of a process is nobody.
LEMMA NobodyIsNoPeer == Nobody \notin Peer /\ \A peer \in Peer : peer.start \in Nat \ {0} /\ peer.addr \in Procs
  BY DEF Nobody, Peer

\* Processes that run have started.
Running == \A p \in Procs : pc[p] # "down" => starts[p] # 0

Typed == TypeOK /\ Running /\ StartsPast

\* The ID of a process that runs is a peer's.
LEMMA SelfIsPeer ==
    ASSUME Typed, NEW p \in Procs, pc[p] # "down"
    PROVE  Self(p) \in Peer
  BY DEF Typed, TypeOK, Running, Self, ID, Peer

\* What a check selects is among what it was given.
LEMMA SelectionIsSubset ==
    ASSUME NEW urls, NEW s \in Selection(urls)
    PROVE  s \subseteq urls
  BY DEF Selection

-----------------------------------------------------------------------------
(* Types *)

LEMMA InitTyped == Init => Typed
  BY DEF Init, Typed, TypeOK, Running, StartsPast, Nobody, registry

LEMMA StartTyped == ASSUME Typed, NEW p \in Procs, Start(p) PROVE Typed'
<1> DEFINE me == ID(p, starts[p] + 1)
<1>1. me \in Peer /\ me.addr = p /\ me.start = starts'[p]
  BY DEF Typed, TypeOK, Start, ID, Peer
<1>2. \A q \in Procs : starts'[q] \in Nat /\ starts[q] <= starts'[q]
  BY DEF Typed, TypeOK, Start
<1>3. \A peer \in Peer : peer.start <= starts[peer.addr] => peer.start <= starts'[peer.addr]
  BY <1>2 DEF Typed, TypeOK, Peer
<1>4. [type |-> "announce", from |-> me] \in Messages
  BY <1>1 DEF Messages
<1> HIDE DEF me
<1>5. net' = net \cup {[type |-> "announce", from |-> me]} /\ peers' = [peers EXCEPT ![p] = {me}]
  BY DEF Start, me
<1>6. TypeOK'
  <2>1. starts' \in [Procs -> Nat] /\ pc' \in [Procs -> {"down", "announcing", "booting", "up"}]
    BY DEF Typed, TypeOK, Start
  <2>2. net' \subseteq Messages /\ peers' \in [Procs -> SUBSET Peer]
    BY <1>1, <1>4, <1>5 DEF Typed, TypeOK
  <2>3. \A q \in Procs : \A peer \in peers'[q] : peer.start <= starts'[peer.addr]
    BY <1>1, <1>2, <1>3, <1>5 DEF Typed, TypeOK
  <2>4. UNCHANGED <<via, known, best, upstream>>
    BY DEF Start, registry
  <2> QED  BY <2>1, <2>2, <2>3, <2>4 DEF Typed, TypeOK
<1>7. Running'
  BY DEF Typed, TypeOK, Running, Start
<1>8. StartsPast'
  <2>1. \A q \in Procs : via'[q] # Nobody => via'[q].start <= starts'[via'[q].addr]
    BY <1>3 DEF Typed, TypeOK, StartsPast, Started, Start
  <2>2. \A q \in Procs : pc'[q] = "down" => via'[q] = Nobody
    BY DEF Typed, TypeOK, StartsPast, Start
  <2>3. ASSUME NEW m \in net
        PROVE  /\ m.type \in {"announce", "listing"} => m.from.start <= starts'[m.from.addr]
               /\ m.type = "answer" =>
                     /\ m.by.start <= starts'[m.by.addr]
                     /\ pc'[m.to.addr] # "down" /\ starts'[m.to.addr] = m.to.start
                     /\ \A peer \in m.peers : peer.start <= starts'[peer.addr]
    BY <1>3, <2>3, MessageFields, NobodyIsNoPeer
       DEF Typed, TypeOK, StartsPast, Started, Current, Start
  <2>4. me.start <= starts'[me.addr]
    BY <1>1, <1>2
  <2> QED  BY <1>5, <2>1, <2>2, <2>3, <2>4 DEF StartsPast, Started, Current
<1> QED  BY <1>6, <1>7, <1>8 DEF Typed

LEMMA BootTyped == ASSUME Typed, NEW p \in Procs, Boot(p) PROVE Typed'
<1>1. PICK s \in Selection(Config[p]) : best' = [best EXCEPT ![p] = s]
  BY DEF Boot
<1>2. s \subseteq Urls /\ Config[p] \subseteq Urls
  BY SelectionIsSubset, PeerAssumption
<1>3. TypeOK' /\ Running'
  BY <1>1, <1>2 DEF Typed, TypeOK, Running, Boot
<1>4. StartsPast'
  BY NobodyIsNoPeer, MessageFields DEF Typed, TypeOK, StartsPast, Started, Current, Boot
<1> QED  BY <1>3, <1>4 DEF Typed

LEMMA HealthRoundTyped == ASSUME Typed, NEW p \in Procs, HealthRound(p) PROVE Typed'
  BY SelectionIsSubset DEF Typed, TypeOK, Running, StartsPast, Started, Current, HealthRound, Fatal

LEMMA CrashTyped == ASSUME Typed, NEW p \in Procs, Crash(p) PROVE Typed'
<1>1. TypeOK' /\ Running'
  BY DEF Typed, TypeOK, Running, Crash
<1>2. StartsPast'
  BY MessageFields, NobodyIsNoPeer
     DEF Typed, TypeOK, StartsPast, Started, Current, Crash, Self, ID, Peer
<1> QED  BY <1>1, <1>2 DEF Typed

LEMMA AnnounceFailedTyped == ASSUME Typed, NEW p \in Procs, AnnounceFailed(p) PROVE Typed'
  BY MessageFields DEF Typed, TypeOK, Running, StartsPast, Started, Current, AnnounceFailed, registry

LEMMA HandleAnnounceTyped ==
    ASSUME Typed, NEW p \in Procs, NEW m \in net, HandleAnnounce(p, m) PROVE Typed'
<1> DEFINE listing == [type |-> "listing", from |-> m.from, by |-> Self(p)]
<1>1. m \in Messages /\ m.from \in Peer /\ Started(m.from) /\ Self(p) \in Peer
  BY MessageFields, SelfIsPeer DEF Typed, TypeOK, StartsPast, HandleAnnounce
<1>2. listing \in Messages /\ listing.type = "listing" /\ listing.from = m.from
  BY <1>1 DEF Messages
<1> HIDE DEF listing
<1>3. net' = (net \ {m}) \cup {listing}
  BY DEF HandleAnnounce, listing
<1>4. TypeOK' /\ Running'
  BY <1>1, <1>2, <1>3 DEF Typed, TypeOK, Running, HandleAnnounce, registry, Started
<1>5. StartsPast'
  BY <1>1, <1>2, <1>3 DEF Typed, TypeOK, StartsPast, Started, Current, HandleAnnounce
<1> QED  BY <1>4, <1>5 DEF Typed

LEMMA AnswerAnnounceTyped ==
    ASSUME Typed, NEW p \in Procs, NEW m \in net, AnswerAnnounce(p, m) PROVE Typed'
<1> DEFINE answer == [type |-> "answer", to |-> m.from, by |-> m.by, peers |-> Listed(p)]
<1>1. /\ m \in Messages /\ m.from \in Peer /\ m.by \in Peer /\ m.by = Self(p)
      /\ Listed(p) \subseteq Peer
      /\ \A peer \in Listed(p) : Started(peer)
  BY MessageFields DEF Typed, TypeOK, AnswerAnnounce, Listed, Self, ID, Started
<1>2. /\ answer \in Messages /\ answer.type = "answer"
      /\ answer.to = m.from /\ answer.by = m.by /\ answer.peers = Listed(p)
  BY <1>1 DEF Messages
<1> HIDE DEF answer
<1>3. \/ net' = net \ {m}
      \/ Waits(m.from) /\ net' = (net \ {m}) \cup {answer}
  BY DEF AnswerAnnounce, answer
<1>4. TypeOK' /\ Running'
  BY <1>2, <1>3 DEF Typed, TypeOK, Running, AnswerAnnounce, registry
<1>5. Started(m.by)
  BY <1>1 DEF Self, ID, Started, Typed, TypeOK, Peer
<1>6. StartsPast'
  BY <1>1, <1>2, <1>3, <1>5
     DEF Typed, TypeOK, StartsPast, Started, Current, AnswerAnnounce, Waits
<1> QED  BY <1>4, <1>6 DEF Typed

LEMMA AnnouncedTyped ==
    ASSUME Typed, NEW p \in Procs, NEW m \in net, Announced(p, m) PROVE Typed'
<1>1. m \in Messages /\ m.by \in Peer /\ m.peers \subseteq Peer /\ Current(m.to) /\ Started(m.by)
  BY MessageFields DEF Typed, TypeOK, StartsPast, Announced
<1>2. pc[p] # "down" /\ \A peer \in m.peers : Started(peer)
  BY <1>1 DEF Typed, TypeOK, StartsPast, Announced, Current, Self, ID
<1>3. TypeOK' /\ Running'
  BY <1>1, <1>2 DEF Typed, TypeOK, Running, Announced, registry, Started
<1>4. StartsPast'
  BY <1>1, <1>2, NobodyIsNoPeer, MessageFields DEF Typed, TypeOK, StartsPast, Started, Current, Announced
<1> QED  BY <1>3, <1>4 DEF Typed

LEMMA PublishTyped ==
    ASSUME Typed, NEW p \in Procs, NEW q \in Procs, Publish(p, q) PROVE Typed'
<1> DEFINE state == [type |-> "state", from |-> Self(p), to |-> q, nodes |-> buildAdvert(p)]
<1>1. state \in Messages /\ state.type = "state"
  BY SelfIsPeer DEF Messages, Publish, buildAdvert, Typed, TypeOK
<1> HIDE DEF state
<1>2. net' = net \cup {state}
  BY DEF Publish, state
<1>3. TypeOK' /\ Running'
  BY <1>1, <1>2 DEF Typed, TypeOK, Running, Publish, registry
<1>4. StartsPast'
  BY <1>1, <1>2 DEF Typed, TypeOK, StartsPast, Started, Current, Publish
<1> QED  BY <1>3, <1>4 DEF Typed

LEMMA StateHandlerTyped ==
    ASSUME Typed, NEW p \in Procs, NEW m \in net, StateHandler(p, m) PROVE Typed'
<1>1. m \in Messages /\ m.nodes \subseteq Urls
  BY MessageFields DEF Typed, TypeOK, StateHandler
<1> QED  BY <1>1 DEF Typed, TypeOK, Running, StartsPast, Started, Current, StateHandler

LEMMA LoseTyped == ASSUME Typed, NEW m \in net, Lose(m) PROVE Typed'
  BY DEF Typed, TypeOK, Running, StartsPast, Started, Current, Lose, registry

LEMMA TurnTyped == ASSUME Typed, NEW u \in Urls, Turn(u) PROVE Typed'
  BY DEF Typed, TypeOK, Running, StartsPast, Started, Current, Turn, registry

LEMMA NextTyped == Typed /\ [Next]_vars => Typed'
<1> SUFFICES ASSUME Typed, [Next]_vars PROVE Typed'
  OBVIOUS
<1>1. CASE \E p \in Procs : Start(p) \/ Boot(p) \/ AnnounceFailed(p) \/ HealthRound(p)
  BY <1>1, StartTyped, BootTyped, AnnounceFailedTyped, HealthRoundTyped
<1>2. CASE \E p \in Procs : \E m \in net : StateHandler(p, m) \/ Announced(p, m) \/ AnswerAnnounce(p, m)
  BY <1>2, StateHandlerTyped, AnnouncedTyped, AnswerAnnounceTyped
<1>3. CASE \E p \in Procs : \E q \in Procs : Publish(p, q)
  BY <1>3, PublishTyped
<1>4. CASE \E p \in Mortal : Crash(p)
  BY <1>4, CrashTyped, PeerAssumption
<1>5. CASE \E p \in Bootstraps, m \in net : HandleAnnounce(p, m)
  BY <1>5, HandleAnnounceTyped, PeerAssumption
<1>6. CASE \E m \in net : Lose(m)
  BY <1>6, LoseTyped
<1>7. CASE \E u \in Urls : Turn(u)
  BY <1>7, TurnTyped
<1>8. CASE UNCHANGED vars
  BY <1>8 DEF vars, registry, Typed, TypeOK, Running, StartsPast, Started, Current
<1> QED  BY <1>1, <1>2, <1>3, <1>4, <1>5, <1>6, <1>7, <1>8 DEF Next

\* Whatever starts, crashes and gets lost: stores hold peers that have started,
\* and messages are well formed.
THEOREM TypeCorrect == Spec => [](TypeOK /\ StartsPast)
<1>1. Typed => TypeOK /\ StartsPast
  BY DEF Typed
<1> QED  BY InitTyped, NextTyped, <1>1, PTL DEF Spec

-----------------------------------------------------------------------------
(* Processes that the same one answered *)

Meet == Registered /\ AnswersMeet /\ PairsMeet

LEMMA InitMeet == Init => Meet
  BY DEF Init, Meet, Registered, AnswersMeet, PairsMeet

\* Steps that leave stores, IDs, listings and answers alone, but for answers
\* that are lost.
LEMMA QuietMeet ==
    ASSUME Typed, Meet,
           starts' = starts, via' = via, peers' = peers,
           \A id \in Peer : pc'[id.addr] = "down" <=> pc[id.addr] = "down",
           \A m \in net' : m \in net \/ m.type \notin {"listing", "answer"}
    PROVE  Meet'
<1>1. \A m \in net : m \in Messages
  BY DEF Typed, TypeOK
<1>2. Registered'
  BY <1>1, MessageFields DEF Meet, Registered, Current, Self, ID, Typed, TypeOK
<1>3. AnswersMeet'
  BY DEF Meet, AnswersMeet, Self, ID
<1>4. PairsMeet'
  BY DEF Meet, PairsMeet, Self, ID
<1> QED  BY <1>2, <1>3, <1>4 DEF Meet

LEMMA StartMeet == ASSUME Typed, Meet, NEW p \in Procs, Start(p) PROVE Meet'
<1> DEFINE me == ID(p, starts[p] + 1)
<1>1. /\ pc[p] = "down" /\ via[p] = Nobody
      /\ via' = via /\ peers' = [peers EXCEPT ![p] = {me}]
      /\ starts[p] \in Nat /\ starts' = [starts EXCEPT ![p] = @ + 1]
      /\ pc' = [pc EXCEPT ![p] = "announcing"]
      /\ net' = net \cup {[type |-> "announce", from |-> me]}
  BY DEF Typed, TypeOK, StartsPast, Start
<1> HIDE DEF me
<1>2. ASSUME NEW id \in Peer, id.start <= starts[id.addr]
      PROVE  pc'[id.addr] # "down" /\ starts'[id.addr] = id.start =>
                id.addr # p /\ Current(id)
  BY <1>1, <1>2 DEF Current, Typed, TypeOK, Peer
<1>3. ASSUME NEW m \in net', m.type \in {"listing", "answer"}
      PROVE  m \in net /\ m \in Messages /\ m.by \in Peer
  BY <1>1, <1>3, MessageFields DEF Typed, TypeOK
<1>4. ASSUME NEW q \in Procs, via[q] # Nobody
      PROVE  q # p /\ starts'[q] = starts[q] /\ via[q] \in Peer /\ via[q].start <= starts[via[q].addr]
  BY <1>1, <1>4 DEF Typed, TypeOK, StartsPast, Started
<1>5. Registered'
  <2>1. ASSUME NEW m \in net', m.type = "listing"
        PROVE  /\ pc'[m.by.addr] # "down" /\ starts'[m.by.addr] = m.by.start
               /\ m.from \in peers'[m.by.addr]
    BY <1>1, <1>3, <2>1 DEF Meet, Registered, Current, Typed, TypeOK, Peer
  <2>2. ASSUME NEW m \in net', m.type = "answer",
               pc'[m.by.addr] # "down", starts'[m.by.addr] = m.by.start
        PROVE  m.to \in peers'[m.by.addr]
    <3>1. m.by.start <= starts[m.by.addr]
      BY <1>3, <2>2 DEF Typed, StartsPast, Started
    <3>2. m.by.addr # p /\ Current(m.by)
      BY <1>2, <1>3, <2>2, <3>1
    <3> QED  BY <1>1, <1>3, <2>2, <3>2 DEF Meet, Registered, Typed, TypeOK, Peer
  <2>3. ASSUME NEW q \in Procs, via'[q] # Nobody,
               pc'[via'[q].addr] # "down", starts'[via'[q].addr] = via'[q].start
        PROVE  ID(q, starts'[q]) \in peers'[via'[q].addr]
    <3>1. via[q].addr # p /\ Current(via[q])
      BY <1>1, <1>2, <1>4, <2>3
    <3> QED  BY <1>1, <1>4, <2>3, <3>1 DEF Meet, Registered, Self, Typed, TypeOK, Peer
  <2> QED  BY <2>1, <2>2, <2>3 DEF Registered, Current, Self
<1>6. AnswersMeet'
  <2>1. ASSUME NEW m \in net', m.type = "answer", NEW q \in Procs, via'[q] = m.by
        PROVE  q # p /\ starts'[q] = starts[q] /\ peers'[q] = peers[q] /\ via[q] = m.by
    BY <1>1, <1>3, <1>4, <2>1, NobodyIsNoPeer DEF Typed, TypeOK
  <2> QED  BY <1>3, <2>1 DEF Meet, AnswersMeet, Self, ID
<1>7. PairsMeet'
  BY <1>1, <1>4 DEF Meet, PairsMeet, Self, ID, Typed, TypeOK
<1> QED  BY <1>5, <1>6, <1>7 DEF Meet

LEMMA CrashMeet == ASSUME Typed, Meet, NEW p \in Procs, Crash(p) PROVE Meet'
<1>1. /\ starts' = starts
      /\ via' = [via EXCEPT ![p] = Nobody]
      /\ peers' = [peers EXCEPT ![p] = {}]
      /\ pc' = [pc EXCEPT ![p] = "down"]
      /\ \A m \in net' : m \in net /\ (m.type = "listing" => m.by # Self(p))
  BY DEF Crash
<1>2. ASSUME NEW id \in Peer, pc'[id.addr] # "down", starts'[id.addr] = id.start
      PROVE  id.addr # p /\ Current(id)
  BY <1>1, <1>2 DEF Current, Typed, TypeOK, Peer
<1>3. ASSUME NEW m \in net', m.type \in {"listing", "answer"}
      PROVE  m \in net /\ m \in Messages /\ m.by \in Peer
  BY <1>1, <1>3, MessageFields DEF Typed, TypeOK
<1>4. ASSUME NEW q \in Procs, via'[q] # Nobody
      PROVE  q # p /\ via'[q] = via[q] /\ via[q] \in Peer
  BY <1>1, <1>4 DEF Typed, TypeOK
<1>5. Registered'
  <2>1. ASSUME NEW m \in net', m.type = "listing"
        PROVE  /\ pc'[m.by.addr] # "down" /\ starts'[m.by.addr] = m.by.start
               /\ m.from \in peers'[m.by.addr]
    <3>1. m.by.addr # p /\ Current(m.by) /\ m.from \in peers[m.by.addr]
      BY <1>1, <1>3, <2>1 DEF Meet, Registered, Current, Self, ID, Peer
    <3> QED  BY <1>1, <1>3, <3>1 DEF Current, Typed, TypeOK, Peer
  <2>2. ASSUME NEW m \in net', m.type = "answer",
               pc'[m.by.addr] # "down", starts'[m.by.addr] = m.by.start
        PROVE  m.to \in peers'[m.by.addr]
    BY <1>1, <1>2, <1>3, <2>2 DEF Meet, Registered, Typed, TypeOK, Peer
  <2>3. ASSUME NEW q \in Procs, via'[q] # Nobody,
               pc'[via'[q].addr] # "down", starts'[via'[q].addr] = via'[q].start
        PROVE  ID(q, starts'[q]) \in peers'[via'[q].addr]
    BY <1>1, <1>2, <1>4, <2>3 DEF Meet, Registered, Self, Typed, TypeOK, Peer
  <2> QED  BY <2>1, <2>2, <2>3 DEF Registered, Current, Self
<1>6. AnswersMeet'
  <2>1. ASSUME NEW m \in net', m.type = "answer", NEW q \in Procs, via'[q] = m.by
        PROVE  peers'[q] = peers[q] /\ via[q] = m.by
    BY <1>1, <1>3, <1>4, <2>1, NobodyIsNoPeer DEF Typed, TypeOK
  <2> QED  BY <1>1, <1>3, <2>1 DEF Meet, AnswersMeet, Self, ID
<1>7. PairsMeet'
  BY <1>1, <1>4 DEF Meet, PairsMeet, Self, ID, Typed, TypeOK
<1> QED  BY <1>5, <1>6, <1>7 DEF Meet

LEMMA HandleAnnounceMeet ==
    ASSUME Typed, Meet, NEW p \in Procs, NEW m \in net, HandleAnnounce(p, m) PROVE Meet'
<1> DEFINE listing == [type |-> "listing", from |-> m.from, by |-> Self(p)]
<1>1. /\ listing.type = "listing" /\ listing.from = m.from /\ listing.by = Self(p)
      /\ net' = (net \ {m}) \cup {listing}
      /\ pc[p] = "up"
      /\ peers' = [peers EXCEPT ![p] = @ \cup {m.from}]
      /\ UNCHANGED <<starts, pc, via>>
  BY DEF HandleAnnounce
<1> HIDE DEF listing
<1>2. \A q \in Procs : peers[q] \subseteq peers'[q]
  BY <1>1 DEF Typed, TypeOK
<1>3. \A n \in net' : n.type = "answer" => n \in net
  BY <1>1
<1>4. \A n \in net : n.type \in {"listing", "answer"} => n.by.addr \in Procs
  BY MessageFields DEF Typed, TypeOK, Peer
<1>5. Self(p).addr = p /\ Self(p).start = starts[p] /\ m.from \in peers'[p]
  BY <1>1 DEF Self, ID, Typed, TypeOK
<1>6. \A n \in net' : n.type = "listing" =>
         /\ pc[n.by.addr] # "down" /\ starts[n.by.addr] = n.by.start
         /\ n.from \in peers'[n.by.addr]
  BY <1>1, <1>2, <1>4, <1>5 DEF Meet, Registered, Current
<1>7. Registered'
  BY <1>1, <1>2, <1>3, <1>4, <1>6 DEF Meet, Registered, Current, Self, ID, Typed, TypeOK, Peer
<1>8. AnswersMeet'
  BY <1>1, <1>2, <1>3 DEF Meet, AnswersMeet, Self, ID
<1>9. PairsMeet'
  BY <1>1, <1>2 DEF Meet, PairsMeet, Self, ID
<1> QED  BY <1>7, <1>8, <1>9 DEF Meet

\* The list that is sent holds everyone that this process has answered before.
LEMMA AnswerAnnounceMeet ==
    ASSUME Typed, Meet, NEW p \in Procs, NEW m \in net, AnswerAnnounce(p, m) PROVE Meet'
<1> DEFINE answer == [type |-> "answer", to |-> m.from, by |-> m.by, peers |-> Listed(p)]
<1>1. /\ answer.type = "answer" /\ answer.to = m.from /\ answer.by = m.by
      /\ answer.peers = Listed(p)
      /\ \A n \in net' : n \in net \/ n = answer
      /\ m.type = "listing" /\ m.by = Self(p)
      /\ UNCHANGED <<starts, pc, via, peers>>
  BY DEF AnswerAnnounce
<1> HIDE DEF answer
<1>2. m.by.addr = p /\ Current(m.by) /\ m.from \in peers[p] /\ peers[p] \subseteq Listed(p)
  BY <1>1 DEF Meet, Registered, Listed, Self, ID
<1>3. \A n \in net : n.type = "answer" /\ n.by = m.by => n.to \in Listed(p)
  BY <1>2 DEF Meet, Registered
<1>4. \A q \in Procs : via[q] = m.by => Self(q) \in Listed(p)
  <2>1. m.by # Nobody
    BY <1>1, MessageFields, NobodyIsNoPeer DEF Typed, TypeOK
  <2> QED  BY <1>2, <2>1 DEF Meet, Registered
<1>5. Registered'
  BY <1>1, <1>2 DEF Meet, Registered, Current, Self, ID
<1>6. AnswersMeet'
  BY <1>1, <1>3, <1>4 DEF Meet, AnswersMeet, Self, ID
<1>7. PairsMeet'
  BY <1>1 DEF Meet, PairsMeet, Self, ID
<1> QED  BY <1>5, <1>6, <1>7 DEF Meet

LEMMA AnnouncedMeet ==
    ASSUME Typed, Meet, NEW p \in Procs, NEW m \in net, Announced(p, m) PROVE Meet'
<1>1. /\ m.type = "answer" /\ m.to = Self(p)
      /\ peers' = [peers EXCEPT ![p] = @ \cup (m.peers \ {Self(p)})]
      /\ via' = [via EXCEPT ![p] = m.by]
      /\ pc' = [pc EXCEPT ![p] = "booting"]
      /\ starts' = starts /\ net' \subseteq net
  BY DEF Announced
<1>2. \A q \in Procs : peers[q] \subseteq peers'[q] /\ \A peer \in m.peers :
         peer # Self(p) => peer \in peers'[p]
  BY <1>1 DEF Typed, TypeOK
<1>3. pc[p] # "down" /\ m.by \in Peer /\ m.by # Nobody
  BY <1>1, MessageFields, NobodyIsNoPeer DEF Typed, TypeOK, StartsPast, Current, Self, ID
<1>4. \A id \in Peer : pc'[id.addr] # "down" => pc[id.addr] # "down"
  BY <1>1, <1>3 DEF Typed, TypeOK, Peer
<1>5. \A q \in Procs : via'[q] = (IF q = p THEN m.by ELSE via[q])
  BY <1>1 DEF Typed, TypeOK
<1>6. \A n \in net : n.type \in {"listing", "answer"} => n.by \in Peer /\ n.by.addr \in Procs
  BY MessageFields, NobodyIsNoPeer DEF Typed, TypeOK
<1>7. \A q \in Procs : via[q] # Nobody => via[q] \in Peer /\ via[q].addr \in Procs
  BY NobodyIsNoPeer DEF Typed, TypeOK
<1>8. Registered'
  <2>1. ASSUME NEW n \in net', n.type = "listing"
        PROVE  /\ pc'[n.by.addr] # "down" /\ starts'[n.by.addr] = n.by.start
               /\ n.from \in peers'[n.by.addr]
    BY <1>1, <1>2, <1>6, <2>1 DEF Meet, Registered, Current, Typed, TypeOK
  <2>2. ASSUME NEW n \in net', n.type = "answer",
               pc'[n.by.addr] # "down", starts'[n.by.addr] = n.by.start
        PROVE  n.to \in peers'[n.by.addr]
    BY <1>1, <1>2, <1>4, <1>6, <2>2 DEF Meet, Registered, Current
  <2>3. ASSUME NEW q \in Procs, via'[q] # Nobody,
               pc'[via'[q].addr] # "down", starts'[via'[q].addr] = via'[q].start
        PROVE  Self(q) \in peers'[via'[q].addr]
    <3>1. CASE q = p
      BY <1>1, <1>2, <1>3, <1>4, <1>5, <1>6, <2>3, <3>1 DEF Meet, Registered, Current
    <3>2. CASE q # p
      BY <1>1, <1>2, <1>4, <1>5, <1>7, <2>3, <3>2 DEF Meet, Registered, Current
    <3> QED  BY <3>1, <3>2
  <2> QED  BY <1>1, <2>1, <2>2, <2>3 DEF Registered, Current, Self, ID
<1>9. AnswersMeet'
  <2>1. ASSUME NEW n \in net', n.type = "answer", NEW q \in Procs, via'[q] = n.by, Self(q) # n.to
        PROVE  Self(q) \in n.peers \/ n.to \in peers'[q]
    <3>1. CASE q = p
      BY <1>1, <1>2, <1>5, <2>1, <3>1 DEF Meet, AnswersMeet
    <3>2. CASE q # p
      BY <1>1, <1>2, <1>5, <2>1, <3>2 DEF Meet, AnswersMeet
    <3> QED  BY <3>1, <3>2
  <2> QED  BY <1>1, <2>1 DEF Meet, AnswersMeet, Self, ID
<1>10. PairsMeet'
  <2>1. \A q, r \in Procs : q # r => Self(q) # Self(r)
    BY DEF Self, ID
  <2>2. ASSUME NEW q \in Procs, q # p, via[q] = m.by
        PROVE  Self(p) \in peers'[q] \/ Self(q) \in peers'[p]
    BY <1>1, <1>2, <2>1, <2>2 DEF Meet, AnswersMeet
  <2>3. ASSUME NEW q \in Procs, NEW r \in Procs, q # r, via'[q] = via'[r], via'[q] # Nobody
        PROVE  Self(q) \in peers'[r] \/ Self(r) \in peers'[q]
    <3>1. CASE q # p /\ r # p
      BY <1>2, <1>5, <2>3, <3>1 DEF Meet, PairsMeet
    <3>2. CASE q = p \/ r = p
      BY <1>5, <2>2, <2>3, <3>2
    <3> QED  BY <3>1, <3>2
  <2> QED  BY <1>1, <2>3 DEF PairsMeet, Self, ID
<1> QED  BY <1>8, <1>9, <1>10 DEF Meet

LEMMA NextMeet == Typed /\ Meet /\ [Next]_vars => Meet'
<1> SUFFICES ASSUME Typed, Meet, [Next]_vars PROVE Meet'
  OBVIOUS
<1> USE DEF Typed, TypeOK, Peer
<1>1. ASSUME NEW p \in Procs, Boot(p) \/ AnnounceFailed(p) \/ HealthRound(p) PROVE Meet'
  BY <1>1, QuietMeet DEF Boot, AnnounceFailed, HealthRound
<1>2. ASSUME NEW p \in Procs, NEW q \in Procs, Publish(p, q) PROVE Meet'
  BY <1>2, QuietMeet DEF Publish
<1>3. ASSUME NEW m \in net, Lose(m) \/ \E p \in Procs : StateHandler(p, m) PROVE Meet'
  BY <1>3, QuietMeet DEF Lose, StateHandler
<1>4. ASSUME UNCHANGED vars \/ \E u \in Urls : Turn(u) PROVE Meet'
  BY <1>4, QuietMeet DEF vars, Turn
<1>5. CASE \E p \in Mortal : Crash(p)
  BY <1>5, CrashMeet, PeerAssumption
<1>6. CASE \E p \in Bootstraps, m \in net : HandleAnnounce(p, m)
  BY <1>6, HandleAnnounceMeet, PeerAssumption
<1> QED
  BY <1>1, <1>2, <1>3, <1>4, <1>5, <1>6, StartMeet, AnnouncedMeet, AnswerAnnounceMeet DEF Next

\* For any processes, however they start, crash and announce themselves and
\* whatever gets lost: of two that the same process answered, one knows the
\* other.
THEOREM AnsweredMeet == Spec => []PairsMeet
<1>1. Init => Typed /\ Meet
  BY InitTyped, InitMeet
<1>2. Typed /\ Meet /\ [Next]_vars => (Typed /\ Meet)'
  BY NextTyped, NextMeet
<1>3. Meet => PairsMeet
  BY DEF Meet
<1> QED  BY <1>1, <1>2, <1>3, PTL DEF Spec

=============================================================================
