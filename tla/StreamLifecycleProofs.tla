----------------------- MODULE StreamLifecycleProofs -----------------------
(***************************************************************************)
(* Theorems about StreamLifecycle, for any number of streams, connections, *)
(* actors and flips.  PortsInv is the part of the inductive invariant that *)
(* says what run() holds at each of its points.                            *)
(***************************************************************************)
EXTENDS StreamLifecycle, SequenceTheorems, TLAPS

InOut == <<inOpen, inQueue, inSock, egressOpen, outOpen, outQueue>>

\* What the goroutines of one stream hold, point by point.
Ports(s) ==
    /\ inOpen[s] <=> pc[s] \in Serving \cup {"open"}
    /\ inQueue[s] # {} => inOpen[s]
    /\ inSock[s] # {} => pc[s] \in Holding
    /\ pc[s] \in Serving => egressOpen[s]
    /\ egressOpen[s] => pc[s] \in Serving \cup {"detach"}
    /\ outOpen[s] => pc[s] \in Serving \cup (Closing \ {"join"})
    /\ outQueue[s] # {} => outOpen[s]
    /\ rd[s] # "off" => pc[s] \in Serving \cup Closing
    /\ pc[s] = "detach" /\ ~egressOpen[s] => ~outOpen[s] /\ rd[s] = "off"
    /\ conn[s] # {} => rd[s] = "add"

\* The fanout a pump of its own stream has is the one installed.
OwnFanout(s) == pc[s] \in {"start"} \cup Relaying /\ tgt[s] = s => pfan[s] = Fanout(s)

PortsInv == \A s \in Streams : Ports(s) /\ OwnFanout(s)

IInv == TypeOK /\ PortsInv

-----------------------------------------------------------------------------

\* Replacing one fanout of a stream keeps its sequence of fanouts a sequence.
LEMMA ReplaceFanout ==
    ASSUME NEW q \in Seq(SUBSET Readers), NEW i, NEW e,
           i \in DOMAIN q => e \in SUBSET Readers
    PROVE  /\ [q EXCEPT ![i] = e] \in Seq(SUBSET Readers)
           /\ Len([q EXCEPT ![i] = e]) = Len(q)
  <1> DEFINE r == [q EXCEPT ![i] = e]
  <1>1. CASE i \in DOMAIN q
    <2>1. i \in 1..Len(q) /\ e \in SUBSET Readers
      BY <1>1
    <2> QED
      BY <2>1, ExceptSeq
  <1>2. CASE i \notin DOMAIN q
    <2>1. r = q
      BY <1>2
    <2> QED
      BY <2>1
  <1> QED
    BY <1>1, <1>2

LEMMA InitTypeOK == Init => TypeOK
  BY MaxFlipsAssumption DEF Init, Untouched, TypeOK, Pcs, Quiet, States

LEMMA PrepareTypeOK ==
    ASSUME TypeOK, NEW s \in Streams, Prepare(s)
    PROVE  TypeOK'
  <1> USE DEF TypeOK, RunStep, registryVars, shownVars, inVars, pumpVars,
              outVars, readVars, peerVars, actorVars, runVars, egressVars
  <1>1. CASE CheckStop(s)
    BY <1>1 DEF CheckStop, Pcs, Quiet
  <1>2. CASE ReadActive(s)
    BY <1>2 DEF ReadActive, Pcs, Quiet, Closing
  <1>3. CASE Park(s)
    BY <1>3 DEF Park, SetState, States, Pcs, Quiet
  <1>4. CASE AnnounceWaiting(s)
    BY <1>4 DEF AnnounceWaiting, SetState, States, Pcs, Quiet
  <1>5. CASE BindIngress(s)
    BY <1>5 DEF BindIngress, Pcs
  <1>6. CASE BindIngressFails(s)
    BY <1>6 DEF BindIngressFails, Pcs, Quiet
  <1>7. CASE OpenEgress(s)
    BY <1>7 DEF OpenEgress, Pcs, Serving
  <1>8. CASE OpenEgressFails(s)
    BY <1>8 DEF OpenEgressFails, CloseIngress, Pcs, Quiet
  <1> QED
    BY <1>1, <1>2, <1>3, <1>4, <1>5, <1>6, <1>7, <1>8 DEF Prepare

LEMMA AcceptTypeOK ==
    ASSUME TypeOK, NEW s \in Streams, Accept(s)
    PROVE  TypeOK'
  <1> USE DEF TypeOK, RunStep, registryVars, shownVars, inVars, pumpVars,
              outVars, readVars, peerVars, actorVars, runVars, egressVars
  <1>1. CASE LoopStopped(s)
    BY <1>1 DEF LoopStopped, CloseIngress, Pcs, Closing
  <1>2. CASE LoopNotStopped(s)
    BY <1>2 DEF LoopNotStopped, Pcs, Serving
  <1>3. CASE LoopInactive(s)
    BY <1>3 DEF LoopInactive, CloseIngress, Pcs, Closing
  <1>4. CASE LoopActive(s)
    BY <1>4 DEF LoopActive, Pcs, Serving
  <1>5. CASE AcceptNothing(s)
    BY <1>5 DEF AcceptNothing, Pcs, Serving
  <1>6. CASE AcceptSender(s)
    BY <1>6 DEF AcceptSender, Pcs, Serving, Holding
  <1>7. CASE RejectSender(s)
    BY <1>7 DEF RejectSender, Pcs, Serving
  <1>8. CASE \E t \in Streams : RouteSender(s, t)
    <2>1. PICK t \in Streams : RouteSender(s, t)
      BY <1>8
    <2>2. Fanout(t) \in Nat
      BY DEF Fanout
    <2> QED
      BY <2>1, <2>2 DEF RouteSender, Pcs, Serving, Holding
  <1> QED
    BY <1>1, <1>2, <1>3, <1>4, <1>5, <1>6, <1>7, <1>8 DEF Accept

LEMMA RelayTypeOK ==
    ASSUME TypeOK, NEW s \in Streams, Relay(s)
    PROVE  TypeOK'
  <1> USE DEF TypeOK, RunStep, registryVars, shownVars, inVars, pumpVars,
              outVars, readVars, peerVars, actorVars, runVars, egressVars
  <1>1. CASE StartRelay(s)
    BY <1>1 DEF StartRelay, Show, States, Pcs, Serving, Holding, Relaying
  <1>2. CASE EndRelay(s)
    BY <1>2 DEF EndRelay, Show, States, Pcs, Serving
  <1>3. CASE PumpStopped(s)
    BY <1>3 DEF PumpStopped, PumpStep, Pcs, Serving, Holding, Relaying
  <1>4. CASE PumpTick(s)
    BY <1>4 DEF PumpTick, PumpStep, Pcs, Serving, Holding, Relaying
  <1>5. CASE PumpDefault(s)
    BY <1>5 DEF PumpDefault, PumpStep, Pcs, Serving, Holding, Relaying
  <1>6. CASE ReadFails(s)
    BY <1>6 DEF ReadFails, PumpStep, Pcs, Serving, Holding, Relaying
  <1>7. CASE WriteReaders(s)
    <2> DEFINE q == socks[tgt[s]]
               left == q[pfan[s]] \ gone
    <2>1. q \in Seq(SUBSET Readers)
      OBVIOUS
    <2>2. pfan[s] \in DOMAIN q => left \in SUBSET Readers
      BY <2>1
    <2>3. [q EXCEPT ![pfan[s]] = left] \in Seq(SUBSET Readers)
      BY <2>1, <2>2, ReplaceFanout
    <2> QED
      BY <1>7, <2>3 DEF WriteReaders, PumpStep, Pcs, Serving, Holding, Relaying
  <1>8. CASE FlagReaders(s)
    BY <1>8 DEF FlagReaders, PumpStep, Pcs, Serving, Holding, Relaying
  <1> QED
    BY <1>1, <1>2, <1>3, <1>4, <1>5, <1>6, <1>7, <1>8 DEF Relay

LEMMA CloseEgressTypeOK ==
    ASSUME TypeOK, NEW s \in Streams, CloseEgress(s)
    PROVE  TypeOK'
  <1> USE DEF TypeOK, RunStep, registryVars, shownVars, inVars, pumpVars,
              outVars, readVars, peerVars, actorVars, runVars, egressVars
  <1>1. CASE DetachEgress(s)
    BY <1>1 DEF DetachEgress, CloseStep, Pcs, Quiet, Closing
  <1>2. CASE CloseReaders(s)
    <2>1. [socks[s] EXCEPT ![Fanout(s)] = {}] \in Seq(SUBSET Readers)
      BY ReplaceFanout
    <2> QED
      BY <1>2, <2>1 DEF CloseReaders, CloseStep, Pcs, Closing
  <1>3. CASE CloseEgressStop(s)
    BY <1>3 DEF CloseEgressStop, CloseStep, Pcs, Closing
  <1>4. CASE CloseEgressListener(s)
    BY <1>4 DEF CloseEgressListener, CloseStep, Pcs, Closing
  <1>5. CASE JoinAcceptor(s)
    BY <1>5 DEF JoinAcceptor, CloseStep, Pcs, Quiet
  <1> QED
    BY <1>1, <1>2, <1>3, <1>4, <1>5 DEF CloseEgress

LEMMA AcceptReadersTypeOK ==
    ASSUME TypeOK, NEW s \in Streams, AcceptReaders(s)
    PROVE  TypeOK'
  <1> USE DEF TypeOK, RunStep, registryVars, shownVars, inVars, pumpVars,
              outVars, readVars, peerVars, actorVars, runVars, egressVars
  <1>1. CASE AcceptorCheckStop(s)
    BY <1>1 DEF AcceptorCheckStop, AcceptorStep
  <1>2. CASE AcceptorReadActive(s)
    BY <1>2 DEF AcceptorReadActive, AcceptorStep
  <1>3. CASE AcceptNoReader(s)
    BY <1>3 DEF AcceptNoReader, AcceptorStep
  <1>4. CASE AcceptReader(s)
    BY <1>4 DEF AcceptReader, AcceptorStep
  <1>5. CASE AddReader(s)
    <2> DEFINE q == socks[s]
               more == q[Fanout(s)] \cup conn[s]
    <2>1. q \in Seq(SUBSET Readers)
      OBVIOUS
    <2>2. Fanout(s) \in DOMAIN q => more \in SUBSET Readers
      BY <2>1
    <2>3. [q EXCEPT ![Fanout(s)] = more] \in Seq(SUBSET Readers)
      BY <2>1, <2>2, ReplaceFanout
    <2> QED
      BY <1>5, <2>3 DEF AddReader, AcceptorStep
  <1>6. CASE ShowReader(s)
    BY <1>6 DEF ShowReader, AcceptorStep
  <1> QED
    BY <1>1, <1>2, <1>3, <1>4, <1>5, <1>6 DEF AcceptReaders

LEMMA ActorTypeOK ==
    ASSUME TypeOK, NEW a \in Actors, NEW s \in Streams,
           Finish(a, s) \/ Request(a, s)
    PROVE  TypeOK'
  <1> USE DEF TypeOK, RunStep, registryVars, shownVars, inVars, pumpVars,
              outVars, readVars, peerVars, actorVars, runVars, egressVars
  <1> USE DEF ActorStep
  <1>1. CASE Announce(a, s)
    BY <1>1 DEF Announce, SetState, States
  <1>2. CASE CloseStopCh(a, s)
    BY <1>2 DEF CloseStopCh
  <1>3. CASE RemoveReturns(a, s)
    BY <1>3 DEF RemoveReturns
  <1>4. CASE Flip(a, s)
    BY <1>4, MaxFlipsAssumption DEF Flip
  <1>5. CASE RemoveStream(a, s)
    BY <1>5 DEF RemoveStream
  <1> QED
    BY <1>1, <1>2, <1>3, <1>4, <1>5 DEF Finish, Request

LEMMA OtherTypeOK ==
    ASSUME TypeOK, NEW s \in Streams, ReadData(s) \/ AddStream(s) \/ Connections(s)
    PROVE  TypeOK'
  <1> USE DEF TypeOK, RunStep, registryVars, shownVars, inVars, pumpVars,
              outVars, readVars, peerVars, actorVars, runVars, egressVars
  <1>1. CASE ReadData(s)
    BY <1>1 DEF ReadData, PumpStep, Pcs, Serving, Holding, Relaying
  <1>2. CASE AddStream(s)
    BY <1>2 DEF AddStream, ActorStep, Pcs, Quiet
  <1>3. ASSUME NEW x \in Senders, SenderConnects(x, s)
        PROVE  TypeOK'
    BY <1>3 DEF SenderConnects, Dial, Peers
  <1>4. ASSUME NEW r \in Readers, ReaderConnects(r, s)
        PROVE  TypeOK'
    BY <1>4 DEF ReaderConnects, Dial, Peers
  <1> QED
    BY <1>1, <1>2, <1>3, <1>4 DEF Connections

LEMMA NextTypeOK == TypeOK /\ [Next]_vars => TypeOK'
  <1> SUFFICES ASSUME TypeOK, [Next]_vars
               PROVE  TypeOK'
    OBVIOUS
  <1>1. ASSUME NEW s \in Streams,
               Run(s) \/ ReadData(s) \/ AcceptReaders(s) \/ AddStream(s) \/ Connections(s)
        PROVE  TypeOK'
    BY <1>1, PrepareTypeOK, AcceptTypeOK, RelayTypeOK, CloseEgressTypeOK,
       AcceptReadersTypeOK, OtherTypeOK DEF Run
  <1>2. ASSUME NEW a \in Actors, NEW s \in Streams, Finish(a, s) \/ Request(a, s)
        PROVE  TypeOK'
    BY <1>2, ActorTypeOK
  <1>3. ASSUME NEW p \in Peers, PeerLeaves(p)
        PROVE  TypeOK'
    BY <1>3 DEF PeerLeaves, TypeOK, registryVars, shownVars, runVars, inVars,
                pumpVars, egressVars, outVars, readVars, actorVars
  <1>4. CASE UNCHANGED vars
    BY <1>4 DEF TypeOK, vars, registryVars, shownVars, runVars, inVars,
                pumpVars, egressVars, outVars, readVars, peerVars, actorVars
  <1> QED
    BY <1>1, <1>2, <1>3, <1>4 DEF Next

\* Every variable keeps its type (Stream, Relay and the goroutines' locals).
THEOREM TypeCorrect == Spec => []TypeOK
  BY InitTypeOK, NextTypeOK, PTL DEF Spec

-----------------------------------------------------------------------------
(* What run() holds *)

LEMMA InitPortsInv == Init => PortsInv
  BY DEF Init, Untouched, PortsInv, Ports, OwnFanout, Serving, Holding, Relaying, Closing

LEMMA PreparePorts ==
    ASSUME TypeOK, PortsInv, NEW s \in Streams, Prepare(s)
    PROVE  PortsInv'
  <1> USE DEF PortsInv, Ports, OwnFanout, RunStep, registryVars, shownVars,
              inVars, pumpVars, outVars, readVars, peerVars, actorVars,
              runVars, egressVars, Serving, Holding, Relaying, Closing
  <1>1. CASE CheckStop(s)
    BY <1>1 DEF CheckStop, TypeOK, Fanout
  <1>2. CASE ReadActive(s)
    BY <1>2 DEF ReadActive, TypeOK, Fanout
  <1>3. CASE Park(s)
    BY <1>3 DEF Park, TypeOK, Fanout, SetState
  <1>4. CASE AnnounceWaiting(s)
    BY <1>4 DEF AnnounceWaiting, TypeOK, Fanout, SetState
  <1>5. CASE BindIngress(s)
    BY <1>5 DEF BindIngress, TypeOK, Fanout
  <1>6. CASE BindIngressFails(s)
    BY <1>6 DEF BindIngressFails, TypeOK, Fanout
  <1>7. CASE OpenEgress(s)
    BY <1>7 DEF OpenEgress, TypeOK, Fanout
  <1>8. CASE OpenEgressFails(s)
    BY <1>8 DEF OpenEgressFails, TypeOK, Fanout, CloseIngress
  <1> QED
    BY <1>1, <1>2, <1>3, <1>4, <1>5, <1>6, <1>7, <1>8 DEF Prepare

LEMMA AcceptPorts ==
    ASSUME TypeOK, PortsInv, NEW s \in Streams, Accept(s)
    PROVE  PortsInv'
  <1> USE DEF PortsInv, Ports, OwnFanout, RunStep, registryVars, shownVars,
              inVars, pumpVars, outVars, readVars, peerVars, actorVars,
              runVars, egressVars, Serving, Holding, Relaying, Closing
  <1>1. CASE LoopStopped(s)
    BY <1>1 DEF LoopStopped, TypeOK, Fanout, CloseIngress
  <1>2. CASE LoopNotStopped(s)
    BY <1>2 DEF LoopNotStopped, TypeOK, Fanout
  <1>3. CASE LoopInactive(s)
    BY <1>3 DEF LoopInactive, TypeOK, Fanout, CloseIngress
  <1>4. CASE LoopActive(s)
    BY <1>4 DEF LoopActive, TypeOK, Fanout
  <1>5. CASE AcceptNothing(s)
    BY <1>5 DEF AcceptNothing, TypeOK, Fanout
  <1>6. CASE AcceptSender(s)
    BY <1>6 DEF AcceptSender, TypeOK, Fanout
  <1>7. CASE RejectSender(s)
    BY <1>7 DEF RejectSender, TypeOK, Fanout
  <1>8. CASE \E t \in Streams : RouteSender(s, t)
    BY <1>8 DEF RouteSender, TypeOK, Fanout
  <1> QED
    BY <1>1, <1>2, <1>3, <1>4, <1>5, <1>6, <1>7, <1>8 DEF Accept

LEMMA RelayPorts ==
    ASSUME TypeOK, PortsInv, NEW s \in Streams, Relay(s)
    PROVE  PortsInv'
  <1> USE DEF PortsInv, Ports, OwnFanout, RunStep, registryVars, shownVars,
              inVars, pumpVars, outVars, readVars, peerVars, actorVars,
              runVars, egressVars, Serving, Holding, Relaying, Closing
  <1>1. CASE StartRelay(s)
    BY <1>1 DEF StartRelay, TypeOK, Fanout, Show
  <1>2. CASE EndRelay(s)
    BY <1>2 DEF EndRelay, TypeOK, Fanout, Show
  <1>3. CASE PumpStopped(s)
    BY <1>3 DEF PumpStopped, TypeOK, Fanout, PumpStep
  <1>4. CASE PumpTick(s)
    BY <1>4 DEF PumpTick, TypeOK, Fanout, PumpStep
  <1>5. CASE PumpDefault(s)
    BY <1>5 DEF PumpDefault, TypeOK, Fanout, PumpStep
  <1>6. CASE ReadFails(s)
    BY <1>6 DEF ReadFails, TypeOK, Fanout, PumpStep
  <1>7. CASE WriteReaders(s)
    BY <1>7 DEF WriteReaders, TypeOK, Fanout, PumpStep
  <1>8. CASE FlagReaders(s)
    BY <1>8 DEF FlagReaders, TypeOK, Fanout, PumpStep
  <1> QED
    BY <1>1, <1>2, <1>3, <1>4, <1>5, <1>6, <1>7, <1>8 DEF Relay

LEMMA CloseEgressPorts ==
    ASSUME TypeOK, PortsInv, NEW s \in Streams, CloseEgress(s)
    PROVE  PortsInv'
  <1> USE DEF PortsInv, Ports, OwnFanout, RunStep, registryVars, shownVars,
              inVars, pumpVars, outVars, readVars, peerVars, actorVars,
              runVars, egressVars, Serving, Holding, Relaying, Closing
  <1>1. CASE DetachEgress(s)
    <2>1. after[s] \in {"park", "top", "exited"}
      BY DEF TypeOK
    <2>2. CASE egressOpen[s]
      BY <1>1, <2>2 DEF DetachEgress, CloseStep, TypeOK, Fanout
    <2>3. CASE ~egressOpen[s]
      <3>1. pc' = [pc EXCEPT ![s] = after[s]] /\ egressOpen' = egressOpen
        BY <1>1, <2>3 DEF DetachEgress, CloseStep, TypeOK
      <3> QED
        BY <1>1, <2>1, <2>3, <3>1 DEF DetachEgress, CloseStep, TypeOK, Fanout
    <2> QED
      BY <2>2, <2>3
  <1>2. CASE CloseReaders(s)
    BY <1>2 DEF CloseReaders, TypeOK, Fanout, CloseStep
  <1>3. CASE CloseEgressStop(s)
    BY <1>3 DEF CloseEgressStop, TypeOK, Fanout, CloseStep
  <1>4. CASE CloseEgressListener(s)
    BY <1>4 DEF CloseEgressListener, TypeOK, Fanout, CloseStep
  <1>5. CASE JoinAcceptor(s)
    <2>1. after[s] \in {"park", "top", "exited"}
      BY DEF TypeOK
    <2>2. pc' = [pc EXCEPT ![s] = after[s]] /\ pc[s] = "join" /\ rd[s] = "off"
      BY <1>5 DEF JoinAcceptor, CloseStep
    <2> QED
      BY <1>5, <2>1, <2>2 DEF JoinAcceptor, CloseStep, TypeOK, Fanout
  <1> QED
    BY <1>1, <1>2, <1>3, <1>4, <1>5 DEF CloseEgress

LEMMA AcceptReadersPorts ==
    ASSUME TypeOK, PortsInv, NEW s \in Streams, AcceptReaders(s)
    PROVE  PortsInv'
  <1> USE DEF PortsInv, Ports, OwnFanout, RunStep, registryVars, shownVars,
              inVars, pumpVars, outVars, readVars, peerVars, actorVars,
              runVars, egressVars, Serving, Holding, Relaying, Closing
  <1>1. CASE AcceptorCheckStop(s)
    BY <1>1 DEF AcceptorCheckStop, TypeOK, Fanout, AcceptorStep
  <1>2. CASE AcceptorReadActive(s)
    BY <1>2 DEF AcceptorReadActive, TypeOK, Fanout, AcceptorStep
  <1>3. CASE AcceptNoReader(s)
    BY <1>3 DEF AcceptNoReader, TypeOK, Fanout, AcceptorStep
  <1>4. CASE AcceptReader(s)
    BY <1>4 DEF AcceptReader, TypeOK, Fanout, AcceptorStep
  <1>5. CASE AddReader(s)
    BY <1>5 DEF AddReader, TypeOK, Fanout, AcceptorStep
  <1>6. CASE ShowReader(s)
    BY <1>6 DEF ShowReader, TypeOK, Fanout, AcceptorStep
  <1> QED
    BY <1>1, <1>2, <1>3, <1>4, <1>5, <1>6 DEF AcceptReaders

LEMMA ActorPorts ==
    ASSUME TypeOK, PortsInv, NEW a \in Actors, NEW s \in Streams,
           Finish(a, s) \/ Request(a, s)
    PROVE  PortsInv'
  <1>1. UNCHANGED <<pc, inVars, pumpVars, outVars, readVars>>
    BY DEF Finish, Request, Announce, CloseStopCh, RemoveReturns, Flip,
           RemoveStream, ActorStep, runVars, egressVars
  <1> QED
    BY <1>1 DEF PortsInv, Ports, OwnFanout, Fanout, inVars, pumpVars, outVars,
                readVars

LEMMA OtherPorts ==
    ASSUME TypeOK, PortsInv, NEW s \in Streams,
           ReadData(s) \/ AddStream(s) \/ Connections(s)
    PROVE  PortsInv'
  <1> USE DEF PortsInv, Ports, OwnFanout, RunStep, registryVars, shownVars,
              inVars, pumpVars, outVars, readVars, peerVars, actorVars,
              runVars, egressVars, Serving, Holding, Relaying, Closing
  <1>1. CASE ReadData(s)
    BY <1>1 DEF ReadData, PumpStep, TypeOK, Fanout
  <1>2. CASE AddStream(s)
    BY <1>2 DEF AddStream, ActorStep, TypeOK, Fanout
  <1>3. ASSUME NEW x \in Senders, SenderConnects(x, s)
        PROVE  PortsInv'
    BY <1>3 DEF SenderConnects, Dial, TypeOK, Fanout
  <1>4. ASSUME NEW r \in Readers, ReaderConnects(r, s)
        PROVE  PortsInv'
    BY <1>4 DEF ReaderConnects, Dial, TypeOK, Fanout
  <1> QED
    BY <1>1, <1>2, <1>3, <1>4 DEF Connections

LEMMA NextPorts == TypeOK /\ PortsInv /\ [Next]_vars => PortsInv'
  <1> SUFFICES ASSUME TypeOK, PortsInv, [Next]_vars
               PROVE  PortsInv'
    OBVIOUS
  <1>1. ASSUME NEW s \in Streams,
               Run(s) \/ ReadData(s) \/ AcceptReaders(s) \/ AddStream(s) \/ Connections(s)
        PROVE  PortsInv'
    BY <1>1, PreparePorts, AcceptPorts, RelayPorts, CloseEgressPorts,
       AcceptReadersPorts, OtherPorts DEF Run
  <1>2. ASSUME NEW a \in Actors, NEW s \in Streams, Finish(a, s) \/ Request(a, s)
        PROVE  PortsInv'
    BY <1>2, ActorPorts
  <1>3. CASE UNCHANGED <<pc, inVars, pumpVars, outVars, readVars>>
    BY <1>3 DEF PortsInv, Ports, OwnFanout, Fanout, inVars, pumpVars, outVars,
                readVars
  <1>4. ASSUME NEW p \in Peers, PeerLeaves(p)
        PROVE  PortsInv'
    BY <1>3, <1>4 DEF PeerLeaves, runVars, egressVars
  <1>5. CASE UNCHANGED vars
    BY <1>3, <1>5 DEF vars, runVars, egressVars
  <1> QED
    BY <1>1, <1>2, <1>4, <1>5 DEF Next

\* The inductive invariant: types and what each point of run() holds.
THEOREM Inductive == Spec => []IInv
  <1>1. Init => IInv
    BY InitTypeOK, InitPortsInv DEF IInv
  <1>2. IInv /\ [Next]_vars => IInv'
    BY NextTypeOK, NextPorts DEF IInv
  <1> QED
    BY <1>1, <1>2, PTL DEF Spec

\* No early return and no path through closeEgress() leaves a listener, an
\* egress or acceptReaders() behind.
THEOREM NothingOutlivesItsStream == Spec => []QuietHoldsNothing
  <1>1. IInv => QuietHoldsNothing
    BY DEF IInv, PortsInv, Ports, QuietHoldsNothing, Quiet, Serving, Holding,
           Relaying, Closing
  <1> QED
    BY <1>1, Inductive, PTL

\* A publisher of its own stream always writes to the fanout readers join.
THEOREM OwnPumpIsCurrent == Spec => []OwnPumpFeedsReaders
  <1>1. IInv => OwnPumpFeedsReaders
    BY DEF IInv, PortsInv, Ports, OwnFanout, OwnPumpFeedsReaders, Serving,
           Holding
  <1> QED
    BY <1>1, Inductive, PTL

-----------------------------------------------------------------------------
(* Lights *)

Shown(t) == state[t] = "relaying" \/ ingressConnected[t]
Pumped(t) == \E s \in Streams : pc[s] \in Relaying /\ tgt[s] = t

\* No light goes on, and no pump ends.
LightsKept == \A t \in Streams : /\ Shown(t)' => Shown(t)
                                 /\ Pumped(t) => Pumped(t)'

\* Only startRelay puts a light on and only its end ends a pump.
LEMMA OtherStepsKeepLights ==
    ASSUME TypeOK, [Next]_vars,
           ~\E s \in Streams : StartRelay(s) \/ EndRelay(s)
    PROVE  LightsKept
  <1> USE DEF RunStep, registryVars, shownVars, inVars, pumpVars, outVars,
              readVars, peerVars, actorVars, runVars, egressVars
  <1> DEFINE NoLight == \A t \in Streams : Shown(t)' => Shown(t)
             PumpsOn == \A s \in Streams : pc[s] \in Relaying =>
                            pc'[s] \in Relaying /\ tgt'[s] = tgt[s]
  <1>1. NoLight /\ PumpsOn => LightsKept
    BY DEF LightsKept, Pumped
  <1>2. ASSUME NEW s \in Streams, Prepare(s)
        PROVE  NoLight /\ PumpsOn
    BY <1>2 DEF Prepare, CheckStop, ReadActive, Park, AnnounceWaiting,
                BindIngress, BindIngressFails, OpenEgress, OpenEgressFails,
                SetState, CloseIngress, Shown, Relaying, TypeOK
  <1>3. ASSUME NEW s \in Streams, Accept(s)
        PROVE  NoLight /\ PumpsOn
    BY <1>3 DEF Accept, LoopStopped, LoopNotStopped, LoopInactive, LoopActive,
                AcceptNothing, AcceptSender, RejectSender, RouteSender,
                CloseIngress, Shown, Relaying, TypeOK
  <1>4. ASSUME NEW s \in Streams, Relay(s) \/ ReadData(s)
        PROVE  NoLight /\ PumpsOn
    BY <1>4 DEF Relay, PumpStopped, PumpTick, PumpDefault, ReadFails, ReadData,
                WriteReaders, FlagReaders, PumpStep, Shown, Relaying, TypeOK
  <1>5. ASSUME NEW s \in Streams, CloseEgress(s)
        PROVE  NoLight /\ PumpsOn
    BY <1>5 DEF CloseEgress, DetachEgress, CloseReaders, CloseEgressStop,
                CloseEgressListener, JoinAcceptor, CloseStep, Shown, Relaying,
                TypeOK
  <1>6. ASSUME NEW s \in Streams, AcceptReaders(s) \/ Connections(s)
        PROVE  NoLight /\ PumpsOn
    BY <1>6 DEF AcceptReaders, AcceptorCheckStop, AcceptorReadActive,
                AcceptNoReader, AcceptReader, AddReader, ShowReader,
                AcceptorStep, Connections, SenderConnects, ReaderConnects,
                Dial, Shown
  <1>7. ASSUME NEW s \in Streams, AddStream(s)
        PROVE  NoLight /\ PumpsOn
    BY <1>7 DEF AddStream, ActorStep, Shown, Relaying, TypeOK
  <1>8. ASSUME NEW a \in Actors, NEW s \in Streams, Finish(a, s) \/ Request(a, s)
        PROVE  NoLight /\ PumpsOn
    BY <1>8 DEF Finish, Request, Announce, CloseStopCh, RemoveReturns, Flip,
                RemoveStream, ActorStep, SetState, Shown, TypeOK
  <1>9. ASSUME NEW q \in Peers, PeerLeaves(q)
        PROVE  NoLight /\ PumpsOn
    BY <1>9 DEF PeerLeaves, Shown
  <1>10. ASSUME UNCHANGED vars
        PROVE  NoLight /\ PumpsOn
    <2>1. UNCHANGED <<state, ingressConnected, pc, tgt>>
      BY <1>10 DEF vars
    <2> QED
      BY <2>1 DEF Shown
  <1> HIDE DEF NoLight, PumpsOn
  <1>11. ASSUME NEW s \in Streams,
                Run(s) \/ ReadData(s) \/ AcceptReaders(s) \/ AddStream(s) \/ Connections(s)
        PROVE  NoLight /\ PumpsOn
    BY <1>2, <1>3, <1>4, <1>5, <1>6, <1>7, <1>11 DEF Run
  <1>12. NoLight /\ PumpsOn
    BY <1>8, <1>9, <1>10, <1>11 DEF Next
  <1> QED
    BY <1>1, <1>12

LEMMA NextLights ==
    ASSUME TypeOK, NoPhantomPublisher, [Next]_vars
    PROVE  NoPhantomPublisher'
  <1> USE DEF RunStep, inVars, pumpVars, outVars, runVars
  <1>1. NoPhantomPublisher <=> \A t \in Streams : Shown(t) => Pumped(t)
    BY DEF NoPhantomPublisher, Shown, Pumped
  <1>2. NoPhantomPublisher' <=> \A t \in Streams : Shown(t)' => Pumped(t)'
    BY DEF NoPhantomPublisher, Shown, Pumped
  <1>3. CASE \E s \in Streams : StartRelay(s)
    <2>1. PICK s \in Streams : StartRelay(s)
      BY <1>3
    <2>2. \A t \in Streams : Pumped(t) \/ t = tgt[s] => Pumped(t)'
      BY <2>1 DEF StartRelay, TypeOK, Pumped, Relaying
    <2>3. \A t \in Streams : Shown(t)' => Shown(t) \/ t = tgt[s]
      BY <2>1 DEF StartRelay, Show, TypeOK, Shown
    <2> QED
      BY <1>1, <1>2, <2>2, <2>3
  <1>4. CASE \E s \in Streams : EndRelay(s)
    <2>1. PICK s \in Streams : EndRelay(s)
      BY <1>4
    <2>2. \A t \in Streams : Pumped(t) /\ t # tgt[s] => Pumped(t)'
      BY <2>1 DEF EndRelay, TypeOK, Pumped, Relaying
    <2>3. \A t \in Streams : Shown(t)' => Shown(t) /\ t # tgt[s]
      BY <2>1 DEF EndRelay, Show, TypeOK, Shown
    <2> QED
      BY <1>1, <1>2, <2>2, <2>3
  <1>5. CASE ~\E s \in Streams : StartRelay(s) \/ EndRelay(s)
    BY <1>1, <1>2, <1>5, OtherStepsKeepLights DEF LightsKept
  <1> QED
    BY <1>3, <1>4, <1>5

\* A stream shown as relaying, or with a publisher, is being pumped.
THEOREM NoLightWithoutPump == Spec => []NoPhantomPublisher
  <1>1. Init => NoPhantomPublisher
    BY DEF Init, Untouched, NoPhantomPublisher
  <1>2. TypeOK /\ NoPhantomPublisher /\ [Next]_vars => NoPhantomPublisher'
    BY NextLights
  <1> QED
    BY <1>1, <1>2, TypeCorrect, PTL DEF Spec

-----------------------------------------------------------------------------
(* Fanouts *)

LEMMA NextSeals ==
    ASSUME IInv, [Next]_vars
    PROVE  Sealed
  <1> USE DEF IInv, RunStep, outVars, egressVars
  <1>1. CASE UNCHANGED socks
    BY <1>1 DEF Sealed
  <1>2. ASSUME NEW s \in Streams, OpenEgress(s)
        PROVE  Sealed
    <2>1. \A u \in Streams \ {s} : socks'[u] = socks[u]
      BY <1>2 DEF OpenEgress, TypeOK
    <2>2. pc[s] \notin Quiet
      BY <1>2 DEF OpenEgress, Quiet
    <2> QED
      BY <2>1, <2>2 DEF Sealed
  <1>3. ASSUME NEW s \in Streams, WriteReaders(s)
        PROVE  Sealed
    <2> SUFFICES ASSUME NEW u \in Streams, NEW g \in 1..Fanout(u)
                 PROVE  socks'[u][g] \subseteq socks[u][g]
      BY DEF Sealed
    <2>1. socks' = [socks EXCEPT ![tgt[s]][pfan[s]] = @ \ gone]
      BY <1>3 DEF WriteReaders
    <2> QED
      BY <2>1 DEF TypeOK, Fanout
  <1>4. ASSUME NEW s \in Streams, CloseReaders(s)
        PROVE  Sealed
    <2>1. \A u \in Streams \ {s} : socks'[u] = socks[u]
      BY <1>4 DEF CloseReaders, TypeOK
    <2>2. pc[s] \notin Quiet
      BY <1>4 DEF CloseReaders, CloseStep, Quiet
    <2> QED
      BY <2>1, <2>2 DEF Sealed
  <1>5. ASSUME NEW s \in Streams, AddReader(s)
        PROVE  Sealed
    <2>1. \A u \in Streams \ {s} : socks'[u] = socks[u]
      BY <1>5 DEF AddReader, TypeOK
    <2>2. pc[s] \notin Quiet
      BY <1>5 DEF AddReader, AcceptorStep, PortsInv, Ports, Quiet, Serving,
                  Holding, Relaying, Closing
    <2> QED
      BY <2>1, <2>2 DEF Sealed
  <1>6. ASSUME NEW s \in Streams, Prepare(s)
        PROVE  Sealed
    BY <1>1, <1>2, <1>6 DEF Prepare, CheckStop, ReadActive, Park,
       AnnounceWaiting, BindIngress, BindIngressFails, OpenEgressFails,
       CloseIngress
  <1>7. ASSUME NEW s \in Streams, Accept(s)
        PROVE  Sealed
    BY <1>1, <1>7 DEF Accept, LoopStopped, LoopNotStopped, LoopInactive,
       LoopActive, AcceptNothing, AcceptSender, RejectSender, RouteSender,
       CloseIngress
  <1>8. ASSUME NEW s \in Streams, Relay(s) \/ ReadData(s)
        PROVE  Sealed
    BY <1>1, <1>3, <1>8 DEF Relay, StartRelay, EndRelay, PumpStopped, PumpTick,
       PumpDefault, ReadData, ReadFails, FlagReaders
  <1>9. ASSUME NEW s \in Streams, CloseEgress(s)
        PROVE  Sealed
    BY <1>1, <1>4, <1>9 DEF CloseEgress, DetachEgress, CloseEgressStop,
       CloseEgressListener, JoinAcceptor
  <1>10. ASSUME NEW s \in Streams, AcceptReaders(s) \/ Connections(s)
         PROVE  Sealed
    BY <1>1, <1>5, <1>10 DEF AcceptReaders, AcceptorCheckStop,
       AcceptorReadActive, AcceptNoReader, AcceptReader, ShowReader,
       Connections, SenderConnects, ReaderConnects, Dial
  <1>11. ASSUME NEW s \in Streams, AddStream(s)
         PROVE  Sealed
    BY <1>1, <1>11 DEF AddStream, ActorStep
  <1>12. ASSUME NEW a \in Actors, NEW s \in Streams, Finish(a, s) \/ Request(a, s)
         PROVE  Sealed
    BY <1>1, <1>12 DEF Finish, Request, Announce, CloseStopCh, RemoveReturns,
       Flip, RemoveStream, ActorStep
  <1>13. ASSUME NEW p \in Peers, PeerLeaves(p)
         PROVE  Sealed
    BY <1>1, <1>13 DEF PeerLeaves
  <1>14. CASE UNCHANGED vars
    BY <1>1, <1>14 DEF vars
  <1> QED
    BY <1>6, <1>7, <1>8, <1>9, <1>10, <1>11, <1>12, <1>13, <1>14 DEF Next, Run

\* Once run() is quiet, no reader joins a fanout that closeEgress() has left.
THEOREM FanoutsSealed == Spec => QuietFanoutsAreSealed
  <1>1. IInv /\ [Next]_vars => [Sealed]_vars
    BY NextSeals
  <1> QED
    BY <1>1, Inductive, PTL DEF Spec, QuietFanoutsAreSealed
-----------------------------------------------------------------------------
(* Readers and publishers *)

\* What ReaderShown says of one stream.
Lit(s) == egressOpen[s] /\ socks[s][Fanout(s)] # {} /\ rd[s] # "flag" =>
              egressConnected[s]

\* Steps that change neither the fanouts nor the lights of readers.
NoReaderStep ==
    \A s \in Streams : /\ socks'[s] = socks[s]
                       /\ egressConnected'[s] = egressConnected[s]
                       /\ egressOpen'[s] => egressOpen[s]
                       /\ rd[s] = "flag" => rd'[s] = "flag"

LEMMA NoReaderStepKeeps ==
    ASSUME ReaderShown, NoReaderStep
    PROVE  ReaderShown'
  BY DEF ReaderShown, NoReaderStep, Fanout

\* All steps but six of run() and two of acceptReaders() are no reader step.
LEMMA ReaderSteps ==
    ASSUME TypeOK, [Next]_vars
    PROVE  \/ NoReaderStep
           \/ \E s \in Streams :
                \/ OpenEgress(s) \/ StartRelay(s) \/ EndRelay(s) \/ CloseReaders(s)
                \/ WriteReaders(s) \/ FlagReaders(s) \/ AddReader(s) \/ ShowReader(s)
  <1> USE DEF RunStep, inVars, pumpVars, outVars, readVars, shownVars, runVars,
              egressVars
  <1> DEFINE Other == \E s \in Streams :
                \/ OpenEgress(s) \/ StartRelay(s) \/ EndRelay(s) \/ CloseReaders(s)
                \/ WriteReaders(s) \/ FlagReaders(s) \/ AddReader(s) \/ ShowReader(s)
  <1>1. ASSUME UNCHANGED <<socks, egressConnected, egressOpen, rd>>
        PROVE  NoReaderStep
    BY <1>1 DEF NoReaderStep
  <1>2. ASSUME NEW s \in Streams, Prepare(s)
        PROVE  NoReaderStep \/ Other
    BY <1>1, <1>2 DEF Prepare, CheckStop, ReadActive, Park, AnnounceWaiting,
       BindIngress, BindIngressFails, OpenEgressFails, CloseIngress, SetState
  <1>3. ASSUME NEW s \in Streams, Accept(s)
        PROVE  NoReaderStep \/ Other
    BY <1>1, <1>3 DEF Accept, LoopStopped, LoopNotStopped, LoopInactive,
       LoopActive, AcceptNothing, AcceptSender, RejectSender, RouteSender,
       CloseIngress
  <1>4. ASSUME NEW s \in Streams, Relay(s) \/ ReadData(s)
        PROVE  NoReaderStep \/ Other
    BY <1>1, <1>4 DEF Relay, PumpStopped, PumpTick, PumpDefault, ReadData,
       ReadFails, PumpStep
  <1>5. ASSUME NEW s \in Streams, CloseEgress(s)
        PROVE  NoReaderStep \/ Other
    <2>1. CASE DetachEgress(s)
      BY <2>1 DEF DetachEgress, CloseStep, NoReaderStep, TypeOK
    <2> QED
      BY <1>1, <1>5, <2>1 DEF CloseEgress, CloseEgressStop, CloseEgressListener,
         JoinAcceptor, CloseStep
  <1>6. ASSUME NEW s \in Streams, AcceptReaders(s)
        PROVE  NoReaderStep \/ Other
    <2>1. CASE AcceptorCheckStop(s)
      BY <2>1 DEF AcceptorCheckStop, AcceptorStep, NoReaderStep, TypeOK
    <2>2. CASE AcceptorReadActive(s)
      BY <2>2 DEF AcceptorReadActive, AcceptorStep, NoReaderStep, TypeOK
    <2>3. CASE AcceptNoReader(s)
      BY <2>3 DEF AcceptNoReader, AcceptorStep, NoReaderStep, TypeOK
    <2>4. CASE AcceptReader(s)
      BY <2>4 DEF AcceptReader, AcceptorStep, NoReaderStep, TypeOK
    <2> QED
      BY <1>6, <2>1, <2>2, <2>3, <2>4 DEF AcceptReaders
  <1>7. ASSUME NEW s \in Streams, AddStream(s) \/ Connections(s)
        PROVE  NoReaderStep \/ Other
    BY <1>1, <1>7 DEF AddStream, ActorStep, Connections, SenderConnects,
       ReaderConnects, Dial
  <1>8. ASSUME NEW a \in Actors, NEW s \in Streams, Finish(a, s) \/ Request(a, s)
        PROVE  NoReaderStep \/ Other
    BY <1>1, <1>8 DEF Finish, Request, Announce, CloseStopCh, RemoveReturns,
       Flip, RemoveStream, ActorStep, SetState
  <1>9. ASSUME NEW p \in Peers, PeerLeaves(p)
        PROVE  NoReaderStep \/ Other
    BY <1>1, <1>9 DEF PeerLeaves
  <1>10. ASSUME UNCHANGED vars
         PROVE  NoReaderStep
    BY <1>1, <1>10 DEF vars
  <1> HIDE DEF Other
  <1>11. ASSUME NEW s \in Streams,
                Run(s) \/ ReadData(s) \/ AcceptReaders(s) \/ AddStream(s) \/ Connections(s)
         PROVE  NoReaderStep \/ Other
    BY <1>2, <1>3, <1>4, <1>5, <1>6, <1>7, <1>11 DEF Run
  <1>12. NoReaderStep \/ Other
    BY <1>8, <1>9, <1>10, <1>11 DEF Next
  <1> QED
    BY <1>12 DEF Other

LEMMA NextReaders ==
    ASSUME IInv, ReaderShown, PumpFeedsReaders, PumpFeedsReaders', [Next]_vars
    PROVE  ReaderShown'
  <1> USE DEF IInv, RunStep, outVars, runVars, pumpVars
  <1>1. CASE NoReaderStep
    BY <1>1, NoReaderStepKeeps
  <1>2. ASSUME NEW s \in Streams, OpenEgress(s)
        PROVE  ReaderShown'
    <2> SUFFICES ASSUME NEW u \in Streams PROVE Lit(u)'
      BY DEF ReaderShown, Lit
    <2>1. CASE u = s
      <3>1. socks'[s] = Append(socks[s], {}) /\ socks[s] \in Seq(SUBSET Readers)
        BY <1>2 DEF OpenEgress, TypeOK
      <3>2. socks'[s][Len(socks'[s])] = {}
        BY <3>1, AppendProperties
      <3> QED
        BY <2>1, <3>2 DEF Lit, Fanout
    <2>2. CASE u # s
      BY <1>2, <2>2 DEF OpenEgress, TypeOK, ReaderShown, Lit, Fanout, shownVars
    <2> QED
      BY <2>1, <2>2
  <1>3. ASSUME NEW s \in Streams, StartRelay(s)
        PROVE  ReaderShown'
    <2> SUFFICES ASSUME NEW u \in Streams PROVE Lit(u)'
      BY DEF ReaderShown, Lit
    <2>1. UNCHANGED <<socks, egressOpen, rd, tgt, pfan>> /\ pc'[s] = "pump"
      BY <1>3 DEF StartRelay, TypeOK
    <2>2. egressConnected' = [egressConnected EXCEPT ![tgt[s]] = Served(s) # {}]
      BY <1>3 DEF StartRelay, Show
    <2>3. CASE u = tgt[s]
      <3>1. egressOpen[u] => pfan[s] = Fanout(u)
        BY <2>1, <2>3 DEF PumpFeedsReaders, Relaying, Fanout
      <3> QED
        BY <2>1, <2>2, <2>3, <3>1 DEF Lit, Fanout, Served, TypeOK
    <2>4. CASE u # tgt[s]
      BY <2>1, <2>2, <2>4 DEF Lit, Fanout, ReaderShown, TypeOK
    <2> QED
      BY <2>3, <2>4
  <1>4. ASSUME NEW s \in Streams, EndRelay(s)
        PROVE  ReaderShown'
    <2> SUFFICES ASSUME NEW u \in Streams PROVE Lit(u)'
      BY DEF ReaderShown, Lit
    <2>1. UNCHANGED <<socks, egressOpen, rd>> /\ pc[s] = "reset"
      BY <1>4 DEF EndRelay
    <2>2. egressConnected' = [egressConnected EXCEPT ![tgt[s]] = Served(s) # {}]
      BY <1>4 DEF EndRelay, Show
    <2>3. CASE u = tgt[s]
      <3>1. egressOpen[u] => pfan[s] = Fanout(u)
        BY <2>1, <2>3 DEF PumpFeedsReaders, Relaying, Fanout
      <3> QED
        BY <2>1, <2>2, <2>3, <3>1 DEF Lit, Fanout, Served, TypeOK
    <2>4. CASE u # tgt[s]
      BY <2>1, <2>2, <2>4 DEF Lit, Fanout, ReaderShown, TypeOK
    <2> QED
      BY <2>3, <2>4
  <1>5. ASSUME NEW s \in Streams, CloseReaders(s)
        PROVE  ReaderShown'
    <2> SUFFICES ASSUME NEW u \in Streams PROVE Lit(u)'
      BY DEF ReaderShown, Lit
    <2>1. CASE u = s
      <3>1. ~egressOpen[s] /\ egressOpen' = egressOpen
        BY <1>5 DEF CloseReaders, CloseStep, PortsInv, Ports, Serving, Holding, Relaying
      <3> QED
        BY <2>1, <3>1 DEF Lit
    <2>2. CASE u # s
      BY <1>5, <2>2 DEF CloseReaders, CloseStep, TypeOK, ReaderShown, Lit, Fanout, shownVars
    <2> QED
      BY <2>1, <2>2
  <1>6. ASSUME NEW s \in Streams, WriteReaders(s)
        PROVE  ReaderShown'
    <2> SUFFICES ASSUME NEW u \in Streams PROVE Lit(u)'
      BY DEF ReaderShown, Lit
    <2>1. UNCHANGED <<egressConnected, egressOpen, rd>>
      BY <1>6 DEF WriteReaders, PumpStep
    <2>2. socks' = [socks EXCEPT ![tgt[s]][pfan[s]] = @ \ gone]
      BY <1>6 DEF WriteReaders
    <2>3. Len(socks'[u]) = Len(socks[u])
      BY <2>2 DEF TypeOK
    <2>4. socks'[u][Fanout(u)] = socks[u][Fanout(u)]
            \/ socks'[u][Fanout(u)] = socks[u][Fanout(u)] \ gone
      BY <2>2 DEF TypeOK, Fanout
    <2> QED
      BY <2>1, <2>3, <2>4 DEF Lit, Fanout, ReaderShown
  <1>7. ASSUME NEW s \in Streams, FlagReaders(s)
        PROVE  ReaderShown'
    <2> SUFFICES ASSUME NEW u \in Streams PROVE Lit(u)'
      BY DEF ReaderShown, Lit
    <2>1. UNCHANGED <<socks, egressOpen, rd>> /\ pc[s] = "flag"
      BY <1>7 DEF FlagReaders, PumpStep
    <2>2. egressConnected' = [egressConnected EXCEPT ![tgt[s]] = @ /\ Served(s) # {}]
      BY <1>7 DEF FlagReaders
    <2>3. CASE u = tgt[s]
      <3>1. egressOpen[u] => pfan[s] = Fanout(u)
        BY <2>1, <2>3 DEF PumpFeedsReaders, Relaying, Fanout
      <3>2. egressConnected'[u] = (egressConnected[u] /\ Served(s) # {})
        BY <2>2, <2>3 DEF TypeOK
      <3> QED
        BY <2>1, <2>3, <3>1, <3>2 DEF Lit, Fanout, Served, ReaderShown
    <2>4. CASE u # tgt[s]
      BY <2>1, <2>2, <2>4 DEF Lit, Fanout, ReaderShown, TypeOK
    <2> QED
      BY <2>3, <2>4
  <1>8. ASSUME NEW s \in Streams, AddReader(s)
        PROVE  ReaderShown'
    <2> SUFFICES ASSUME NEW u \in Streams PROVE Lit(u)'
      BY DEF ReaderShown, Lit
    <2>1. CASE u = s
      BY <1>8, <2>1 DEF AddReader, AcceptorStep, Lit, TypeOK
    <2>2. CASE u # s
      BY <1>8, <2>2 DEF AddReader, AcceptorStep, TypeOK, ReaderShown, Lit, Fanout
    <2> QED
      BY <2>1, <2>2
  <1>9. ASSUME NEW s \in Streams, ShowReader(s)
        PROVE  ReaderShown'
    <2> SUFFICES ASSUME NEW u \in Streams PROVE Lit(u)'
      BY DEF ReaderShown, Lit
    <2>1. CASE u = s
      BY <1>9, <2>1 DEF ShowReader, Lit, TypeOK
    <2>2. CASE u # s
      BY <1>9, <2>2 DEF ShowReader, AcceptorStep, TypeOK, ReaderShown, Lit, Fanout
    <2> QED
      BY <2>1, <2>2
  <1> QED
    BY <1>1, <1>2, <1>3, <1>4, <1>5, <1>6, <1>7, <1>8, <1>9, ReaderSteps

\* For any number of streams: no reader stays unseen while every pump writes to
\* the fanout that readers of its target join.  A pump left with a fanout that
\* its target has replaced would look at the wrong readers (cross_pump).
THEOREM ReadersShown == Spec /\ []PumpFeedsReaders => []ReaderShown
  <1>1. Init => ReaderShown
    BY DEF Init, Untouched, ReaderShown
  <1>2. IInv /\ ReaderShown /\ PumpFeedsReaders /\ PumpFeedsReaders' /\ [Next]_vars
            => ReaderShown'
    BY NextReaders
  <1> QED
    BY <1>1, <1>2, Inductive, PTL DEF Spec

\* Every stream is pumped by one goroutine at a time.
OnePumpEach ==
    \A s, u \in Streams : pc[s] \in Relaying /\ pc[u] \in Relaying /\ tgt[s] = tgt[u] => s = u

\* A step that neither begins nor ends a relay leaves publishers as they are.
NoPublisherStep ==
    \A s \in Streams : /\ pc'[s] \in Relaying => pc[s] \in Relaying /\ tgt'[s] = tgt[s]
                       /\ ingressConnected'[s] = ingressConnected[s]

LEMMA PublisherSteps ==
    ASSUME TypeOK, [Next]_vars
    PROVE  NoPublisherStep \/ \E s \in Streams : StartRelay(s) \/ EndRelay(s)
  <1> USE DEF RunStep, inVars, pumpVars, outVars, readVars, shownVars, runVars,
              egressVars
  <1> DEFINE Other == \E s \in Streams : StartRelay(s) \/ EndRelay(s)
  <1>1. ASSUME UNCHANGED <<pc, tgt, ingressConnected>>
        PROVE  NoPublisherStep
    BY <1>1 DEF NoPublisherStep
  <1>2. ASSUME NEW s \in Streams, Prepare(s)
        PROVE  NoPublisherStep
    BY <1>2 DEF Prepare, CheckStop, ReadActive, Park, AnnounceWaiting,
       BindIngress, BindIngressFails, OpenEgress, OpenEgressFails, CloseIngress,
       SetState, NoPublisherStep, Relaying, TypeOK
  <1>3. ASSUME NEW s \in Streams, Accept(s)
        PROVE  NoPublisherStep
    BY <1>3 DEF Accept, LoopStopped, LoopNotStopped, LoopInactive, LoopActive,
       AcceptNothing, AcceptSender, RejectSender, RouteSender, CloseIngress,
       NoPublisherStep, Relaying, TypeOK
  <1>4. ASSUME NEW s \in Streams, Relay(s) \/ ReadData(s)
        PROVE  NoPublisherStep \/ Other
    BY <1>4 DEF Relay, PumpStopped, PumpTick, PumpDefault, ReadData, ReadFails,
       WriteReaders, FlagReaders, PumpStep, NoPublisherStep, Relaying, TypeOK
  <1>5. ASSUME NEW s \in Streams, CloseEgress(s)
        PROVE  NoPublisherStep
    <2>1. /\ \E to : pc' = [pc EXCEPT ![s] = to]
                 /\ to \in Closing \cup {after[s]}
          /\ UNCHANGED <<tgt, ingressConnected>>
      <3>1. CASE DetachEgress(s)
        BY <3>1 DEF DetachEgress, CloseStep, Closing
      <3>2. CASE CloseReaders(s)
        BY <3>2 DEF CloseReaders, CloseStep, Closing
      <3>3. CASE CloseEgressStop(s)
        BY <3>3 DEF CloseEgressStop, CloseStep, Closing
      <3>4. CASE CloseEgressListener(s)
        BY <3>4 DEF CloseEgressListener, CloseStep, Closing
      <3>5. CASE JoinAcceptor(s)
        BY <3>5 DEF JoinAcceptor, CloseStep
      <3> QED
        BY <1>5, <3>1, <3>2, <3>3, <3>4, <3>5 DEF CloseEgress
    <2>2. after[s] \in {"park", "top", "exited"}
      BY DEF TypeOK
    <2>3. pc \in [Streams -> Pcs]
      BY DEF TypeOK
    <2>4. PICK to : pc' = [pc EXCEPT ![s] = to] /\ to \in Closing \cup {after[s]}
      BY <2>1
    <2>5. to \notin Relaying
      BY <2>2, <2>4 DEF Closing, Relaying
    <2> QED
      BY <2>1, <2>3, <2>4, <2>5 DEF NoPublisherStep
  <1>6. ASSUME NEW s \in Streams, AcceptReaders(s) \/ Connections(s)
        PROVE  NoPublisherStep
    BY <1>1, <1>6 DEF AcceptReaders, AcceptorCheckStop, AcceptorReadActive,
       AcceptNoReader, AcceptReader, AddReader, ShowReader, AcceptorStep,
       Connections, SenderConnects, ReaderConnects, Dial
  <1>7. ASSUME NEW s \in Streams, AddStream(s)
        PROVE  NoPublisherStep
    BY <1>7 DEF AddStream, ActorStep, NoPublisherStep, Relaying, TypeOK
  <1>8. ASSUME NEW a \in Actors, NEW s \in Streams, Finish(a, s) \/ Request(a, s)
        PROVE  NoPublisherStep
    BY <1>1, <1>8 DEF Finish, Request, Announce, CloseStopCh, RemoveReturns,
       Flip, RemoveStream, ActorStep, SetState
  <1>9. ASSUME NEW p \in Peers, PeerLeaves(p)
        PROVE  NoPublisherStep
    BY <1>1, <1>9 DEF PeerLeaves
  <1>10. ASSUME UNCHANGED vars
         PROVE  NoPublisherStep
    BY <1>1, <1>10 DEF vars
  <1> HIDE DEF Other
  <1>11. ASSUME NEW s \in Streams,
                Run(s) \/ ReadData(s) \/ AcceptReaders(s) \/ AddStream(s) \/ Connections(s)
         PROVE  NoPublisherStep \/ Other
    BY <1>2, <1>3, <1>4, <1>5, <1>6, <1>7, <1>11 DEF Run
  <1>12. NoPublisherStep \/ Other
    BY <1>8, <1>9, <1>10, <1>11 DEF Next
  <1> QED
    BY <1>12 DEF Other

LEMMA NextPublishers ==
    ASSUME TypeOK, PublisherShown, OnePumpEach, [Next]_vars
    PROVE  PublisherShown'
  <1> USE DEF RunStep, inVars, pumpVars, outVars, runVars
  <1>1. CASE NoPublisherStep
    BY <1>1 DEF NoPublisherStep, PublisherShown, TypeOK
  <1>2. ASSUME NEW s \in Streams, StartRelay(s)
        PROVE  PublisherShown'
    <2>1. /\ pc' = [pc EXCEPT ![s] = "pump"] /\ tgt' = tgt
          /\ ingressConnected' = [ingressConnected EXCEPT ![tgt[s]] = TRUE]
      BY <1>2 DEF StartRelay, Show
    <2> QED
      BY <2>1 DEF PublisherShown, TypeOK
  <1>3. ASSUME NEW s \in Streams, EndRelay(s)
        PROVE  PublisherShown'
    <2>1. /\ pc[s] = "reset" /\ pc' = [pc EXCEPT ![s] = "loop"]
          /\ tgt' = [tgt EXCEPT ![s] = s]
          /\ ingressConnected' = [ingressConnected EXCEPT ![tgt[s]] = FALSE]
      BY <1>3 DEF EndRelay, Show
    <2> SUFFICES ASSUME NEW u \in Streams, pc'[u] \in Relaying
                 PROVE  ingressConnected'[tgt'[u]]
      BY DEF PublisherShown
    <2>2. u # s /\ pc[u] \in Relaying /\ tgt'[u] = tgt[u]
      BY <2>1 DEF Relaying, TypeOK
    <2>3. tgt[u] # tgt[s]
      BY <2>1, <2>2 DEF OnePumpEach, Relaying
    <2> QED
      BY <2>1, <2>2, <2>3 DEF PublisherShown, TypeOK
  <1> QED
    BY <1>1, <1>2, <1>3, PublisherSteps

\* For any number of streams: a publisher is shown for as long as it is pumped,
\* while no stream is pumped by two goroutines.  Of two publishers routed to
\* one stream the first to leave would turn the light off (publisher_shown).
THEOREM PublishersShown == Spec /\ []OnePumpEach => []PublisherShown
  <1>1. Init => PublisherShown
    BY DEF Init, Untouched, PublisherShown, Relaying
  <1>2. TypeOK /\ PublisherShown /\ OnePumpEach /\ [Next]_vars => PublisherShown'
    BY NextPublishers
  <1> QED
    BY <1>1, <1>2, TypeCorrect, PTL DEF Spec

\* For any number of streams: the publisher light goes off under a publisher only
\* when one of several pumps of the stream ends.
THEOREM PublishersKept == Spec => PublisherKept
  <1> DEFINE Keeps(t) == ingressConnected[t] /\ ~ingressConnected'[t] =>
                            Pumping(t)' = {} \/ \E s, u \in Pumping(t) : s # u
  <1> USE DEF RunStep, inVars, pumpVars, outVars, runVars
  <1>1. ASSUME TypeOK, [Next]_vars, NEW t \in Streams
        PROVE  Keeps(t)
    <2>1. CASE NoPublisherStep
      BY <2>1 DEF NoPublisherStep
    <2>2. ASSUME NEW s \in Streams, StartRelay(s)
          PROVE  Keeps(t)
      <3>1. ingressConnected' = [ingressConnected EXCEPT ![tgt[s]] = TRUE]
        BY <2>2 DEF StartRelay, Show
      <3> QED
        BY <1>1, <3>1 DEF TypeOK
    <2>3. ASSUME NEW s \in Streams, EndRelay(s)
          PROVE  Keeps(t)
      <3>1. /\ pc[s] = "reset" /\ pc' = [pc EXCEPT ![s] = "loop"]
            /\ tgt' = [tgt EXCEPT ![s] = s]
            /\ ingressConnected' = [ingressConnected EXCEPT ![tgt[s]] = FALSE]
        BY <2>3 DEF EndRelay, Show
      <3>2. CASE t # tgt[s]
        BY <1>1, <3>1, <3>2 DEF TypeOK
      <3>3. ASSUME t = tgt[s], NEW u \in Pumping(t)'
            PROVE  u \in Pumping(t) /\ s \in Pumping(t) /\ s # u
        BY <1>1, <3>1, <3>3 DEF Pumping, Relaying, TypeOK
      <3> QED
        BY <3>2, <3>3
    <2> QED
      BY <1>1, <2>1, <2>2, <2>3, PublisherSteps
  <1>2. TypeOK /\ [Next]_vars =>
          [\A t \in Streams : ingressConnected[t] /\ ~ingressConnected'[t] =>
              Pumping(t)' = {} \/ \E s, u \in Pumping(t) : s # u]_vars
    BY <1>1
  <1> QED
    BY <1>2, TypeCorrect, PTL DEF Spec, PublisherKept

\* Publishers connect to the port of the stream they name.
AtOwnPort == \A s \in Streams : pc[s] \in Relaying => tgt[s] = s

\* As long as publishers connect to the port of the stream they name, readers
\* and publishers are shown, for any number of streams: what goes wrong with
\* the lights needs a streamid that routes a publisher to another stream.
THEOREM OwnPortsShown == Spec /\ []AtOwnPort => [](ReaderShown /\ PublisherShown)
  <1>1. IInv /\ AtOwnPort => PumpFeedsReaders /\ OnePumpEach
    BY DEF IInv, PortsInv, OwnFanout, AtOwnPort, PumpFeedsReaders, OnePumpEach
  <1> QED
    BY <1>1, Inductive, ReadersShown, PublishersShown, PTL

\* A single stream has nobody else's publishers.
THEOREM OneStreamShown ==
    ASSUME \A s, t \in Streams : s = t
    PROVE  Spec => [](ReaderShown /\ PublisherShown)
  <1>1. TypeOK => AtOwnPort
    BY DEF TypeOK, AtOwnPort
  <1> QED
    BY <1>1, TypeCorrect, OwnPortsShown, PTL

\* No change of a schedule is announced while its stream is being pumped.
OnTime == \A s \in Streams : pc[s] \in Relaying => announcing[s] = {}

\* A step that leaves the state of every stream alone that is being pumped.
KeepsState == \A s \in Streams : pc[s] \in Relaying => state'[s] = state[s]

LEMMA StateSteps ==
    ASSUME TypeOK, OnTime, [Next]_vars
    PROVE  KeepsState \/ \E s \in Streams : StartRelay(s) \/ EndRelay(s)
  <1> DEFINE Other == \E s \in Streams : StartRelay(s) \/ EndRelay(s)
  <1>1. ASSUME UNCHANGED state
        PROVE  KeepsState
    BY <1>1 DEF KeepsState
  <1>2. ASSUME NEW s \in Streams, NEW st, SetState(s, st), pc[s] \notin Relaying
        PROVE  KeepsState
    BY <1>2 DEF SetState, KeepsState, TypeOK
  <1>3. ASSUME NEW s \in Streams, Prepare(s)
        PROVE  KeepsState
    <2>1. CASE Park(s)
      BY <1>2, <2>1 DEF Park, RunStep, Relaying
    <2>2. CASE AnnounceWaiting(s)
      BY <1>2, <2>2 DEF AnnounceWaiting, RunStep, Relaying
    <2>3. CASE ~Park(s) /\ ~AnnounceWaiting(s)
      BY <1>1, <1>3, <2>3 DEF Prepare, CheckStop, ReadActive, BindIngress,
         BindIngressFails, OpenEgress, OpenEgressFails, CloseIngress, shownVars
    <2> QED
      BY <2>1, <2>2, <2>3
  <1>4. ASSUME NEW s \in Streams, Accept(s) \/ CloseEgress(s)
        PROVE  KeepsState
    BY <1>1, <1>4 DEF Accept, LoopStopped, LoopNotStopped, LoopInactive,
       LoopActive, AcceptNothing, AcceptSender, RejectSender, RouteSender,
       CloseIngress, CloseEgress, DetachEgress, CloseReaders, CloseEgressStop,
       CloseEgressListener, JoinAcceptor, CloseStep, shownVars
  <1>5. ASSUME NEW s \in Streams, Relay(s) \/ ReadData(s)
        PROVE  KeepsState \/ Other
    BY <1>1, <1>5 DEF Relay, PumpStopped, PumpTick, PumpDefault, ReadData,
       ReadFails, WriteReaders, FlagReaders, PumpStep
  <1>6. ASSUME NEW s \in Streams, AcceptReaders(s) \/ Connections(s) \/ AddStream(s)
        PROVE  KeepsState
    BY <1>1, <1>6 DEF AcceptReaders, AcceptorCheckStop, AcceptorReadActive,
       AcceptNoReader, AcceptReader, AddReader, ShowReader, AcceptorStep,
       Connections, SenderConnects, ReaderConnects, Dial, AddStream, shownVars
  <1>7. ASSUME NEW a \in Actors, NEW s \in Streams, Finish(a, s) \/ Request(a, s)
        PROVE  KeepsState
    <2>1. CASE Announce(a, s)
      <3>1. a \in announcing[s] /\ SetState(s, "scheduled")
        BY <2>1 DEF Announce
      <3>2. pc[s] \notin Relaying
        BY <3>1 DEF OnTime
      <3> QED
        BY <1>2, <3>1, <3>2
    <2>2. CASE ~Announce(a, s)
      BY <1>1, <1>7, <2>2 DEF Finish, Request, CloseStopCh, RemoveReturns, Flip,
         RemoveStream, shownVars
    <2> QED
      BY <2>1, <2>2
  <1>8. ASSUME NEW p \in Peers, PeerLeaves(p)
        PROVE  KeepsState
    BY <1>1, <1>8 DEF PeerLeaves, shownVars
  <1>9. ASSUME UNCHANGED vars
        PROVE  KeepsState
    BY <1>1, <1>9 DEF vars, shownVars
  <1> HIDE DEF Other
  <1>10. KeepsState \/ Other
    BY <1>3, <1>4, <1>5, <1>6, <1>7, <1>8, <1>9 DEF Next, Run
  <1> QED
    BY <1>10 DEF Other

LEMMA NextRelays ==
    ASSUME TypeOK, OnTime, AtOwnPort, AtOwnPort', RelayingShown, [Next]_vars
    PROVE  RelayingShown'
  <1>1. ASSUME NEW s \in Streams, StartRelay(s)
        PROVE  RelayingShown'
    <2>1. /\ pc' = [pc EXCEPT ![s] = "pump"] /\ tgt' = tgt
          /\ state' = [state EXCEPT ![tgt[s]] = "relaying"]
      BY <1>1 DEF StartRelay, Show, RunStep, runVars, pumpVars
    <2> QED
      BY <2>1 DEF RelayingShown, TypeOK
  <1>2. ASSUME NEW s \in Streams, EndRelay(s)
        PROVE  RelayingShown'
    <2>1. /\ pc[s] = "reset" /\ pc' = [pc EXCEPT ![s] = "loop"]
          /\ tgt' = [tgt EXCEPT ![s] = s]
          /\ state' = [state EXCEPT ![tgt[s]] = "waiting"]
      BY <1>2 DEF EndRelay, Show, RunStep
    <2>2. tgt[s] = s
      BY <2>1 DEF AtOwnPort, Relaying
    <2> SUFFICES ASSUME NEW u \in Streams, pc'[u] \in Relaying
                 PROVE  state'[tgt'[u]] = "relaying"
      BY DEF RelayingShown
    <2>3. u # s /\ pc[u] \in Relaying /\ tgt'[u] = tgt[u]
      BY <2>1 DEF Relaying, TypeOK
    <2>4. tgt[u] = u
      BY <2>3 DEF AtOwnPort
    <2>5. state'[u] = state[u]
      BY <2>1, <2>2, <2>3 DEF TypeOK
    <2> QED
      BY <2>3, <2>4, <2>5 DEF RelayingShown
  <1>3. CASE ~\E s \in Streams : StartRelay(s) \/ EndRelay(s)
    <2>1. KeepsState /\ NoPublisherStep
      BY <1>3, StateSteps, PublisherSteps
    <2> QED
      BY <2>1 DEF KeepsState, NoPublisherStep, AtOwnPort, RelayingShown
  <1> QED
    BY <1>1, <1>2, <1>3

\* For any number of streams: what keeps a stream that is being pumped from
\* being shown as relaying is a schedule change announced meanwhile, or a
\* publisher routed there from another port (relaying_shown); nothing else.
THEOREM RelaysShown == Spec /\ []AtOwnPort /\ []OnTime => []RelayingShown
  <1>1. Init => RelayingShown
    BY DEF Init, Untouched, RelayingShown, Relaying
  <1>2. TypeOK /\ OnTime /\ AtOwnPort /\ AtOwnPort' /\ RelayingShown /\ [Next]_vars
            => RelayingShown'
    BY NextRelays
  <1> QED
    BY <1>1, <1>2, TypeCorrect, PTL DEF Spec

-----------------------------------------------------------------------------
(* How streams are told to stop *)

\* A stream that is not there yet is not told, and run() takes the way out
\* through closeEgress() only when it has been told.
Handshake ==
    /\ StopHandshake
    /\ \A s \in Streams :
         /\ pc[s] = "absent" =>
                /\ s \notin registered /\ s \notin replaced
                /\ closing[s] = {} /\ awaiting[s] = {} /\ ~stopCh[s]
         /\ pc[s] \in Closing /\ after[s] = "exited" => stopCh[s]

\* run() begins when AddStream() starts it, and ends only when it was told to.
RunsAsTold ==
    \A s \in Streams :
        /\ pc'[s] = "absent" <=> pc[s] = "absent"
        /\ pc'[s] = "exited" => pc[s] = "exited" \/ stopCh[s]
        /\ pc'[s] \in Closing /\ after'[s] = "exited" => stopCh[s]

LEMMA RunsAsToldKeeps ==
    ASSUME Handshake, RunsAsTold, UNCHANGED <<registered, replaced, stopCh, closing, awaiting>>
    PROVE  Handshake'
  BY DEF Handshake, StopHandshake, RunsAsTold

\* A step of the goroutine of s from where it is to somewhere else, which
\* returns, or takes the way out through closeEgress(), only when it was told.
Goes(s, to) ==
    /\ pc[s] # "absent" /\ to # "absent"
    /\ pc' = [pc EXCEPT ![s] = to]
    /\ \A u \in Streams \ {s} : after'[u] = after[u]
    /\ to = "exited" => stopCh[s]
    /\ to \in Closing /\ after'[s] = "exited" => stopCh[s]

LEMMA GoesAsTold ==
    ASSUME TypeOK, Handshake, NEW s \in Streams, NEW to, Goes(s, to)
    PROVE  RunsAsTold
  <1>1. pc'[s] = to /\ \A u \in Streams \ {s} : pc'[u] = pc[u]
    BY DEF TypeOK, Goes
  <1> SUFFICES ASSUME NEW u \in Streams
               PROVE  /\ pc'[u] = "absent" <=> pc[u] = "absent"
                      /\ pc'[u] = "exited" => pc[u] = "exited" \/ stopCh[u]
                      /\ pc'[u] \in Closing /\ after'[u] = "exited" => stopCh[u]
    BY DEF RunsAsTold
  <1>2. CASE u = s
    BY <1>1, <1>2 DEF Goes
  <1>3. CASE u # s
    BY <1>1, <1>3 DEF Goes, Handshake
  <1> QED
    BY <1>2, <1>3

LEMMA PrepareHandshake ==
    ASSUME TypeOK, NEW s \in Streams, Prepare(s)
    PROVE  \E to : Goes(s, to)
  <1>1. CASE CheckStop(s)
    <2>1. pc[s] = "top" /\ pc' = [pc EXCEPT ![s] = IF stopCh[s] THEN "exited" ELSE "sched"]
          /\ after' = after
      BY <1>1 DEF CheckStop, RunStep, runVars
    <2>2. CASE stopCh[s]
      <3>1. Goes(s, "exited")
        BY <2>1, <2>2 DEF Goes, Closing
      <3> QED
        BY <3>1
    <2>3. CASE ~stopCh[s]
      <3>1. Goes(s, "sched")
        BY <2>1, <2>3 DEF Goes, Closing
      <3> QED
        BY <3>1
    <2> QED
      BY <2>2, <2>3
  <1>2. CASE ReadActive(s)
    <2>1. pc[s] = "sched" /\ pc' = [pc EXCEPT ![s] = IF active[s] THEN "waiting" ELSE "detach"]
          /\ after' = [after EXCEPT ![s] = "park"]
      BY <1>2 DEF ReadActive, RunStep
    <2>2. after'[s] = "park" /\ \A u \in Streams \ {s} : after'[u] = after[u]
      BY <2>1 DEF TypeOK
    <2>3. CASE active[s]
      <3>1. Goes(s, "waiting")
        BY <2>1, <2>2, <2>3 DEF Goes, Closing
      <3> QED
        BY <3>1
    <2>4. CASE ~active[s]
      <3>1. Goes(s, "detach")
        BY <2>1, <2>2, <2>4 DEF Goes, Closing
      <3> QED
        BY <3>1
    <2> QED
      BY <2>3, <2>4
  <1>3. CASE ~CheckStop(s) /\ ~ReadActive(s)
    <2>1. /\ after' = after /\ pc[s] # "absent"
          /\ \E to \in {"top", "bind", "open", "loop"} : pc' = [pc EXCEPT ![s] = to]
      BY <1>3 DEF Prepare, Park, AnnounceWaiting, BindIngress,
         BindIngressFails, OpenEgress, OpenEgressFails, RunStep, runVars
    <2>2. PICK to \in {"top", "bind", "open", "loop"} : pc' = [pc EXCEPT ![s] = to]
      BY <2>1
    <2>3. Goes(s, to)
      BY <2>1, <2>2 DEF Goes, Closing
    <2> QED
      BY <2>3
  <1> QED
    BY <1>1, <1>2, <1>3

LEMMA AcceptHandshake ==
    ASSUME TypeOK, NEW s \in Streams, Accept(s)
    PROVE  \E to : Goes(s, to)
  <1>1. CASE LoopStopped(s)
    <2>1. /\ pc[s] = "loop" /\ pc' = [pc EXCEPT ![s] = "detach"]
          /\ after' = [after EXCEPT ![s] = "exited"] /\ stopCh[s]
      BY <1>1 DEF LoopStopped, RunStep
    <2>2. \A u \in Streams \ {s} : after'[u] = after[u]
      BY <2>1 DEF TypeOK
    <2>3. Goes(s, "detach")
      BY <2>1, <2>2 DEF Goes, Closing
    <2> QED
      BY <2>3
  <1>2. CASE LoopInactive(s)
    <2>1. /\ pc[s] = "gate" /\ pc' = [pc EXCEPT ![s] = "detach"]
          /\ after' = [after EXCEPT ![s] = "top"]
      BY <1>2 DEF LoopInactive, RunStep
    <2>2. after'[s] = "top" /\ \A u \in Streams \ {s} : after'[u] = after[u]
      BY <2>1 DEF TypeOK
    <2>3. Goes(s, "detach")
      BY <2>1, <2>2 DEF Goes, Closing
    <2> QED
      BY <2>3
  <1>3. CASE ~LoopStopped(s) /\ ~LoopInactive(s)
    <2>1. /\ after' = after /\ pc[s] # "absent"
          /\ \E to \in {"gate", "wait", "loop", "route", "start"} :
               pc' = [pc EXCEPT ![s] = to]
      BY <1>3 DEF Accept, LoopNotStopped, LoopActive, AcceptNothing,
         AcceptSender, RejectSender, RouteSender, RunStep, runVars
    <2>2. PICK to \in {"gate", "wait", "loop", "route", "start"} :
               pc' = [pc EXCEPT ![s] = to]
      BY <2>1
    <2>3. Goes(s, to)
      BY <2>1, <2>2 DEF Goes, Closing
    <2> QED
      BY <2>3
  <1> QED
    BY <1>1, <1>2, <1>3

LEMMA RelayHandshake ==
    ASSUME NEW s \in Streams, Relay(s) \/ ReadData(s)
    PROVE  \E to : Goes(s, to)
  <1>1. /\ after' = after /\ pc[s] # "absent"
        /\ \E to \in {"pump", "loop", "reset", "read", "write", "flag"} :
             pc' = [pc EXCEPT ![s] = to]
    BY DEF Relay, StartRelay, EndRelay, PumpStopped, PumpTick, PumpDefault,
       ReadData, ReadFails, WriteReaders, FlagReaders, PumpStep, RunStep, runVars
  <1>2. PICK to \in {"pump", "loop", "reset", "read", "write", "flag"} :
             pc' = [pc EXCEPT ![s] = to]
    BY <1>1
  <1>3. Goes(s, to)
    BY <1>1, <1>2 DEF Goes, Closing
  <1> QED
    BY <1>3

LEMMA CloseHandshake ==
    ASSUME TypeOK, Handshake, NEW s \in Streams, CloseEgress(s)
    PROVE  \E to : Goes(s, to)
  <1>1. after' = after /\ pc[s] \in Closing
    BY DEF CloseEgress, DetachEgress, CloseReaders, CloseEgressStop,
       CloseEgressListener, JoinAcceptor, CloseStep, RunStep, runVars, Closing
  <1>2. \E to \in {"closeAll", "closeStop", "closeListener", "join", after[s]} :
             pc' = [pc EXCEPT ![s] = to]
    BY DEF CloseEgress, DetachEgress, CloseReaders, CloseEgressStop,
       CloseEgressListener, JoinAcceptor, CloseStep, RunStep
  <1>3. PICK to \in {"closeAll", "closeStop", "closeListener", "join", after[s]} :
             pc' = [pc EXCEPT ![s] = to]
    BY <1>2
  <1>4. after[s] = "exited" => stopCh[s]
    BY <1>1 DEF Handshake
  <1>5. after[s] \in {"park", "top", "exited"}
    BY DEF TypeOK
  <1>6. pc[s] # "absent"
    BY <1>1 DEF Closing
  <1>7. to # "absent" /\ (to = "exited" => stopCh[s])
    BY <1>4, <1>5
  <1>8. Goes(s, to)
    BY <1>1, <1>3, <1>4, <1>6, <1>7 DEF Goes
  <1> QED
    BY <1>8

LEMMA RunHandshake ==
    ASSUME TypeOK, Handshake, NEW s \in Streams, Run(s) \/ ReadData(s)
    PROVE  Handshake'
  <1>1. UNCHANGED <<registered, replaced, stopCh, closing, awaiting>>
    <2>1. CASE Prepare(s) \/ CloseEgress(s)
      BY <2>1 DEF Prepare, CloseEgress, CheckStop, ReadActive, Park,
         AnnounceWaiting, BindIngress, BindIngressFails, OpenEgress,
         OpenEgressFails, DetachEgress, CloseReaders, CloseEgressStop,
         CloseEgressListener, JoinAcceptor, CloseStep, RunStep, registryVars,
         actorVars
    <2>2. CASE Accept(s)
      BY <2>2 DEF Accept, LoopStopped, LoopNotStopped, LoopInactive, LoopActive,
         AcceptNothing, AcceptSender, RejectSender, RouteSender, RunStep,
         registryVars, actorVars
    <2>3. CASE Relay(s) \/ ReadData(s)
      BY <2>3 DEF Relay, StartRelay, EndRelay, PumpStopped, PumpTick,
         PumpDefault, ReadData, ReadFails, WriteReaders, FlagReaders, PumpStep,
         RunStep, registryVars, actorVars
    <2> QED
      BY <2>1, <2>2, <2>3 DEF Run
  <1>2. \E to : Goes(s, to)
    BY PrepareHandshake, AcceptHandshake, RelayHandshake, CloseHandshake DEF Run
  <1> QED
    BY <1>1, <1>2, GoesAsTold, RunsAsToldKeeps

LEMMA ActorHandshake ==
    ASSUME TypeOK, Handshake, NEW a \in Actors, NEW s \in Streams,
           Finish(a, s) \/ Request(a, s)
    PROVE  Handshake'
  <1>1. after' = after /\ pc' = pc
    BY DEF Finish, Request, Announce, CloseStopCh, RemoveReturns, Flip,
       RemoveStream, ActorStep, runVars
  <1>2. CASE Announce(a, s) \/ Flip(a, s)
    <2>1. UNCHANGED <<registered, replaced, stopCh, closing, awaiting>>
      BY <1>2 DEF Announce, Flip, registryVars
    <2>2. RunsAsTold
      BY <1>1 DEF RunsAsTold, Handshake
    <2> QED
      BY <2>1, <2>2, RunsAsToldKeeps
  <1>3. CASE CloseStopCh(a, s)
    <2>1. /\ closing' = [closing EXCEPT ![s] = @ \ {a}] /\ a \in closing[s]
          /\ stopCh' = [stopCh EXCEPT ![s] = TRUE]
          /\ registered' = registered /\ replaced' = replaced
          /\ awaiting' = [awaiting EXCEPT ![s] = @ \cup {a}]
      BY <1>3 DEF CloseStopCh
    <2>2. /\ \A u \in Streams \ {s} : /\ closing'[u] = closing[u]
                                      /\ stopCh'[u] = stopCh[u]
                                      /\ awaiting'[u] = awaiting[u]
          /\ stopCh'[s] = TRUE
          /\ closing'[s] = closing[s] \ {a}
      BY <2>1 DEF TypeOK
    <2>3. pc[s] # "absent" /\ s \notin registered /\ ~stopCh[s]
      BY <2>1 DEF Handshake, StopHandshake
    <2>4. closing'[s] = {}
      BY <2>1, <2>2, <2>3 DEF Handshake, StopHandshake
    <2> QED
      BY <1>1, <2>1, <2>2, <2>3, <2>4 DEF Handshake, StopHandshake
  <1>4. CASE RemoveReturns(a, s)
    <2>1. /\ UNCHANGED <<registered, replaced, stopCh, closing>>
          /\ awaiting' = [awaiting EXCEPT ![s] = @ \ {a}]
      BY <1>4 DEF RemoveReturns, registryVars
    <2>2. \A u \in Streams : awaiting'[u] \subseteq awaiting[u]
      BY <2>1 DEF TypeOK
    <2> QED
      BY <1>1, <2>1, <2>2 DEF Handshake, StopHandshake
  <1>5. CASE RemoveStream(a, s)
    <2>1. /\ s \in registered /\ registered' = registered \ {s}
          /\ closing' = [closing EXCEPT ![s] = @ \cup {a}]
          /\ UNCHANGED <<replaced, stopCh, awaiting>>
      BY <1>5 DEF RemoveStream
    <2>2. pc[s] # "absent" /\ closing[s] = {} /\ ~stopCh[s]
      BY <2>1 DEF Handshake, StopHandshake
    <2>3. closing'[s] = {a} /\ \A u \in Streams \ {s} : closing'[u] = closing[u]
      BY <2>1, <2>2 DEF TypeOK
    <2> QED
      BY <1>1, <2>1, <2>2, <2>3 DEF Handshake, StopHandshake
  <1> QED
    BY <1>2, <1>3, <1>4, <1>5 DEF Finish, Request

LEMMA NextHandshake == TypeOK /\ Handshake /\ [Next]_vars => Handshake'
  <1> SUFFICES ASSUME TypeOK, Handshake, [Next]_vars
               PROVE  Handshake'
    OBVIOUS
  <1>1. ASSUME UNCHANGED <<registered, replaced, stopCh, closing, awaiting, pc, after>>
        PROVE  Handshake'
    BY <1>1 DEF Handshake, StopHandshake
  <1>2. ASSUME NEW s \in Streams, AcceptReaders(s) \/ Connections(s)
        PROVE  Handshake'
    BY <1>1, <1>2 DEF AcceptReaders, AcceptorCheckStop, AcceptorReadActive,
       AcceptNoReader, AcceptReader, AddReader, ShowReader, AcceptorStep,
       Connections, SenderConnects, ReaderConnects, Dial, runVars, registryVars,
       actorVars
  <1>3. ASSUME NEW s \in Streams, AddStream(s)
        PROVE  Handshake'
    <2>1. /\ pc[s] = "absent" /\ pc' = [pc EXCEPT ![s] = "top"]
          /\ UNCHANGED <<after, stopCh, closing, awaiting>>
      BY <1>3 DEF AddStream, ActorStep, runVars, actorVars
    <2>2. PICK old \in {{}} \cup {{t} : t \in registered} :
              registered' = (registered \ old) \cup {s} /\ replaced' = replaced \cup old
      BY <1>3 DEF AddStream
    <2>3. pc'[s] = "top" /\ \A u \in Streams \ {s} : pc'[u] = pc[u]
      BY <2>1 DEF TypeOK
    <2>4. old \subseteq registered /\ s \notin old
      BY <2>1, <2>2 DEF Handshake
    <2>5. \A u \in old : ~stopCh[u] /\ closing[u] = {} /\ awaiting[u] = {} /\ pc[u] # "exited"
      BY <2>4 DEF Handshake, StopHandshake, TypeOK
    <2> QED
      BY <2>1, <2>2, <2>3, <2>4, <2>5 DEF Handshake, StopHandshake, Closing
  <1>4. ASSUME NEW p \in Peers, PeerLeaves(p)
        PROVE  Handshake'
    BY <1>1, <1>4 DEF PeerLeaves, runVars, registryVars, actorVars
  <1>5. CASE UNCHANGED vars
    BY <1>1, <1>5 DEF vars, runVars, registryVars, actorVars
  <1>6. ASSUME NEW s \in Streams, Run(s) \/ ReadData(s)
        PROVE  Handshake'
    BY <1>6, RunHandshake
  <1>7. ASSUME NEW a \in Actors, NEW s \in Streams, Finish(a, s) \/ Request(a, s)
        PROVE  Handshake'
    BY <1>7, ActorHandshake
  <1> QED
    BY <1>2, <1>3, <1>4, <1>5, <1>6, <1>7 DEF Next

\* close(stopCh) is called at most once, by the one RemoveStream() that took the
\* stream out of the map; a stream that is not in the map is told, or about to be,
\* or AddStream() has given its id to another one, and then it is never told.
THEOREM ToldOnce == Spec => []StopHandshake
  <1>1. Init => Handshake
    BY DEF Init, Untouched, Handshake, StopHandshake, Closing
  <1>2. Handshake => StopHandshake
    BY DEF Handshake
  <1> QED
    BY <1>1, <1>2, NextHandshake, TypeCorrect, PTL DEF Spec

Exited(s) == pc[s] = "exited"

\* No port, publisher socket or goroutine of the stream is left, and no reader that
\* waits for it.  A reader in a fanout may be left: NoReaderLeft is refuted.
Freed(s) ==
    /\ ~inOpen[s] /\ inQueue[s] = {} /\ inSock[s] = {}
    /\ ~outOpen[s] /\ outQueue[s] = {}
    /\ ~egressOpen[s] /\ rd[s] = "off" /\ conn[s] = {}

\* No reader joins a fanout of the stream.
NobodyJoins(s) == \A g \in 1..Fanout(s) : socks'[s][g] \subseteq socks[s][g]

LEMMA ExitedStays ==
    ASSUME TypeOK, [Next]_vars, NEW s \in Streams, Exited(s)
    PROVE  Exited(s)'
  <1> USE DEF RunStep, Exited
  <1>1. ASSUME UNCHANGED pc
        PROVE  pc'[s] = "exited"
    BY <1>1
  <1>2. ASSUME NEW u \in Streams, Run(u) \/ ReadData(u) \/ AddStream(u)
        PROVE  pc'[s] = "exited"
    <2>1. pc[u] # "exited" /\ \E to : pc' = [pc EXCEPT ![u] = to]
      BY <1>2 DEF Run, Prepare, Accept, Relay, CloseEgress, CheckStop, ReadActive,
         Park, AnnounceWaiting, BindIngress, BindIngressFails, OpenEgress,
         OpenEgressFails, LoopStopped, LoopNotStopped, LoopInactive, LoopActive,
         AcceptNothing, AcceptSender, RejectSender, RouteSender, StartRelay,
         EndRelay, PumpStopped, PumpTick, PumpDefault, ReadData, ReadFails,
         WriteReaders, FlagReaders, PumpStep, DetachEgress, CloseReaders,
         CloseEgressStop, CloseEgressListener, JoinAcceptor, CloseStep, AddStream
    <2>2. pc \in [Streams -> Pcs] /\ u # s
      BY <2>1 DEF TypeOK
    <2> QED
      BY <2>1, <2>2
  <1>3. ASSUME NEW u \in Streams, AcceptReaders(u) \/ Connections(u)
        PROVE  pc'[s] = "exited"
    BY <1>1, <1>3 DEF AcceptReaders, AcceptorCheckStop, AcceptorReadActive,
       AcceptNoReader, AcceptReader, AddReader, ShowReader, AcceptorStep,
       Connections, SenderConnects, ReaderConnects, Dial
  <1>4. ASSUME NEW a \in Actors, NEW u \in Streams, Finish(a, u) \/ Request(a, u)
        PROVE  pc'[s] = "exited"
    BY <1>1, <1>4 DEF Finish, Request, Announce, CloseStopCh, RemoveReturns, Flip,
       RemoveStream
  <1>5. ASSUME NEW p \in Peers, PeerLeaves(p)
        PROVE  pc'[s] = "exited"
    BY <1>1, <1>5 DEF PeerLeaves
  <1>6. CASE UNCHANGED vars
    BY <1>1, <1>6 DEF vars
  <1> QED
    BY <1>2, <1>3, <1>4, <1>5, <1>6 DEF Next

\* What RemoveStream() waits for is worth waiting for: when run() has returned
\* the stream holds no port and no goroutine, and never will again, and no reader
\* joins it any more.  (One that acceptReaders() added while closeEgress() was
\* under way stays in its fanout.)
THEOREM ExitedForGood ==
    ASSUME NEW s \in Streams
    PROVE  Spec => [](Exited(s) => []Freed(s) /\ [][NobodyJoins(s)]_vars)
  <1>1. QuietHoldsNothing => (Exited(s) => Freed(s))
    BY DEF QuietHoldsNothing, Exited, Freed, Quiet
  <1>2. TypeOK /\ [Next]_vars /\ Exited(s) => Exited(s)'
    BY ExitedStays
  <1>3. Exited(s) /\ [Sealed]_vars => [NobodyJoins(s)]_vars
    BY DEF Exited, Sealed, NobodyJoins, Quiet
  <1> QED
    BY <1>1, <1>2, <1>3, NothingOutlivesItsStream, FanoutsSealed, TypeCorrect, PTL
    DEF Spec, QuietFanoutsAreSealed

-----------------------------------------------------------------------------
(* Where the readers are *)

LEMMA HomesDef ==
    ASSUME NEW r, NEW h
    PROVE  h \in Homes(r) <=>
             \E s \in Streams :
               \/ h = <<"queue", s, 0>> /\ r \in outQueue[s]
               \/ h = <<"conn", s, 0>> /\ r \in conn[s]
               \/ \E g \in 1..Fanout(s) : h = <<"fanout", s, g>> /\ r \in socks[s][g]
  BY DEF Homes

LEMMA HomesDefNext ==
    ASSUME NEW r, NEW h
    PROVE  h \in Homes(r)' <=>
             \E s \in Streams :
               \/ h = <<"queue", s, 0>> /\ r \in outQueue'[s]
               \/ h = <<"conn", s, 0>> /\ r \in conn'[s]
               \/ \E g \in 1..Fanout(s)' : h = <<"fanout", s, g>> /\ r \in socks'[s][g]
  BY DEF Homes

\* A reader that has a socket somewhere has dialled.
OneHome ==
    /\ ReaderHasOneHome
    /\ \A r \in Readers : Homes(r) # {} => r \in dialled

\* The step puts no socket of r where none was.
Kept(r) ==
    \A s \in Streams :
        /\ r \in outQueue'[s] => r \in outQueue[s]
        /\ r \in conn'[s] => r \in conn[s]
        /\ \A g \in 1..Fanout(s)' :
             r \in socks'[s][g] => g \in 1..Fanout(s) /\ r \in socks[s][g]

\* ... or leaves it in one place only.
Moved(r) == r \in dialled' /\ \E h : Homes(r)' \subseteq {h}

LEMMA OneHomeKept ==
    ASSUME OneHome, dialled \subseteq dialled',
           \A r \in Readers : Kept(r) \/ Moved(r)
    PROVE  OneHome'
  <1>1. ASSUME NEW r \in Readers, Kept(r)
        PROVE  Homes(r)' \subseteq Homes(r)
    BY <1>1, HomesDef, HomesDefNext DEF Kept
  <1>2. ASSUME NEW r \in Readers
        PROVE  /\ \A h1, h2 \in Homes(r)' : h1 = h2
               /\ Homes(r)' # {} => r \in dialled'
    <2>1. CASE Kept(r)
      BY <1>1, <2>1 DEF OneHome, ReaderHasOneHome
    <2>2. CASE Moved(r)
      BY <2>2 DEF Moved
    <2> QED
      BY <2>1, <2>2
  <1> QED
    BY <1>2 DEF OneHome, ReaderHasOneHome

LEMMA SameHomes ==
    ASSUME OneHome, UNCHANGED <<outQueue, conn, socks>>, dialled \subseteq dialled'
    PROVE  OneHome'
  <1>1. \A r \in Readers : Kept(r)
    BY DEF Kept, Fanout
  <1> QED
    BY <1>1, OneHomeKept

\* run() only takes readers away.
LEMMA RunHomes ==
    ASSUME TypeOK, OneHome, NEW s \in Streams, Run(s) \/ ReadData(s)
    PROVE  OneHome'
  <1>1. dialled' = dialled /\ conn' = conn
    <2>1. CASE Prepare(s) \/ CloseEgress(s)
      BY <2>1 DEF Prepare, CloseEgress, CheckStop, ReadActive, Park,
         AnnounceWaiting, BindIngress, BindIngressFails, OpenEgress,
         OpenEgressFails, DetachEgress, CloseReaders, CloseEgressStop,
         CloseEgressListener, JoinAcceptor, CloseStep, RunStep, peerVars
    <2>2. CASE Accept(s)
      BY <2>2 DEF Accept, LoopStopped, LoopNotStopped, LoopInactive, LoopActive,
         AcceptNothing, AcceptSender, RejectSender, RouteSender, RunStep, peerVars
    <2>3. CASE Relay(s) \/ ReadData(s)
      BY <2>3 DEF Relay, StartRelay, EndRelay, PumpStopped, PumpTick,
         PumpDefault, ReadData, ReadFails, WriteReaders, FlagReaders, PumpStep,
         RunStep, peerVars
    <2> QED
      BY <2>1, <2>2, <2>3 DEF Run
  <1>2. CASE OpenEgress(s)
    <2>1. outQueue' = outQueue /\ socks' = [socks EXCEPT ![s] = Append(@, {})]
      BY <1>2 DEF OpenEgress
    <2>2. socks \in [Streams -> Seq(SUBSET Readers)]
      BY DEF TypeOK
    <2>3. /\ \A u \in Streams \ {s} : socks'[u] = socks[u]
          /\ socks'[s] = Append(socks[s], {})
      BY <2>1, <2>2
    <2>4. socks[s] \in Seq(SUBSET Readers) /\ {} \in SUBSET Readers
      BY <2>2
    <2>5. /\ Len(socks'[s]) = Len(socks[s]) + 1 /\ Len(socks[s]) \in Nat
          /\ socks'[s][Len(socks[s]) + 1] = {}
          /\ \A g \in 1..Len(socks[s]) : socks'[s][g] = socks[s][g]
      BY <2>3, <2>4, AppendProperties
    <2>6. \A r, g : g \in 1..Len(socks'[s]) /\ r \in socks'[s][g]
                      => g \in 1..Len(socks[s]) /\ r \in socks[s][g]
      BY <2>5
    <2>7. \A r \in Readers : Kept(r)
      BY <1>1, <2>1, <2>3, <2>6 DEF Kept, Fanout
    <2> QED
      BY <1>1, <2>7, OneHomeKept
  <1>3. CASE WriteReaders(s)
    <2> DEFINE t == tgt[s]
               g == pfan[s]
    <2>1. outQueue' = outQueue /\ socks' = [socks EXCEPT ![t][g] = @ \ gone]
      BY <1>3 DEF WriteReaders, PumpStep
    <2>2. socks \in [Streams -> Seq(SUBSET Readers)] /\ t \in Streams
      BY DEF TypeOK
    <2> HIDE DEF t, g
    <2>3. /\ \A u \in Streams \ {t} : socks'[u] = socks[u]
          /\ socks'[t] = [socks[t] EXCEPT ![g] = socks[t][g] \ gone]
      BY <2>1, <2>2
    <2>4. DOMAIN socks'[t] = DOMAIN socks[t] /\ Len(socks'[t]) = Len(socks[t])
      BY <2>2, <2>3, ReplaceFanout
    <2>5. \A i \in 1..Len(socks[t]) : socks'[t][i] \subseteq socks[t][i]
      BY <2>2, <2>3
    <2>6. \A r \in Readers : Kept(r)
      BY <1>1, <2>1, <2>3, <2>4, <2>5 DEF Kept, Fanout
    <2> QED
      BY <1>1, <2>6, OneHomeKept
  <1>4. CASE CloseReaders(s)
    <2> DEFINE g == Fanout(s)
    <2>1. outQueue' = outQueue /\ socks' = [socks EXCEPT ![s][g] = {}]
      BY <1>4 DEF CloseReaders
    <2>2. socks \in [Streams -> Seq(SUBSET Readers)]
      BY DEF TypeOK
    <2> HIDE DEF g
    <2>3. /\ \A u \in Streams \ {s} : socks'[u] = socks[u]
          /\ socks'[s] = [socks[s] EXCEPT ![g] = {}]
      BY <2>1, <2>2
    <2>4. Len(socks'[s]) = Len(socks[s])
      BY <2>2, <2>3, ReplaceFanout
    <2>5. \A i \in 1..Len(socks[s]) : socks'[s][i] \subseteq socks[s][i]
      BY <2>2, <2>3
    <2>6. \A r \in Readers : Kept(r)
      BY <1>1, <2>1, <2>3, <2>4, <2>5 DEF Kept, Fanout
    <2> QED
      BY <1>1, <2>6, OneHomeKept
  <1>5. CASE CloseEgressListener(s)
    <2>1. socks' = socks /\ outQueue' = [outQueue EXCEPT ![s] = {}]
      BY <1>5 DEF CloseEgressListener
    <2>2. \A u \in Streams : outQueue'[u] \subseteq outQueue[u]
      BY <2>1 DEF TypeOK
    <2>3. \A r \in Readers : Kept(r)
      BY <1>1, <2>1, <2>2 DEF Kept, Fanout
    <2> QED
      BY <1>1, <2>3, OneHomeKept
  <1>6. CASE ~(\/ OpenEgress(s) \/ WriteReaders(s) \/ CloseReaders(s)
               \/ CloseEgressListener(s))
    <2>1. outQueue' = outQueue /\ socks' = socks
      <3>1. CASE Prepare(s) \/ CloseEgress(s)
        BY <1>6, <3>1 DEF Prepare, CloseEgress, CheckStop, ReadActive, Park,
           AnnounceWaiting, BindIngress, BindIngressFails, OpenEgressFails,
           CloseIngress, DetachEgress, CloseEgressStop, JoinAcceptor, outVars
      <3>2. CASE Accept(s)
        BY <3>2 DEF Accept, LoopStopped, LoopNotStopped, LoopInactive, LoopActive,
           AcceptNothing, AcceptSender, RejectSender, RouteSender, CloseIngress,
           outVars
      <3>3. CASE Relay(s) \/ ReadData(s)
        BY <1>6, <3>3 DEF Relay, StartRelay, EndRelay, PumpStopped, PumpTick,
           PumpDefault, ReadData, ReadFails, FlagReaders, PumpStep, Show, outVars
      <3> QED
        BY <3>1, <3>2, <3>3 DEF Run
    <2> QED
      BY <1>1, <2>1, SameHomes
  <1> QED
    BY <1>2, <1>3, <1>4, <1>5, <1>6

\* acceptReaders() moves one from the backlog into the fanout.
LEMMA AcceptorHomes ==
    ASSUME TypeOK, OneHome, NEW s \in Streams, AcceptReaders(s)
    PROVE  OneHome'
  <1>1. dialled' = dialled
    BY DEF AcceptReaders, AcceptorCheckStop, AcceptorReadActive, AcceptNoReader,
       AcceptReader, AddReader, ShowReader, AcceptorStep, peerVars
  <1>2. CASE AcceptReader(s)
    <2>1. socks' = socks /\ \E r \in outQueue[s] :
             /\ outQueue' = [outQueue EXCEPT ![s] = @ \ {r}]
             /\ conn' = [conn EXCEPT ![s] = {r}]
      BY <1>2 DEF AcceptReader
    <2>2. PICK r \in outQueue[s] : /\ outQueue' = [outQueue EXCEPT ![s] = @ \ {r}]
                                   /\ conn' = [conn EXCEPT ![s] = {r}]
      BY <2>1
    <2>3. /\ \A u \in Streams \ {s} : outQueue'[u] = outQueue[u] /\ conn'[u] = conn[u]
          /\ outQueue'[s] = outQueue[s] \ {r} /\ conn'[s] = {r}
          /\ r \in Readers
      BY <2>2 DEF TypeOK
    <2>4. \A q \in Readers \ {r} : Kept(q)
      BY <2>1, <2>3 DEF Kept, Fanout
    <2>5. <<"queue", s, 0>> \in Homes(r)
      BY <2>2, HomesDef
    <2>6. \A h \in Homes(r) : h = <<"queue", s, 0>>
      BY <2>3, <2>5 DEF OneHome, ReaderHasOneHome
    <2>7. ASSUME NEW h \in Homes(r)'
          PROVE  h = <<"conn", s, 0>>
      <3>1. PICK u \in Streams :
               \/ h = <<"queue", u, 0>> /\ r \in outQueue'[u]
               \/ h = <<"conn", u, 0>> /\ r \in conn'[u]
               \/ \E g \in 1..Fanout(u)' : h = <<"fanout", u, g>> /\ r \in socks'[u][g]
        BY <2>7, HomesDefNext
      <3>2. CASE h = <<"queue", u, 0>> /\ r \in outQueue'[u]
        <4>1. u # s /\ r \in outQueue[u]
          BY <2>3, <3>2
        <4>2. h \in Homes(r)
          BY <3>2, <4>1, HomesDef
        <4> QED
          BY <2>6, <3>2, <4>1, <4>2
      <3>3. CASE h = <<"conn", u, 0>> /\ r \in conn'[u]
        <4>1. CASE u = s
          BY <3>3, <4>1
        <4>2. CASE u # s
          <5>1. h \in Homes(r)
            BY <2>3, <3>3, <4>2, HomesDef
          <5> QED
            BY <2>6, <3>3, <5>1
        <4> QED
          BY <4>1, <4>2
      <3>4. CASE \E g \in 1..Fanout(u)' : h = <<"fanout", u, g>> /\ r \in socks'[u][g]
        <4>1. h \in Homes(r)
          BY <2>1, <3>4, HomesDef DEF Fanout
        <4> QED
          BY <2>6, <3>4, <4>1
      <3> QED
        BY <3>1, <3>2, <3>3, <3>4
    <2>8. r \in dialled
      BY <2>3, <2>5 DEF OneHome
    <2>9. Moved(r)
      BY <1>1, <2>7, <2>8 DEF Moved
    <2> QED
      BY <1>1, <2>4, <2>9, OneHomeKept
  <1>3. CASE AddReader(s)
    <2> DEFINE f == Fanout(s)
    <2>1. /\ outQueue' = outQueue /\ conn' = [conn EXCEPT ![s] = {}]
          /\ socks' = [socks EXCEPT ![s][f] = @ \cup conn[s]]
      BY <1>3 DEF AddReader
    <2>2. socks \in [Streams -> Seq(SUBSET Readers)] /\ conn \in [Streams -> SUBSET Readers]
      BY DEF TypeOK
    <2> HIDE DEF f
    <2>3. /\ \A u \in Streams \ {s} : socks'[u] = socks[u] /\ conn'[u] = conn[u]
          /\ socks'[s] = [socks[s] EXCEPT ![f] = socks[s][f] \cup conn[s]]
          /\ conn'[s] = {}
      BY <2>1, <2>2
    <2>4. f \in DOMAIN socks[s] => socks[s][f] \cup conn[s] \in SUBSET Readers
      BY <2>2
    <2>5. Len(socks'[s]) = Len(socks[s])
      BY <2>2, <2>3, <2>4, ReplaceFanout
    <2>6. \A i \in 1..Len(socks[s]) :
             socks'[s][i] = IF i = f THEN socks[s][i] \cup conn[s] ELSE socks[s][i]
      <3>1. DOMAIN socks[s] = 1..Len(socks[s])
        BY <2>2
      <3> QED
        BY <2>3, <3>1
    <2>7. \A q \in Readers \ conn[s] : Kept(q)
      BY <2>1, <2>3, <2>5, <2>6 DEF Kept, Fanout
    <2>8. ASSUME NEW r \in conn[s]
          PROVE  Moved(r)
      <3>1. <<"conn", s, 0>> \in Homes(r)
        BY HomesDef
      <3>2. r \in Readers
        BY <2>2
      <3>3. \A h \in Homes(r) : h = <<"conn", s, 0>>
        BY <3>1, <3>2 DEF OneHome, ReaderHasOneHome
      <3>4. ASSUME NEW h \in Homes(r)'
            PROVE  h = <<"fanout", s, f>>
        <4>1. PICK u \in Streams :
                 \/ h = <<"queue", u, 0>> /\ r \in outQueue'[u]
                 \/ h = <<"conn", u, 0>> /\ r \in conn'[u]
                 \/ \E g \in 1..Fanout(u)' : h = <<"fanout", u, g>> /\ r \in socks'[u][g]
          BY <3>4, HomesDefNext
        <4>2. CASE h = <<"queue", u, 0>> /\ r \in outQueue'[u]
          <5>1. h \in Homes(r)
            BY <2>1, <4>2, HomesDef
          <5> QED
            BY <3>3, <4>2, <5>1
        <4>3. CASE h = <<"conn", u, 0>> /\ r \in conn'[u]
          <5>1. u # s /\ r \in conn[u]
            BY <2>3, <4>3
          <5>2. h \in Homes(r)
            BY <4>3, <5>1, HomesDef
          <5> QED
            BY <3>3, <4>3, <5>1, <5>2
        <4>4. CASE \E g \in 1..Fanout(u)' : h = <<"fanout", u, g>> /\ r \in socks'[u][g]
          <5>1. PICK g \in 1..Fanout(u)' : h = <<"fanout", u, g>> /\ r \in socks'[u][g]
            BY <4>4
          <5>2. g \in 1..Fanout(u)
            BY <2>3, <2>5 DEF Fanout
          <5>3. CASE u = s /\ g = f
            BY <5>1, <5>3
          <5>4. CASE ~(u = s /\ g = f)
            <6>1. r \in socks[u][g]
              BY <2>3, <2>6, <5>1, <5>2, <5>4 DEF Fanout
            <6>2. h \in Homes(r)
              BY <5>1, <5>2, <6>1, HomesDef
            <6> QED
              BY <3>3, <5>1, <6>2
          <5> QED
            BY <5>3, <5>4
        <4> QED
          BY <4>1, <4>2, <4>3, <4>4
      <3>5. r \in dialled
        BY <3>1, <3>2 DEF OneHome
      <3> QED
        BY <1>1, <3>4, <3>5 DEF Moved
    <2> QED
      BY <1>1, <2>7, <2>8, OneHomeKept
  <1>4. CASE ~AcceptReader(s) /\ ~AddReader(s)
    <2>1. UNCHANGED <<outQueue, conn, socks>>
      BY <1>4 DEF AcceptReaders, AcceptorCheckStop, AcceptorReadActive,
         AcceptNoReader, ShowReader
    <2> QED
      BY <1>1, <2>1, SameHomes
  <1> QED
    BY <1>2, <1>3, <1>4

\* Only a reader that has not dialled yet comes from nowhere.
LEMMA ConnectHomes ==
    ASSUME TypeOK, OneHome, NEW s \in Streams, NEW r \in Readers, ReaderConnects(r, s)
    PROVE  OneHome'
  <1>1. /\ r \notin dialled /\ dialled' = dialled \cup {r}
        /\ UNCHANGED <<conn, socks>>
        /\ outQueue' = [outQueue EXCEPT ![s] = @ \cup {r}]
    BY DEF ReaderConnects, Dial, readVars
  <1>2. /\ \A u \in Streams \ {s} : outQueue'[u] = outQueue[u]
        /\ outQueue'[s] = outQueue[s] \cup {r}
    BY <1>1 DEF TypeOK
  <1>3. \A q \in Readers \ {r} : Kept(q)
    BY <1>1, <1>2 DEF Kept, Fanout
  <1>4. Homes(r) = {}
    BY <1>1 DEF OneHome
  <1>5. ASSUME NEW h \in Homes(r)'
        PROVE  h = <<"queue", s, 0>>
    <2>1. PICK u \in Streams :
             \/ h = <<"queue", u, 0>> /\ r \in outQueue'[u]
             \/ h = <<"conn", u, 0>> /\ r \in conn'[u]
             \/ \E g \in 1..Fanout(u)' : h = <<"fanout", u, g>> /\ r \in socks'[u][g]
      BY <1>5, HomesDefNext
    <2>2. CASE u = s /\ h = <<"queue", u, 0>>
      BY <2>2
    <2>3. CASE ~(u = s /\ h = <<"queue", u, 0>>)
      <3>1. h \in Homes(r)
        BY <1>1, <1>2, <2>1, <2>3, HomesDef DEF Fanout
      <3> QED
        BY <1>4, <3>1
    <2> QED
      BY <2>2, <2>3
  <1>6. Moved(r)
    BY <1>1, <1>5 DEF Moved
  <1> QED
    BY <1>1, <1>3, <1>6, OneHomeKept

LEMMA NextHomes == TypeOK /\ OneHome /\ [Next]_vars => OneHome'
  <1> SUFFICES ASSUME TypeOK, OneHome, [Next]_vars
               PROVE  OneHome'
    OBVIOUS
  <1>1. ASSUME NEW s \in Streams, Run(s) \/ ReadData(s)
        PROVE  OneHome'
    BY <1>1, RunHomes
  <1>2. ASSUME NEW s \in Streams, AcceptReaders(s)
        PROVE  OneHome'
    BY <1>2, AcceptorHomes
  <1>3. ASSUME NEW s \in Streams, NEW r \in Readers, ReaderConnects(r, s)
        PROVE  OneHome'
    BY <1>3, ConnectHomes
  <1>4. ASSUME NEW s \in Streams, NEW x \in Senders, SenderConnects(x, s)
        PROVE  OneHome'
    <2>1. UNCHANGED <<outQueue, conn, socks>> /\ dialled \subseteq dialled'
      BY <1>4 DEF SenderConnects, Dial, readVars
    <2> QED
      BY <2>1, SameHomes
  <1>5. ASSUME NEW s \in Streams, AddStream(s)
        PROVE  OneHome'
    <2>1. UNCHANGED <<outQueue, conn, socks, dialled>>
      BY <1>5 DEF AddStream, ActorStep, egressVars, outVars, readVars, peerVars
    <2> QED
      BY <2>1, SameHomes
  <1>6. ASSUME NEW a \in Actors, NEW s \in Streams, Finish(a, s) \/ Request(a, s)
        PROVE  OneHome'
    <2>1. UNCHANGED <<outQueue, conn, socks, dialled>>
      BY <1>6 DEF Finish, Request, Announce, CloseStopCh, RemoveReturns, Flip,
         RemoveStream, ActorStep, egressVars, outVars, readVars, peerVars
    <2> QED
      BY <2>1, SameHomes
  <1>7. ASSUME NEW p \in Peers, PeerLeaves(p)
        PROVE  OneHome'
    <2>1. UNCHANGED <<outQueue, conn, socks, dialled>>
      BY <1>7 DEF PeerLeaves, egressVars, outVars, readVars
    <2> QED
      BY <2>1, SameHomes
  <1>8. CASE UNCHANGED vars
    <2>1. UNCHANGED <<outQueue, conn, socks, dialled>>
      BY <1>8 DEF vars, egressVars, outVars, readVars, peerVars
    <2> QED
      BY <2>1, SameHomes
  <1> QED
    BY <1>1, <1>2, <1>3, <1>4, <1>5, <1>6, <1>7, <1>8 DEF Next, Connections

\* A reader's socket is in one place: no stream, and no later fanout of its own
\* stream, takes over a reader that is waiting or being fed elsewhere.
THEOREM ReadersHaveOneHome == Spec => []ReaderHasOneHome
  <1>1. Init => OneHome
    <2>1. ASSUME Init, NEW r \in Readers
          PROVE  Homes(r) = {}
      BY <2>1, HomesDef DEF Init, Untouched, Fanout
    <2> QED
      BY <2>1 DEF OneHome, ReaderHasOneHome
  <1>2. OneHome => ReaderHasOneHome
    BY DEF OneHome
  <1> QED
    BY <1>1, <1>2, NextHomes, TypeCorrect, PTL DEF Spec

=============================================================================
