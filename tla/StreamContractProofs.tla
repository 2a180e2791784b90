------------------------ MODULE StreamContractProofs ------------------------
(***************************************************************************)
(* StreamLifecycle implements StreamContract, for any number of streams,   *)
(* connections, actors and flips: the initial state is an initial state of *)
(* the contract, and every step is a step of the contract or leaves the    *)
(* phases, the sessions and the spent connections alone.                   *)
(***************************************************************************)
EXTENDS StreamLifecycleProofs

\* A publisher connection waits at one port at most, and only after it dialled.
Backlogs ==
    \A s \in Streams :
        /\ inQueue[s] \subseteq dialled
        /\ \A u \in Streams \ {s} : inQueue[s] \cap inQueue[u] = {}

RInv == IInv /\ Backlogs

-----------------------------------------------------------------------------
(* Backlogs *)

LEMMA NextBacklogs ==
    ASSUME TypeOK, Backlogs, [Next]_vars
    PROVE  Backlogs'
  <1> USE DEF RunStep, inVars, runVars, peerVars
  <1>1. CASE \A s \in Streams : inQueue'[s] \subseteq inQueue[s] /\ dialled \subseteq dialled'
    BY <1>1 DEF Backlogs
  <1>2. CASE UNCHANGED <<inQueue, dialled>>
    BY <1>1, <1>2
  <1>3. ASSUME NEW s \in Streams, CloseIngress(s), UNCHANGED dialled
        PROVE  Backlogs'
    BY <1>1, <1>3 DEF CloseIngress, TypeOK
  <1>4. ASSUME NEW s \in Streams, AcceptSender(s)
        PROVE  Backlogs'
    BY <1>1, <1>4 DEF AcceptSender, TypeOK
  <1>5. ASSUME NEW s \in Streams, Prepare(s)
        PROVE  Backlogs'
    BY <1>2, <1>3, <1>5 DEF Prepare, CheckStop, ReadActive, Park,
       AnnounceWaiting, BindIngress, BindIngressFails, OpenEgress,
       OpenEgressFails
  <1>6. ASSUME NEW s \in Streams, Accept(s)
        PROVE  Backlogs'
    BY <1>2, <1>3, <1>4, <1>6 DEF Accept, LoopStopped, LoopNotStopped,
       LoopInactive, LoopActive, AcceptNothing, RejectSender, RouteSender
  <1>7. ASSUME NEW s \in Streams, Relay(s) \/ ReadData(s)
        PROVE  Backlogs'
    BY <1>2, <1>7 DEF Relay, StartRelay, EndRelay, PumpStopped, PumpTick,
       PumpDefault, ReadData, ReadFails, WriteReaders, FlagReaders, PumpStep
  <1>8. ASSUME NEW s \in Streams, CloseEgress(s)
        PROVE  Backlogs'
    BY <1>2, <1>8 DEF CloseEgress, DetachEgress, CloseReaders, CloseEgressStop,
       CloseEgressListener, JoinAcceptor, CloseStep
  <1>9. ASSUME NEW s \in Streams, AcceptReaders(s)
        PROVE  Backlogs'
    BY <1>2, <1>9 DEF AcceptReaders, AcceptorCheckStop, AcceptorReadActive,
       AcceptNoReader, AcceptReader, AddReader, ShowReader, AcceptorStep
  <1>10. ASSUME NEW s \in Streams, AddStream(s)
         PROVE  Backlogs'
    BY <1>2, <1>10 DEF AddStream, ActorStep
  <1>11. ASSUME NEW s \in Streams, NEW x \in Senders, SenderConnects(x, s)
         PROVE  Backlogs'
    BY <1>11 DEF SenderConnects, Dial, Backlogs, TypeOK
  <1>12. ASSUME NEW s \in Streams, NEW r \in Readers, ReaderConnects(r, s)
         PROVE  Backlogs'
    BY <1>1, <1>12 DEF ReaderConnects, Dial
  <1>13. ASSUME NEW a \in Actors, NEW s \in Streams, Finish(a, s) \/ Request(a, s)
         PROVE  Backlogs'
    BY <1>2, <1>13 DEF Finish, Request, Announce, CloseStopCh, RemoveReturns,
       Flip, RemoveStream, ActorStep
  <1>14. ASSUME NEW p \in Peers, PeerLeaves(p)
         PROVE  Backlogs'
    BY <1>2, <1>14 DEF PeerLeaves
  <1>15. CASE UNCHANGED vars
    BY <1>2, <1>15 DEF vars
  <1> QED
    BY <1>5, <1>6, <1>7, <1>8, <1>9, <1>10, <1>11, <1>12, <1>13, <1>14, <1>15
    DEF Next, Run, Connections

THEOREM RefinementInvariant == Spec => []RInv
  <1>1. Init => RInv
    BY InitTypeOK, InitPortsInv DEF RInv, IInv, Init, Untouched, Backlogs
  <1>2. RInv /\ [Next]_vars => RInv'
    BY NextTypeOK, NextPorts, NextBacklogs DEF RInv, IInv
  <1> QED
    BY <1>1, <1>2, PTL DEF Spec

-----------------------------------------------------------------------------
(* The mapping *)

LEMMA PhaseElsewhere ==
    ASSUME TypeOK, NEW s \in Streams,
           \A u \in Streams \ {s} : Phase(u)' = Phase(u)
    PROVE  PhaseMap' = [PhaseMap EXCEPT ![s] = Phase(s)']
  BY DEF PhaseMap

LEMMA PhaseEverywhere ==
    ASSUME \A u \in Streams : Phase(u)' = Phase(u)
    PROVE  PhaseMap' = PhaseMap
  BY DEF PhaseMap

\* A step that leaves phases and sessions alone may only lose connections.
LEMMA TurnAwayStep ==
    ASSUME UNCHANGED <<PhaseMap, inSock>>, Spent \subseteq Spent'
    PROVE  Contract!TurnAway
  <1> DEFINE lost == Spent' \ Spent
  <1>1. lost \in SUBSET (Senders \ Spent) /\ Spent' = Spent \cup lost
    BY DEF Spent
  <1> QED
    BY <1>1 DEF Contract!TurnAway

\* A step of one stream from phase "idle" or "open" to another phase.
LEMMA MoveStep ==
    ASSUME NEW s \in Streams, UNCHANGED inSock, Spent \subseteq Spent',
           PhaseMap' = [PhaseMap EXCEPT ![s] = Phase(s)'],
           \/ Phase(s) = "absent" /\ Phase(s)' = "idle" /\ Spent' = Spent
           \/ Phase(s) = "idle" /\ Phase(s)' \in {"open", "retired"} /\ Spent' = Spent
           \/ Phase(s) = "open" /\ Phase(s)' = "idle" /\ inSock[s] = {}
    PROVE  Contract!Next
  <1>1. PhaseMap[s] = Phase(s)
    BY DEF PhaseMap
  <1>2. CASE Phase(s) = "absent" /\ Phase(s)' = "idle" /\ Spent' = Spent
    <2>1. Contract!Create(s)
      BY <1>1, <1>2 DEF Contract!Create, Contract!Move
    <2> QED
      BY <2>1 DEF Contract!Next
  <1>3. CASE Phase(s) = "idle" /\ Phase(s)' = "open" /\ Spent' = Spent
    <2>1. Contract!Open(s)
      BY <1>1, <1>3 DEF Contract!Open, Contract!Move
    <2> QED
      BY <2>1 DEF Contract!Next
  <1>4. CASE Phase(s) = "idle" /\ Phase(s)' = "retired" /\ Spent' = Spent
    <2>1. Contract!Retire(s)
      BY <1>1, <1>4 DEF Contract!Retire, Contract!Move
    <2> QED
      BY <2>1 DEF Contract!Next
  <1>5. CASE Phase(s) = "open" /\ Phase(s)' = "idle" /\ inSock[s] = {}
    <2> DEFINE lost == Spent' \ Spent
    <2>1. lost \in SUBSET (Senders \ Spent) /\ Spent' = Spent \cup lost
      BY DEF Spent
    <2>2. Contract!Close(s)
      BY <1>1, <1>5, <2>1 DEF Contract!Close, Contract!Move
    <2> QED
      BY <2>2 DEF Contract!Next
  <1> QED
    BY <1>2, <1>3, <1>4, <1>5

\* A step that gives the publisher socket of s back.
LEMMA EndSessionStep ==
    ASSUME NEW s \in Streams, UNCHANGED <<PhaseMap, Spent>>,
           inSock' = [inSock EXCEPT ![s] = {}], TypeOK
    PROVE  [Contract!Next]_(Contract!vars)
  <1>1. CASE inSock[s] = {}
    <2>1. inSock' = inSock
      BY <1>1 DEF TypeOK
    <2> QED
      BY <2>1 DEF Contract!vars
  <1>2. CASE inSock[s] # {}
    <2>1. Contract!EndSession(s)
      BY <1>2 DEF Contract!EndSession
    <2> QED
      BY <2>1 DEF Contract!Next
  <1> QED
    BY <1>1, <1>2

\* What a stream holds changes its phase; the contract sees the rest as nothing.
LEMMA SameSpent ==
    ASSUME UNCHANGED <<inQueue, dialled>>
    PROVE  Spent' = Spent
  BY DEF Spent

LEMMA ClosedIngressSpends ==
    ASSUME TypeOK, NEW s \in Streams, CloseIngress(s), UNCHANGED dialled
    PROVE  Spent \subseteq Spent' /\ inSock' = inSock
  BY DEF CloseIngress, TypeOK, Spent

\* One step of the contract, or nothing it can see.
Step == [Contract!Next]_(Contract!vars)

LEMMA Stutter ==
    ASSUME \A u \in Streams : Phase(u)' = Phase(u),
           UNCHANGED <<inSock, inQueue, dialled>>
    PROVE  Step
  BY PhaseEverywhere, SameSpent DEF Contract!vars, Step

-----------------------------------------------------------------------------
(* Every step of a stream is a step of its contract *)

LEMMA PrepareStep ==
    ASSUME RInv, NEW s \in Streams, Prepare(s)
    PROVE  Step
  <1> USE DEF RInv, IInv, PortsInv, Ports, RunStep, inVars, outVars, runVars,
              peerVars, Phase, HoldsPorts, Serving, Holding, Relaying, Closing
  <1>1. CASE CheckStop(s)
    <2>1. \A u \in Streams \ {s} : Phase(u)' = Phase(u)
      BY <1>1 DEF CheckStop, TypeOK
    <2>2. Phase(s) = "idle" /\ Phase(s)' \in {"idle", "retired"}
      <3>1. pc[s] = "top" /\ pc'[s] \in {"sched", "exited"}
        BY <1>1 DEF CheckStop, TypeOK
      <3>2. ~HoldsPorts(s) /\ UNCHANGED <<inOpen, outOpen, egressOpen, rd>>
        BY <1>1, <3>1 DEF CheckStop
      <3>3. HoldsPorts(s)' = HoldsPorts(s)
        BY <3>2
      <3> HIDE DEF HoldsPorts
      <3> QED
        BY <3>1, <3>2, <3>3 DEF Phase
    <2>3. UNCHANGED <<inSock, inQueue, dialled>>
      BY <1>1 DEF CheckStop
    <2>4. CASE Phase(s)' = "idle"
      BY <2>1, <2>2, <2>3, <2>4, Stutter
    <2>5. CASE Phase(s)' = "retired"
      BY <2>1, <2>2, <2>3, <2>5, MoveStep, PhaseElsewhere, SameSpent DEF Step
    <2> QED
      BY <2>2, <2>4, <2>5
  <1>2. CASE ReadActive(s)
    BY <1>2, Stutter DEF ReadActive, TypeOK
  <1>3. CASE Park(s)
    BY <1>3, Stutter DEF Park, TypeOK
  <1>4. CASE AnnounceWaiting(s)
    BY <1>4, Stutter DEF AnnounceWaiting, TypeOK
  <1>5. CASE BindIngress(s)
    <2>1. \A u \in Streams \ {s} : Phase(u)' = Phase(u)
      BY <1>5 DEF BindIngress, TypeOK
    <2>2. Phase(s) = "idle" /\ Phase(s)' = "open"
      BY <1>5 DEF BindIngress, TypeOK
    <2>3. UNCHANGED <<inSock, inQueue, dialled>>
      BY <1>5 DEF BindIngress
    <2> QED
      BY <2>1, <2>2, <2>3, MoveStep, PhaseElsewhere, SameSpent DEF Step
  <1>6. CASE BindIngressFails(s)
    BY <1>6, Stutter DEF BindIngressFails, TypeOK
  <1>7. CASE OpenEgress(s)
    <2>1. \A u \in Streams : Phase(u)' = Phase(u)
      BY <1>7 DEF OpenEgress, TypeOK
    <2> QED
      BY <1>7, <2>1, Stutter DEF OpenEgress
  <1>8. CASE OpenEgressFails(s)
    <2>1. \A u \in Streams \ {s} : Phase(u)' = Phase(u)
      BY <1>8 DEF OpenEgressFails, CloseIngress, TypeOK
    <2>2. Phase(s) \in {"open", "idle"} /\ Phase(s)' = "idle"
      <3>1. pc[s] = "open" /\ pc'[s] = "top"
        BY <1>8 DEF OpenEgressFails, TypeOK
      <3>2. ~inOpen'[s] /\ UNCHANGED <<outOpen, egressOpen, rd>>
        BY <1>8 DEF OpenEgressFails, CloseIngress, TypeOK
      <3>3. ~outOpen[s] /\ ~egressOpen[s] /\ rd[s] = "off"
        BY <3>1
      <3>4. ~HoldsPorts(s)'
        BY <3>2, <3>3
      <3> HIDE DEF HoldsPorts
      <3> QED
        BY <3>1, <3>4 DEF Phase
    <2>3. inSock' = inSock /\ Spent \subseteq Spent' /\ inSock[s] = {}
      BY <1>8, ClosedIngressSpends DEF OpenEgressFails
    <2>4. CASE Phase(s) = "open"
      BY <2>1, <2>2, <2>3, <2>4, MoveStep, PhaseElsewhere DEF Step
    <2>5. CASE Phase(s) = "idle"
      <3>1. PhaseMap' = PhaseMap
        BY <2>1, <2>2, <2>5, PhaseEverywhere
      <3> QED
        BY <2>3, <3>1, TurnAwayStep DEF Step, Contract!Next
    <2> QED
      BY <2>2, <2>4, <2>5
  <1> QED
    BY <1>1, <1>2, <1>3, <1>4, <1>5, <1>6, <1>7, <1>8 DEF Prepare

LEMMA AcceptStep ==
    ASSUME RInv, NEW s \in Streams, Accept(s)
    PROVE  Step
  <1> USE DEF RInv, IInv, PortsInv, Ports, RunStep, inVars, outVars, runVars,
              peerVars, Phase, HoldsPorts, Serving, Holding, Relaying, Closing
  <1>1. CASE LoopStopped(s) \/ LoopInactive(s)
    <2>1. \A u \in Streams : Phase(u)' = Phase(u)
      BY <1>1 DEF LoopStopped, LoopInactive, CloseIngress, TypeOK
    <2>2. inSock' = inSock /\ Spent \subseteq Spent'
      BY <1>1, ClosedIngressSpends DEF LoopStopped, LoopInactive
    <2> QED
      BY <2>1, <2>2, PhaseEverywhere, TurnAwayStep DEF Step, Contract!Next
  <1>2. CASE LoopNotStopped(s)
    BY <1>2, Stutter DEF LoopNotStopped, TypeOK
  <1>3. CASE LoopActive(s)
    BY <1>3, Stutter DEF LoopActive, TypeOK
  <1>4. CASE AcceptNothing(s)
    BY <1>4, Stutter DEF AcceptNothing, TypeOK
  <1>5. CASE AcceptSender(s)
    <2>1. PICK x \in inQueue[s] : /\ inQueue' = [inQueue EXCEPT ![s] = @ \ {x}]
                                  /\ inSock' = [inSock EXCEPT ![s] = {x}]
      BY <1>5 DEF AcceptSender
    <2>2. \A u \in Streams : Phase(u)' = Phase(u)
      BY <1>5 DEF AcceptSender, TypeOK
    <2>3. Phase(s) = "open" /\ inSock[s] = {}
      BY <1>5 DEF AcceptSender, TypeOK
    <2>4. x \in Senders /\ x \notin Spent /\ Spent' = Spent \cup {x}
      BY <1>5, <2>1 DEF AcceptSender, TypeOK, Backlogs, Spent
    <2>5. Contract!StartSession(s, x)
      BY <2>1, <2>2, <2>3, <2>4, PhaseEverywhere
      DEF Contract!StartSession, PhaseMap
    <2> QED
      BY <2>4, <2>5 DEF Step, Contract!Next
  <1>6. CASE RejectSender(s)
    <2>1. \A u \in Streams : Phase(u)' = Phase(u)
      BY <1>6 DEF RejectSender, TypeOK
    <2> QED
      BY <1>6, <2>1, PhaseEverywhere, SameSpent, EndSessionStep
      DEF RejectSender, Step
  <1>7. ASSUME NEW t \in Streams, RouteSender(s, t)
        PROVE  Step
    BY <1>7, Stutter DEF RouteSender, TypeOK
  <1> QED
    BY <1>1, <1>2, <1>3, <1>4, <1>5, <1>6, <1>7 DEF Accept

LEMMA RelayStep ==
    ASSUME RInv, NEW s \in Streams, Relay(s) \/ ReadData(s)
    PROVE  Step
  <1> USE DEF RInv, IInv, PortsInv, Ports, RunStep, inVars, outVars, runVars,
              peerVars, Phase, HoldsPorts, Serving, Holding, Relaying, Closing
  <1>1. CASE EndRelay(s)
    <2>1. \A u \in Streams : Phase(u)' = Phase(u)
      BY <1>1 DEF EndRelay, TypeOK
    <2> QED
      BY <1>1, <2>1, PhaseEverywhere, SameSpent, EndSessionStep
      DEF EndRelay, Step
  <1>2. CASE StartRelay(s)
    BY <1>2, Stutter DEF StartRelay, TypeOK
  <1>3. CASE PumpStopped(s) \/ PumpTick(s) \/ PumpDefault(s)
    <2>1. \A u \in Streams : Phase(u)' = Phase(u)
      BY <1>3 DEF PumpStopped, PumpTick, PumpDefault, PumpStep, TypeOK
    <2> QED
      BY <1>3, <2>1, Stutter DEF PumpStopped, PumpTick, PumpDefault, PumpStep
  <1>4. CASE ReadData(s) \/ ReadFails(s)
    BY <1>4, Stutter DEF ReadData, ReadFails, PumpStep, TypeOK
  <1>5. CASE WriteReaders(s) \/ FlagReaders(s)
    BY <1>5, Stutter DEF WriteReaders, FlagReaders, PumpStep, TypeOK
  <1> QED
    BY <1>1, <1>2, <1>3, <1>4, <1>5 DEF Relay

LEMMA CloseEgressStep ==
    ASSUME RInv, NEW s \in Streams, CloseEgress(s)
    PROVE  Step
  <1> USE DEF RInv, IInv, PortsInv, Ports, RunStep, inVars, outVars, runVars,
              peerVars, Phase, HoldsPorts, Serving, Holding, Relaying, Closing
  <1>1. UNCHANGED <<inSock, inQueue, dialled>> /\ inSock[s] = {}
    BY DEF CloseEgress, DetachEgress, CloseReaders, CloseEgressStop,
           CloseEgressListener, JoinAcceptor, CloseStep
  <1>2. \A u \in Streams \ {s} : Phase(u)' = Phase(u)
    BY DEF CloseEgress, DetachEgress, CloseReaders, CloseEgressStop,
           CloseEgressListener, JoinAcceptor, CloseStep, TypeOK
  <1>3. after[s] \in {"park", "top", "exited"}
    BY DEF TypeOK
  <1>4. \/ Phase(s)' = Phase(s)
        \/ Phase(s) = "idle" /\ Phase(s)' = "retired"
        \/ Phase(s) = "open" /\ Phase(s)' = "idle"
    <2>1. CASE DetachEgress(s) /\ egressOpen[s]
      BY <2>1 DEF DetachEgress, CloseStep, TypeOK
    <2>2. CASE DetachEgress(s) /\ ~egressOpen[s]
      <3>1. Phase(s) = "idle" /\ pc'[s] = after[s]
        BY <2>2 DEF DetachEgress, CloseStep, TypeOK
      <3> QED
        BY <1>3, <2>2, <3>1 DEF DetachEgress, CloseStep, TypeOK
    <2>3. CASE CloseReaders(s) \/ CloseEgressStop(s) \/ CloseEgressListener(s)
      BY <2>3 DEF CloseReaders, CloseEgressStop, CloseEgressListener,
                  CloseStep, TypeOK
    <2>4. CASE JoinAcceptor(s)
      <3>1. Phase(s) = "idle" /\ pc'[s] = after[s]
        BY <2>4 DEF JoinAcceptor, CloseStep, TypeOK
      <3> QED
        BY <1>3, <2>4, <3>1 DEF JoinAcceptor, CloseStep, TypeOK
    <2> QED
      BY <2>1, <2>2, <2>3, <2>4 DEF CloseEgress
  <1> HIDE DEF Phase
  <1>5. CASE Phase(s)' = Phase(s)
    BY <1>1, <1>2, <1>5, Stutter
  <1>6. CASE Phase(s)' # Phase(s)
    BY <1>1, <1>2, <1>4, <1>6, MoveStep, PhaseElsewhere, SameSpent DEF Step
  <1> QED
    BY <1>5, <1>6

LEMMA AcceptReadersStep ==
    ASSUME RInv, NEW s \in Streams, AcceptReaders(s)
    PROVE  Step
  <1> USE DEF RInv, IInv, PortsInv, Ports, AcceptorStep, inVars, outVars,
              runVars, peerVars, Phase, HoldsPorts, Serving, Holding, Relaying,
              Closing
  <1>1. UNCHANGED <<inSock, inQueue, dialled>>
    BY DEF AcceptReaders, AcceptorCheckStop, AcceptorReadActive,
           AcceptNoReader, AcceptReader, AddReader, ShowReader
  <1>2. \A u \in Streams \ {s} : Phase(u)' = Phase(u)
    BY DEF AcceptReaders, AcceptorCheckStop, AcceptorReadActive,
           AcceptNoReader, AcceptReader, AddReader, ShowReader, TypeOK
  <1>3. \/ Phase(s)' = Phase(s)
        \/ Phase(s) = "open" /\ Phase(s)' = "idle" /\ inSock[s] = {}
    BY DEF AcceptReaders, AcceptorCheckStop, AcceptorReadActive,
           AcceptNoReader, AcceptReader, AddReader, ShowReader, TypeOK
  <1> HIDE DEF Phase
  <1>4. CASE Phase(s)' = Phase(s)
    BY <1>1, <1>2, <1>4, Stutter
  <1>5. CASE Phase(s)' # Phase(s)
    BY <1>1, <1>2, <1>3, <1>5, MoveStep, PhaseElsewhere, SameSpent DEF Step
  <1> QED
    BY <1>4, <1>5

-----------------------------------------------------------------------------
(* The steps of everybody else *)

LEMMA AddStreamStep ==
    ASSUME RInv, NEW s \in Streams, AddStream(s)
    PROVE  Step
  <1> USE DEF RInv, IInv, PortsInv, Ports, ActorStep, inVars, outVars, runVars,
              egressVars, readVars, peerVars, Serving, Holding, Relaying, Closing
  <1>1. UNCHANGED <<inSock, inQueue, dialled>>
    BY DEF AddStream
  <1>2. \A u \in Streams \ {s} : Phase(u)' = Phase(u)
    BY DEF AddStream, TypeOK, Phase, HoldsPorts
  <1>3. Phase(s) = "absent" /\ Phase(s)' = "idle"
    BY DEF AddStream, TypeOK, Phase, HoldsPorts
  <1> QED
    BY <1>1, <1>2, <1>3, MoveStep, PhaseElsewhere, SameSpent DEF Step

LEMMA ConnectionsStep ==
    ASSUME RInv, NEW s \in Streams, Connections(s)
    PROVE  Step
  <1> USE DEF RInv, IInv, Phase, HoldsPorts
  <1>1. ASSUME NEW x \in Senders, SenderConnects(x, s)
        PROVE  Step
    <2>1. UNCHANGED <<PhaseMap, inSock>>
      BY <1>1, PhaseEverywhere DEF SenderConnects, Dial, readVars
    <2>2. Spent' = Spent
      BY <1>1 DEF SenderConnects, Dial, TypeOK, Spent
    <2> QED
      BY <2>1, <2>2 DEF Step, Contract!vars
  <1>2. ASSUME NEW r \in Readers, ReaderConnects(r, s)
        PROVE  Step
    <2>1. UNCHANGED <<PhaseMap, inSock>>
      BY <1>2, PhaseEverywhere DEF ReaderConnects, Dial, readVars
    <2>2. Spent \subseteq Spent'
      BY <1>2 DEF ReaderConnects, Dial, Spent
    <2> QED
      BY <2>1, <2>2, TurnAwayStep DEF Step, Contract!Next
  <1> QED
    BY <1>1, <1>2 DEF Connections

LEMMA UnseenStep ==
    ASSUME UNCHANGED <<pc, inVars, outVars, readVars, dialled>>
    PROVE  Step
  BY Stutter DEF Phase, HoldsPorts, inVars, outVars, readVars

LEMMA NextStep ==
    ASSUME RInv, [Next]_vars
    PROVE  Step
  <1>1. ASSUME NEW s \in Streams,
               Run(s) \/ ReadData(s) \/ AcceptReaders(s) \/ AddStream(s) \/ Connections(s)
        PROVE  Step
    BY <1>1, PrepareStep, AcceptStep, RelayStep, CloseEgressStep,
       AcceptReadersStep, AddStreamStep, ConnectionsStep DEF Run
  <1>2. ASSUME NEW a \in Actors, NEW s \in Streams, Finish(a, s) \/ Request(a, s)
        PROVE  Step
    BY <1>2, UnseenStep DEF Finish, Request, Announce, CloseStopCh,
       RemoveReturns, Flip, RemoveStream, ActorStep, runVars, egressVars, peerVars
  <1>3. ASSUME NEW p \in Peers, PeerLeaves(p)
        PROVE  Step
    BY <1>3, UnseenStep DEF PeerLeaves, runVars, egressVars
  <1>4. CASE UNCHANGED vars
    BY <1>4, UnseenStep DEF vars, runVars, egressVars, peerVars
  <1> QED
    BY <1>1, <1>2, <1>3, <1>4 DEF Next

\* The goroutines of all streams together keep every stream's contract: one
\* session at a time on its port, each connection served at most once, ports
\* closed between sessions only, and nothing after it is retired.
THEOREM Refinement == Spec => ImplementsContract
  <1>1. Init => Contract!Init
    BY DEF Init, Untouched, Contract!Init, PhaseMap, Phase, Spent
  <1>2. RInv /\ [Next]_vars => [Contract!Next]_(Contract!vars)
    BY NextStep DEF Step
  <1> QED
    BY <1>1, <1>2, RefinementInvariant, PTL
    DEF Spec, ImplementsContract, Contract!Spec

=============================================================================
