-------------------------- MODULE StreamLifecycle --------------------------
(***************************************************************************)
(* The life of relay streams: internal/relay/relay.go, pump.go,            *)
(* scheduler.go.  Every stream has a goroutine run() that binds its ports, *)
(* accepts one publisher at a time and pumps it to the readers of the      *)
(* stream its streamid names, and, while its egress is open, a goroutine   *)
(* acceptReaders().  The scheduler and the HTTP handlers (Actors) flip the *)
(* active flag and remove streams while these goroutines run.              *)
(*                                                                         *)
(* A step is one critical section of s.mu, r.mu or fanout.mu, one channel  *)
(* operation or one SRT call; local computation between two of them is     *)
(* part of the step before it.  A sender or reader is one SRT connection.  *)
(*                                                                         *)
(* Abstracted: payloads, statistics, timestamps (schedules are a flag that *)
(* may flip at any time), sleeps (a pause that only waits or sees stopCh   *)
(* is merged with the check of stopCh that follows it), and callbacks to   *)
(* the dashboard (s.update()).                                             *)
(***************************************************************************)
EXTENDS Naturals, Sequences, FiniteSets

CONSTANTS
    Streams,    \* stream objects that may be created by AddStream
    Senders,    \* publisher connections
    Readers,    \* receiver connections
    Actors,     \* the scheduler and the HTTP handler goroutines
    MaxFlips    \* bound: how often schedules change an active flag, in all

ASSUME MaxFlipsAssumption == MaxFlips \in Nat

Peers == Senders \cup Readers

VARIABLES
    registered,         \* Relay.streams
    replaced,           \* history: streams whose entry AddStream has overwritten
    active,             \* Stream.active
    stopCh,             \* stopCh[s]: the channel is closed
    state,              \* Stream.State
    ingressConnected,   \* Stream.IngressConnected
    egressConnected,    \* Stream.EgressConnected
    \* run() of each stream
    pc,                 \* where run() is
    after,              \* what follows the closeEgress() call it is in
    inOpen,             \* its ingress listener is bound
    inQueue,            \* connections in the backlog of that listener
    inSock,             \* the accepted publisher socket it holds, {} if none
    tgt,                \* the stream whose relay it is running (startRelay)
    pfan,               \* the fanout of tgt it writes to, 0 if none
    \* egress side of each stream
    egressOpen,         \* Stream.egressOpen
    outOpen,            \* the egress listener is bound
    outQueue,           \* connections in its backlog
    socks,              \* socks[s][g]: readers in the g-th fanout s has made
    egressStop,         \* the stop channel of the last openEgress is closed
    rd,                 \* where acceptReaders() is
    conn,               \* the reader socket it holds between Accept and add
    \* connections
    dialled,            \* connections that were made
    gone,               \* ... and whose peer has left since
    \* actors
    announcing,         \* announcing[s]: actors about to setState(scheduled)
    closing,            \* closing[s]: actors about to close(s.stopCh)
    awaiting,           \* awaiting[s]: actors blocked on <-s.stopped
    flips               \* number of flips so far

registryVars == <<registered, replaced, active, stopCh>>
shownVars    == <<state, ingressConnected, egressConnected>>
inVars       == <<inOpen, inQueue, inSock>>
pumpVars     == <<tgt, pfan>>
outVars      == <<egressOpen, outOpen, outQueue, socks, egressStop>>
readVars     == <<rd, conn>>
peerVars     == <<dialled, gone>>
actorVars    == <<announcing, closing, awaiting, flips>>

runVars      == <<after, inVars, pumpVars>>
egressVars   == <<outVars, readVars>>

vars == <<registryVars, shownVars, pc, runVars, egressVars, peerVars,
          actorVars>>

\* Points of run() inside handleIngress: it holds a publisher socket.
Relaying == {"pump", "read", "write", "flag", "reset"}
Holding  == {"route", "start"} \cup Relaying
\* Points of run() inside the accept loop, inside closeEgress(), and where the
\* stream should hold no port.
Serving  == {"loop", "gate", "wait"} \cup Holding
Closing  == {"detach", "closeAll", "closeStop", "closeListener", "join"}
Quiet    == {"absent", "top", "sched", "park", "waiting", "bind", "exited"}
Pcs      == Quiet \cup {"open"} \cup Serving \cup Closing

States == {"stopped", "scheduled", "waiting", "relaying"}

TypeOK ==
    /\ registered \in SUBSET Streams
    /\ replaced \in SUBSET Streams
    /\ active \in [Streams -> BOOLEAN]
    /\ stopCh \in [Streams -> BOOLEAN]
    /\ state \in [Streams -> States]
    /\ ingressConnected \in [Streams -> BOOLEAN]
    /\ egressConnected \in [Streams -> BOOLEAN]
    /\ pc \in [Streams -> Pcs]
    /\ after \in [Streams -> {"park", "top", "exited"}]
    /\ inOpen \in [Streams -> BOOLEAN]
    /\ inQueue \in [Streams -> SUBSET Senders]
    /\ inSock \in [Streams -> SUBSET Senders]
    /\ tgt \in [Streams -> Streams]
    /\ pfan \in [Streams -> Nat]
    /\ egressOpen \in [Streams -> BOOLEAN]
    /\ outOpen \in [Streams -> BOOLEAN]
    /\ outQueue \in [Streams -> SUBSET Readers]
    /\ socks \in [Streams -> Seq(SUBSET Readers)]
    /\ egressStop \in [Streams -> BOOLEAN]
    /\ rd \in [Streams -> {"off", "check", "gate", "accept", "add", "flag"}]
    /\ conn \in [Streams -> SUBSET Readers]
    /\ dialled \in SUBSET Peers
    /\ gone \in SUBSET Peers
    /\ announcing \in [Streams -> SUBSET Actors]
    /\ closing \in [Streams -> SUBSET Actors]
    /\ awaiting \in [Streams -> SUBSET Actors]
    /\ flips \in 0..MaxFlips

\* No goroutine has touched a stream, nobody has connected or asked for anything.
Untouched ==
    /\ stopCh = [s \in Streams |-> FALSE]
    /\ state = [s \in Streams |-> "stopped"]
    /\ ingressConnected = [s \in Streams |-> FALSE]
    /\ egressConnected = [s \in Streams |-> FALSE]
    /\ after = [s \in Streams |-> "park"]
    /\ inOpen = [s \in Streams |-> FALSE]
    /\ inQueue = [s \in Streams |-> {}]
    /\ inSock = [s \in Streams |-> {}]
    /\ tgt = [s \in Streams |-> s]
    /\ pfan = [s \in Streams |-> 0]
    /\ egressOpen = [s \in Streams |-> FALSE]
    /\ outOpen = [s \in Streams |-> FALSE]
    /\ outQueue = [s \in Streams |-> {}]
    /\ socks = [s \in Streams |-> <<>>]
    /\ egressStop = [s \in Streams |-> FALSE]
    /\ rd = [s \in Streams |-> "off"]
    /\ conn = [s \in Streams |-> {}]
    /\ dialled = {}
    /\ gone = {}
    /\ announcing = [s \in Streams |-> {}]
    /\ closing = [s \in Streams |-> {}]
    /\ awaiting = [s \in Streams |-> {}]
    /\ flips = 0

Init ==
    /\ registered = {}
    /\ replaced = {}
    /\ active = [s \in Streams |-> FALSE]
    /\ pc = [s \in Streams |-> "absent"]
    /\ Untouched

-----------------------------------------------------------------------------
(* run(): the outer loop *)

\* What a step of run() never touches: schedules, peers and actors.
RunStep(s, from, to) ==
    /\ pc[s] = from
    /\ pc' = [pc EXCEPT ![s] = to]
    /\ UNCHANGED <<registryVars, conn, peerVars, actorVars>>

\* The fanout made by the last openEgress of s.
Fanout(s) == Len(socks[s])

SetState(s, st) ==
    /\ state' = [state EXCEPT ![s] = st]
    /\ UNCHANGED <<ingressConnected, egressConnected>>

\* The select on stopCh at the head of the loop.
CheckStop(s) ==
    /\ RunStep(s, "top", IF stopCh[s] THEN "exited" ELSE "sched")
    /\ UNCHANGED <<shownVars, runVars, outVars, rd>>

ReadActive(s) ==
    /\ RunStep(s, "sched", IF active[s] THEN "waiting" ELSE "detach")
    /\ after' = [after EXCEPT ![s] = "park"]
    /\ UNCHANGED <<shownVars, inVars, pumpVars, outVars, rd>>

Park(s) ==
    /\ RunStep(s, "park", "top")
    /\ SetState(s, "scheduled")
    /\ UNCHANGED <<runVars, outVars, rd>>

AnnounceWaiting(s) ==
    /\ RunStep(s, "waiting", "bind")
    /\ SetState(s, "waiting")
    /\ UNCHANGED <<runVars, outVars, rd>>

\* newListener on the ingress port.
BindIngress(s) ==
    /\ RunStep(s, "bind", "open")
    /\ inOpen' = [inOpen EXCEPT ![s] = TRUE]
    /\ UNCHANGED <<shownVars, after, inQueue, inSock, pumpVars, outVars, rd>>

\* MUTANT: a failed bind is reported as a state the program never enters.
BindIngressFailsInError(s) ==
    /\ RunStep(s, "bind", "top")
    /\ SetState(s, "error")
    /\ UNCHANGED <<runVars, outVars, rd>>

\* The port is taken, by another process or by a stream not yet torn down.
BindIngressFails(s) ==
    /\ RunStep(s, "bind", "top")
    /\ UNCHANGED <<shownVars, runVars, outVars, rd>>

\* inListener.Close(): connections in its backlog are lost.
CloseIngress(s) ==
    /\ inOpen' = [inOpen EXCEPT ![s] = FALSE]
    /\ inQueue' = [inQueue EXCEPT ![s] = {}]
    /\ UNCHANGED <<shownVars, inSock, pumpVars, outVars, rd>>

\* MUTANT: readers left over from the last session are taken over.
OpenEgressKeepsReaders(s) ==
    /\ RunStep(s, "open", "loop")
    /\ egressOpen' = [egressOpen EXCEPT ![s] = TRUE]
    /\ outOpen' = [outOpen EXCEPT ![s] = TRUE]
    /\ socks' = [socks EXCEPT ![s] = Append(@, IF @ = <<>> THEN {} ELSE @[Fanout(s)])]
    /\ egressStop' = [egressStop EXCEPT ![s] = FALSE]
    /\ rd' = [rd EXCEPT ![s] = "check"]
    /\ UNCHANGED <<shownVars, runVars, outQueue>>

OpenEgress(s) ==
    /\ RunStep(s, "open", "loop")
    /\ egressOpen' = [egressOpen EXCEPT ![s] = TRUE]
    /\ outOpen' = [outOpen EXCEPT ![s] = TRUE]
    /\ socks' = [socks EXCEPT ![s] = Append(@, {})]
    /\ egressStop' = [egressStop EXCEPT ![s] = FALSE]
    /\ rd' = [rd EXCEPT ![s] = "check"]
    /\ UNCHANGED <<shownVars, runVars, outQueue>>

\* MUTANT: the ingress listener is left bound when the egress port is taken.
OpenEgressFailsLeavesIngress(s) ==
    /\ RunStep(s, "open", "top")
    /\ UNCHANGED <<shownVars, runVars, outVars, rd>>

OpenEgressFails(s) ==
    /\ RunStep(s, "open", "top")
    /\ CloseIngress(s)
    /\ UNCHANGED after

-----------------------------------------------------------------------------
(* run(): the accept loop *)

\* The select on stopCh; leaving the loop goes through closeEgress().
LoopStopped(s) ==
    /\ stopCh[s]
    /\ RunStep(s, "loop", "detach")
    /\ CloseIngress(s)
    /\ after' = [after EXCEPT ![s] = "exited"]

LoopNotStopped(s) ==
    /\ ~stopCh[s]
    /\ RunStep(s, "loop", "gate")
    /\ UNCHANGED <<shownVars, runVars, outVars, rd>>

LoopInactive(s) ==
    /\ ~active[s]
    /\ RunStep(s, "gate", "detach")
    /\ CloseIngress(s)
    /\ after' = [after EXCEPT ![s] = "top"]

LoopActive(s) ==
    /\ active[s]
    /\ RunStep(s, "gate", "wait")
    /\ UNCHANGED <<shownVars, runVars, outVars, rd>>

\* The 500 ms deadline of Accept passes, or Accept fails and run() pauses.
AcceptNothing(s) ==
    /\ RunStep(s, "wait", "loop")
    /\ UNCHANGED <<shownVars, runVars, outVars, rd>>

AcceptSender(s) ==
    /\ RunStep(s, "wait", "route")
    /\ \E x \in inQueue[s] :
        /\ inQueue' = [inQueue EXCEPT ![s] = @ \ {x}]
        /\ inSock' = [inSock EXCEPT ![s] = {x}]
    /\ UNCHANGED <<shownVars, after, inOpen, pumpVars, outVars, rd>>

-----------------------------------------------------------------------------
(* handleIngress() and startRelay(), run by the goroutine of s for stream t *)

\* The streamid is empty (t is s) or is the id or name of a registered stream.
\* Merging findByStreamID with egress() is sound: a stream that is removed or
\* replaced in between looks open until its own goroutine closes it, as it does
\* after them.
Names(s, t) == t = s \/ t \in registered

\* MUTANT: the first fanout of the stream is used for ever.
RouteSenderToFirstFanout(s, t) ==
    /\ Names(s, t)
    /\ egressOpen[t]
    /\ RunStep(s, "route", "start")
    /\ tgt' = [tgt EXCEPT ![s] = t]
    /\ pfan' = [pfan EXCEPT ![s] = 1]
    /\ UNCHANGED <<shownVars, after, inVars, outVars, rd>>

RouteSender(s, t) ==
    /\ Names(s, t)
    /\ egressOpen[t]
    /\ RunStep(s, "route", "start")
    /\ tgt' = [tgt EXCEPT ![s] = t]
    /\ pfan' = [pfan EXCEPT ![s] = Fanout(t)]
    /\ UNCHANGED <<shownVars, after, inVars, outVars, rd>>

\* MUTANT: the rejected socket is not closed.
RejectSenderKeepsSocket(s) ==
    /\ RunStep(s, "route", "loop")
    /\ UNCHANGED <<shownVars, runVars, outVars, rd>>

\* The streamid matches no stream, or the one it names is not open.
RejectSender(s) ==
    /\ RunStep(s, "route", "loop")
    /\ inSock' = [inSock EXCEPT ![s] = {}]
    /\ UNCHANGED <<shownVars, after, inOpen, inQueue, pumpVars, outVars, rd>>

\* The readers of the fanout that run() of s writes to.
Served(s) == socks[tgt[s]][pfan[s]]

\* MUTANT: readers that joined before the publisher are forgotten.
ShowWithoutReaders(s, st, connected) ==
    LET t == tgt[s] IN
    /\ state' = [state EXCEPT ![t] = st]
    /\ ingressConnected' = [ingressConnected EXCEPT ![t] = connected]
    /\ egressConnected' = [egressConnected EXCEPT ![t] = FALSE]

\* The two critical sections of startRelay, before and after pump.
Show(s, st, connected) ==
    LET t == tgt[s] IN
    /\ state' = [state EXCEPT ![t] = st]
    /\ ingressConnected' = [ingressConnected EXCEPT ![t] = connected]
    /\ egressConnected' = [egressConnected EXCEPT ![t] = Served(s) # {}]

StartRelay(s) ==
    /\ RunStep(s, "start", "pump")
    /\ Show(s, "relaying", TRUE)
    /\ UNCHANGED <<runVars, outVars, rd>>

\* MUTANT: the lights of the port's owner are reset, not the target's.
EndRelayResetsOwner(s) ==
    /\ RunStep(s, "reset", "loop")
    /\ state' = [state EXCEPT ![s] = "waiting"]
    /\ ingressConnected' = [ingressConnected EXCEPT ![s] = FALSE]
    /\ inSock' = [inSock EXCEPT ![s] = {}]
    /\ tgt' = [tgt EXCEPT ![s] = s]
    /\ pfan' = [pfan EXCEPT ![s] = 0]
    /\ UNCHANGED <<egressConnected, after, inOpen, inQueue, outVars, rd>>

EndRelay(s) ==
    /\ RunStep(s, "reset", "loop")
    /\ Show(s, "waiting", FALSE)
    /\ inSock' = [inSock EXCEPT ![s] = {}]
    /\ tgt' = [tgt EXCEPT ![s] = s]
    /\ pfan' = [pfan EXCEPT ![s] = 0]
    /\ UNCHANGED <<after, inOpen, inQueue, outVars, rd>>

-----------------------------------------------------------------------------
(* pump(), run by the goroutine of s for stream tgt[s] *)

PumpStep(s, from, to) ==
    /\ RunStep(s, from, to)
    /\ UNCHANGED <<state, ingressConnected, runVars, egressOpen, outOpen,
                   outQueue, egressStop, rd>>

\* MUTANT: a break that leaves the select only.
PumpStoppedBreaksSelect(s) ==
    /\ stopCh[tgt[s]]
    /\ PumpStep(s, "pump", "read")
    /\ UNCHANGED <<egressConnected, socks>>

\* MUTANT: the ticker does not look at the active flag.
PumpTickIgnoresActive(s) ==
    /\ PumpStep(s, "pump", "read")
    /\ UNCHANGED <<egressConnected, socks>>

\* The select at the head of the loop takes any ready branch, the default
\* only when none is.  The ticker may be ready at any time.
PumpStopped(s) ==
    /\ stopCh[tgt[s]]
    /\ PumpStep(s, "pump", "reset")
    /\ UNCHANGED <<egressConnected, socks>>

PumpTick(s) ==
    /\ PumpStep(s, "pump", IF active[tgt[s]] THEN "read" ELSE "reset")
    /\ UNCHANGED <<egressConnected, socks>>

PumpDefault(s) ==
    /\ ~stopCh[tgt[s]]
    /\ PumpStep(s, "pump", "read")
    /\ UNCHANGED <<egressConnected, socks>>

\* in.Read has no deadline: it returns only with data or on a lost connection.
ReadData(s) ==
    /\ inSock[s] \cap gone = {}
    /\ PumpStep(s, "read", "write")
    /\ UNCHANGED <<egressConnected, socks>>

ReadFails(s) ==
    /\ inSock[s] \subseteq gone
    /\ PumpStep(s, "read", "reset")
    /\ UNCHANGED <<egressConnected, socks>>

\* fanout.write drops the readers that have gone away.
WriteReaders(s) ==
    /\ PumpStep(s, "write", "flag")
    /\ socks' = [socks EXCEPT ![tgt[s]][pfan[s]] = @ \ gone]
    /\ UNCHANGED egressConnected

FlagReaders(s) ==
    /\ PumpStep(s, "flag", "pump")
    /\ egressConnected' = [egressConnected EXCEPT ![tgt[s]] =
                              @ /\ Served(s) # {}]
    /\ UNCHANGED socks

-----------------------------------------------------------------------------
(* closeEgress() *)

CloseStep(s, from, to) ==
    /\ RunStep(s, from, to)
    /\ UNCHANGED <<shownVars, runVars, rd>>

\* The critical section: take the egress out of the stream, if it is open.
DetachEgress(s) ==
    /\ CloseStep(s, "detach", IF egressOpen[s] THEN "closeAll" ELSE after[s])
    /\ egressOpen' = [egressOpen EXCEPT ![s] = FALSE]
    /\ UNCHANGED <<outOpen, outQueue, socks, egressStop>>

CloseReaders(s) ==
    /\ CloseStep(s, "closeAll", "closeStop")
    /\ socks' = [socks EXCEPT ![s][Fanout(s)] = {}]
    /\ UNCHANGED <<egressOpen, outOpen, outQueue, egressStop>>

CloseEgressStop(s) ==
    /\ CloseStep(s, "closeStop", "closeListener")
    /\ egressStop' = [egressStop EXCEPT ![s] = TRUE]
    /\ UNCHANGED <<egressOpen, outOpen, outQueue, socks>>

CloseEgressListener(s) ==
    /\ CloseStep(s, "closeListener", "join")
    /\ outOpen' = [outOpen EXCEPT ![s] = FALSE]
    /\ outQueue' = [outQueue EXCEPT ![s] = {}]
    /\ UNCHANGED <<egressOpen, socks, egressStop>>

\* MUTANT: closeEgress does not wait for acceptReaders().
JoinAcceptorDoesNotWait(s) ==
    /\ CloseStep(s, "join", after[s])
    /\ UNCHANGED outVars

\* <-done
JoinAcceptor(s) ==
    /\ rd[s] = "off"
    /\ CloseStep(s, "join", after[s])
    /\ UNCHANGED outVars

-----------------------------------------------------------------------------
(* acceptReaders() *)

AcceptorStep(s, from, to) ==
    /\ rd[s] = from
    /\ rd' = [rd EXCEPT ![s] = to]
    /\ UNCHANGED <<registryVars, state, ingressConnected, pc, runVars,
                   egressOpen, outOpen, egressStop, peerVars, actorVars>>

AcceptorCheckStop(s) ==
    /\ AcceptorStep(s, "check",
                    IF egressStop[s] \/ stopCh[s] THEN "off" ELSE "gate")
    /\ UNCHANGED <<egressConnected, outQueue, socks, conn>>

AcceptorReadActive(s) ==
    /\ AcceptorStep(s, "gate", IF active[s] THEN "accept" ELSE "off")
    /\ UNCHANGED <<egressConnected, outQueue, socks, conn>>

\* A timeout, or an error such as the listener having been closed.
AcceptNoReader(s) ==
    /\ AcceptorStep(s, "accept", "check")
    /\ UNCHANGED <<egressConnected, outQueue, socks, conn>>

AcceptReader(s) ==
    /\ AcceptorStep(s, "accept", "add")
    /\ \E r \in outQueue[s] :
        /\ outQueue' = [outQueue EXCEPT ![s] = @ \ {r}]
        /\ conn' = [conn EXCEPT ![s] = {r}]
    /\ UNCHANGED <<egressConnected, socks>>

\* readers is the fanout acceptReaders was started with: closeEgress waits for
\* it to end, so no later fanout exists while it runs.
AddReader(s) ==
    /\ AcceptorStep(s, "add", "flag")
    /\ socks' = [socks EXCEPT ![s][Fanout(s)] = @ \cup conn[s]]
    /\ conn' = [conn EXCEPT ![s] = {}]
    /\ UNCHANGED <<egressConnected, outQueue>>

ShowReader(s) ==
    /\ AcceptorStep(s, "flag", "check")
    /\ egressConnected' = [egressConnected EXCEPT ![s] = TRUE]
    /\ UNCHANGED <<outQueue, socks, conn>>

-----------------------------------------------------------------------------
(* The scheduler and the HTTP handlers *)

Busy(a) == \E s \in Streams : a \in announcing[s] \cup closing[s] \cup awaiting[s]

ActorStep == UNCHANGED <<runVars, egressVars, peerVars>>

\* The new stream has an id of its own, or takes that of a registered stream:
\* that one is no longer in the map, and runs on with its stopCh open.
AddStream(s) ==
    /\ pc[s] = "absent"
    /\ pc' = [pc EXCEPT ![s] = "top"]
    /\ \E old \in {{}} \cup {{t} : t \in registered} :
        /\ registered' = (registered \ old) \cup {s}
        /\ replaced' = replaced \cup old
    /\ \E now \in BOOLEAN : active' = [active EXCEPT ![s] = now]
    /\ ActorStep
    /\ UNCHANGED <<stopCh, shownVars, actorVars>>

\* tick() and UpdateSchedule(): the critical section that finds active changed.
\* The stream may have been removed or replaced since the actor looked it up.
Flip(a, s) ==
    /\ ~Busy(a)
    /\ pc[s] # "absent"
    /\ flips < MaxFlips
    /\ flips' = flips + 1
    /\ active' = [active EXCEPT ![s] = ~@]
    /\ announcing' = [announcing EXCEPT ![s] = @ \cup {a}]
    /\ ActorStep
    /\ UNCHANGED <<registered, replaced, stopCh, shownVars, pc, closing, awaiting>>

\* ... and the setState(StateScheduled) that follows it.
Announce(a, s) ==
    /\ a \in announcing[s]
    /\ announcing' = [announcing EXCEPT ![s] = @ \ {a}]
    /\ SetState(s, "scheduled")
    /\ ActorStep
    /\ UNCHANGED <<registryVars, pc, closing, awaiting, flips>>

\* MUTANT: the stream is looked up, but stays in the map until it has stopped.
RemoveStreamKeepsEntry(a, s) ==
    /\ ~Busy(a)
    /\ s \in registered
    /\ closing' = [closing EXCEPT ![s] = @ \cup {a}]
    /\ ActorStep
    /\ UNCHANGED <<registryVars, shownVars, pc, announcing, awaiting, flips>>

\* RemoveStream(): under r.mu, then close(s.stopCh), then <-s.stopped.
RemoveStream(a, s) ==
    /\ ~Busy(a)
    /\ s \in registered
    /\ registered' = registered \ {s}
    /\ closing' = [closing EXCEPT ![s] = @ \cup {a}]
    /\ ActorStep
    /\ UNCHANGED <<replaced, active, stopCh, shownVars, pc, announcing, awaiting, flips>>

CloseStopCh(a, s) ==
    /\ a \in closing[s]
    /\ closing' = [closing EXCEPT ![s] = @ \ {a}]
    /\ stopCh' = [stopCh EXCEPT ![s] = TRUE]
    /\ awaiting' = [awaiting EXCEPT ![s] = @ \cup {a}]
    /\ ActorStep
    /\ UNCHANGED <<registered, replaced, active, shownVars, pc, announcing, flips>>

RemoveReturns(a, s) ==
    /\ a \in awaiting[s]
    /\ pc[s] = "exited"
    /\ awaiting' = [awaiting EXCEPT ![s] = @ \ {a}]
    /\ ActorStep
    /\ UNCHANGED <<registryVars, shownVars, pc, announcing, closing, flips>>

-----------------------------------------------------------------------------
(* Connections *)

Dial(p) ==
    /\ p \notin dialled
    /\ dialled' = dialled \cup {p}
    /\ UNCHANGED <<registryVars, shownVars, pc, after, inOpen, inSock, pumpVars,
                   egressOpen, outOpen, socks, egressStop, readVars, gone,
                   actorVars>>

SenderConnects(x, s) ==
    /\ inOpen[s]
    /\ Dial(x)
    /\ inQueue' = [inQueue EXCEPT ![s] = @ \cup {x}]
    /\ UNCHANGED outQueue

ReaderConnects(r, s) ==
    /\ outOpen[s]
    /\ Dial(r)
    /\ outQueue' = [outQueue EXCEPT ![s] = @ \cup {r}]
    /\ UNCHANGED inQueue

PeerLeaves(p) ==
    /\ p \in dialled \ gone
    /\ gone' = gone \cup {p}
    /\ UNCHANGED <<registryVars, shownVars, pc, runVars, egressVars, dialled,
                   actorVars>>

-----------------------------------------------------------------------------

Prepare(s) == CheckStop(s) \/ ReadActive(s) \/ Park(s) \/ AnnounceWaiting(s)
                \/ BindIngress(s) \/ BindIngressFails(s)
                \/ OpenEgress(s) \/ OpenEgressFails(s)
Accept(s) == LoopStopped(s) \/ LoopNotStopped(s) \/ LoopInactive(s)
                \/ LoopActive(s) \/ AcceptNothing(s) \/ AcceptSender(s)
                \/ RejectSender(s) \/ \E t \in Streams : RouteSender(s, t)
Relay(s)  == StartRelay(s) \/ EndRelay(s) \/ PumpStopped(s) \/ PumpTick(s)
                \/ PumpDefault(s) \/ ReadFails(s) \/ WriteReaders(s)
                \/ FlagReaders(s)
CloseEgress(s) == DetachEgress(s) \/ CloseReaders(s) \/ CloseEgressStop(s)
                \/ CloseEgressListener(s) \/ JoinAcceptor(s)

\* What the goroutine of s does of itself: all but the arrival of data.
Run(s) == Prepare(s) \/ Accept(s) \/ Relay(s) \/ CloseEgress(s)

AcceptReaders(s) == AcceptorCheckStop(s) \/ AcceptorReadActive(s)
                \/ AcceptNoReader(s) \/ AcceptReader(s) \/ AddReader(s)
                \/ ShowReader(s)

\* What an actor does to finish an operation it has begun.
Finish(a, s) == Announce(a, s) \/ CloseStopCh(a, s) \/ RemoveReturns(a, s)

Request(a, s) == Flip(a, s) \/ RemoveStream(a, s)

Connections(s) == \/ \E x \in Senders : SenderConnects(x, s)
                  \/ \E r \in Readers : ReaderConnects(r, s)

Next ==
    \/ \E s \in Streams : Run(s) \/ ReadData(s) \/ AcceptReaders(s)
                            \/ AddStream(s) \/ Connections(s)
    \/ \E a \in Actors, s \in Streams : Finish(a, s) \/ Request(a, s)
    \/ \E p \in Peers : PeerLeaves(p)

\* Goroutines are scheduled; select chooses among its ready branches at random,
\* so one that is ready whenever pump reaches it is taken in the end (the
\* default is taken only while neither is ready: the ticker is for most of each
\* second not).  Nobody has to connect, send or leave, and
\* nobody has to issue a request.
Fairness ==
    /\ \A s \in Streams :
        /\ WF_vars(Run(s))
        /\ WF_vars(AcceptReaders(s))
        /\ SF_vars(PumpStopped(s))
        /\ SF_vars(PumpTick(s))
    /\ \A a \in Actors, s \in Streams : WF_vars(Finish(a, s))

Spec == Init /\ [][Next]_vars

FairSpec == Spec /\ Fairness

-----------------------------------------------------------------------------
(* Safety *)

\* No light without a publisher: a stream that is shown as relaying, or with
\* its publisher connected, is being pumped by some goroutine (startRelay sets
\* both and must reset both, whoever runs it and whatever happens meanwhile).
NoPhantomPublisher ==
    \A t \in Streams : state[t] = "relaying" \/ ingressConnected[t] =>
        \E s \in Streams : pc[s] \in Relaying /\ tgt[s] = t

\* Nothing outlives its stream: where run() is about to bind, has parked or has
\* returned, no listener is bound, the egress is detached and acceptReaders()
\* is gone, on every path through closeEgress() and the early returns.
QuietHoldsNothing ==
    \A s \in Streams : pc[s] \in Quiet =>
        /\ ~inOpen[s] /\ inQueue[s] = {} /\ inSock[s] = {}
        /\ ~outOpen[s] /\ outQueue[s] = {}
        /\ ~egressOpen[s] /\ rd[s] = "off" /\ conn[s] = {}

\* A publisher that connected to its own stream is written to the fanout that
\* readers of the stream join, for as long as it is pumped.
OwnPumpFeedsReaders ==
    \A s \in Streams : pc[s] \in Relaying /\ tgt[s] = s =>
        egressOpen[s] /\ pfan[s] = Fanout(s)

\* With the accept loop of a stream its only pump, the egress light is on
\* whenever the open fanout has a reader that acceptReaders() is done adding.
ReaderShown ==
    \A s \in Streams :
        egressOpen[s] /\ socks[s][Fanout(s)] # {} /\ rd[s] # "flag" =>
            egressConnected[s]

\* As long as a publisher is pumped, its stream shows it connected
\* (relay.go: IngressConnected is "publisher connected").
PublisherShown ==
    \A s \in Streams : pc[s] \in Relaying => ingressConnected[tgt[s]]

\* As long as a publisher is pumped, its stream is in state relaying.
RelayingShown ==
    \A s \in Streams : pc[s] \in Relaying => state[tgt[s]] = "relaying"

\* Every pump writes to the fanout that readers of its target join, also when
\* the publisher was routed there from another stream's port.
PumpFeedsReaders ==
    \A s \in Streams : pc[s] \in Relaying /\ egressOpen[tgt[s]] =>
        pfan[s] = Fanout(tgt[s])

\* closeEgress() tears down the fanout: once run() is quiet, no reader socket
\* of the stream is left open.
NoReaderLeft ==
    \A s \in Streams : pc[s] \in Quiet =>
        \A g \in 1..Fanout(s) : socks[s][g] = {}

\* close(stopCh) is called at most once for each stream (a second call would
\* panic): a stream is in the map, or one RemoveStream() is about to close its
\* channel, or the channel is closed, or AddStream() has given its id to another
\* stream, and then nobody ever closes it.  RemoveStream() waits only for a
\* stream that has been told to stop, and run() returns only if it has.
StopHandshake ==
    \A s \in Streams : pc[s] # "absent" =>
        /\ closing[s] # {} => s \notin registered /\ ~stopCh[s]
        /\ stopCh[s] => s \notin registered
        /\ \/ s \in registered \/ stopCh[s] \/ \E a \in Actors : closing[s] = {a}
           \/ s \in replaced
        /\ s \in replaced => s \notin registered /\ ~stopCh[s] /\ closing[s] = {}
        /\ awaiting[s] # {} \/ pc[s] = "exited" => stopCh[s]

\* Where a reader's socket is: in a backlog, with acceptReaders(), in a fanout.
Homes(r) ==
    {<<"queue", s, 0>> : s \in {t \in Streams : r \in outQueue[t]}}
        \cup {<<"conn", s, 0>> : s \in {t \in Streams : r \in conn[t]}}
        \cup UNION {{<<"fanout", s, g>> : g \in {h \in 1..Fanout(s) : r \in socks[s][h]}} : s \in Streams}

\* A reader is fed by one stream, and once: its socket is in one place, across
\* streams and the fanouts that a stream makes each time it opens.
ReaderHasOneHome ==
    \A r \in Readers : \A h1, h2 \in Homes(r) : h1 = h2

-----------------------------------------------------------------------------
(* Action properties *)

\* Once run() is quiet, no fanout of the stream gains a reader before
\* openEgress() makes a new one: closeEgress() has waited for acceptReaders().
Sealed == \A s \in Streams : pc[s] \in Quiet =>
              \A g \in 1..Fanout(s) : socks'[s][g] \subseteq socks[s][g]

QuietFanoutsAreSealed == [][Sealed]_vars

Pumping(t) == {s \in Streams : pc[s] \in Relaying /\ tgt[s] = t}

\* The publisher light of a stream goes off when its last pump ends, or when one
\* of several pumps of it does: neither the end of a pump of another stream
\* whose port the publisher came in by, nor a schedule change, a removal or the
\* teardown of a stream on the way takes it off under a publisher.
PublisherKept ==
    [][\A t \in Streams :
         ingressConnected[t] /\ ~ingressConnected'[t] =>
            Pumping(t)' = {} \/ \E s, u \in Pumping(t) : s # u]_vars

-----------------------------------------------------------------------------
(* Liveness *)

\* run() of s is held up in pump() for ever.  Either in.Read does not return,
\* its publisher neither sending nor leaving; or the publisher was routed to
\* another stream that goes on, and pump() looks at the stopCh and the active
\* flag of that one.
HeldByRead(s) == <>[](pc[s] = "read")
HeldByTarget(s) ==
    <>[](pc[s] \in Relaying /\ tgt[s] # s /\ ~stopCh[tgt[s]] /\ active[tgt[s]])

\* Closing stopCh ends run(), whatever it is doing, unless it is held up in
\* pump() by a silent publisher or by one of a stream that goes on.
StopTakesEffect ==
    \A s \in Streams : <>[]stopCh[s] =>
        <>[](pc[s] = "exited") \/ HeldByRead(s) \/ HeldByTarget(s)

\* A stream that stays inactive gives up both ports, with the same exceptions.
DeactivationTakesEffect ==
    \A s \in Streams : <>[](~active[s]) =>
        <>[](~inOpen[s] /\ ~outOpen[s]) \/ HeldByRead(s) \/ HeldByTarget(s)

\* RemoveStream stops the stream (and so frees its ports and returns).
StopCompletes ==
    \A s \in Streams : stopCh[s] ~> (pc[s] = "exited")

\* Readers may connect at any time while the stream is active.
ActiveAcceptsReaders ==
    \A s \in Streams : <>[](active[s] /\ egressOpen[s]) => []<>(rd[s] = "accept")

-----------------------------------------------------------------------------
(* What a stream promises *)

HoldsPorts(s) == inOpen[s] \/ outOpen[s] \/ egressOpen[s] \/ rd[s] # "off"

Phase(s) ==
    CASE pc[s] = "absent" -> "absent"
      [] pc[s] = "exited" -> "retired"
      [] OTHER -> IF HoldsPorts(s) THEN "open" ELSE "idle"

\* Publisher connections that were accepted or lost with a backlog.
Spent == {x \in Senders \cap dialled : \A s \in Streams : x \notin inQueue[s]}

PhaseMap == [s \in Streams |-> Phase(s)]

Contract == INSTANCE StreamContract WITH
    phase <- PhaseMap, session <- inSock, spent <- Spent

\* Each stream serves one publisher connection at a time on its ingress port,
\* each connection at most once, and neither gives up its ports nor returns
\* with a session in progress.
ImplementsContract == Contract!Spec

=============================================================================
