----------------------------- MODULE Dashboard -----------------------------
(***************************************************************************)
(* The dashboard fan-out: how changes of streams reach a page              *)
(* (src/server.go, the callbacks of internal/relay/relay.go, and the code  *)
(* of web/index.html that keeps the list).                                 *)
(*                                                                         *)
(* A stream object changes under its own lock; whoever changed it then     *)
(* calls update(), which takes the server's mutex and writes the stream to *)
(* every connection, one after the other.  A new connection is registered  *)
(* first and then sent a snapshot, without the mutex.  The page also asks  *)
(* for the whole list, when it is loaded and after its own requests.       *)
(*                                                                         *)
(* A stream is represented by the number of its changes, an object by its  *)
(* stream (registering the id again makes another object: StreamRegistry). *)
(* There is one page, with the connections it makes one after another;     *)
(* other pages meet it only at the mutex, as more connections would.       *)
(*                                                                         *)
(* json.Marshal reads the stream without its lock.  A change made during   *)
(* that is followed by an update of its own, so the model takes what was   *)
(* read to be what the stream was before or after.                         *)
(***************************************************************************)
EXTENDS Integers, Sequences

CONSTANTS
    Streams,
    Workers,     \* goroutines that change streams others run: handlers of
                 \* PATCH, tick(), pumps a publisher was routed from
    Connections, \* 1..n, the page's, in the order it makes them
    Room,        \* messages a connection takes before a write blocks
    MaxVersion   \* bound

ASSUME DashboardAssumption ==
    /\ Streams \cap Workers = {} /\ "remover" \notin Streams \cup Workers
    /\ Connections \subseteq Nat \ {0}
    /\ Room \in Nat \ {0} /\ MaxVersion \in Nat \ {0}

VARIABLES
    state,      \* of each stream: "new", "here", "removing" (not in
                \* Relay.streams any more), "announcing" (run() has ended),
                \* "gone"
    version,    \* changes of each stream; 0 before it is there
    pc,         \* of each run() and worker
    held,       \* the stream each of them has in hand
    sending,    \* server.mu: <<>>, or the broadcast of whoever holds it
    clients,    \* server.clients
    at,         \* the handler of each connection
    todo,       \* streams of its snapshot not marshalled yet
    hand,       \* the message of its snapshot it writes next
    open,       \* connections not closed by the page or the network
    wire,       \* messages of each connection not yet taken by the page
    current,    \* the connection the page has made last; 0 before it is loaded
    shown,      \* the page's list: the version it shows of each stream, or 0
    asked,      \* the page's GET of the list: "no", "sent", "listed", "answered"
    answer,     \* ... what it is answered
    stale       \* history: why the page may be wrong about a stream

relay == <<state, version, pc, held>>
server == <<sending, clients, at, todo, hand>>
page == <<current, shown, asked, answer>>
vars == <<relay, server, page, open, wire, stale>>

Goroutines == Streams \cup Workers
Nobody     == <<>>
Messages   == Streams \X (0..MaxVersion)   \* 0: removed
Causes     == {"answer", "snapshot", "late", "missed"}

TypeOK ==
    /\ state \in [Streams -> {"new", "here", "removing", "announcing", "gone"}]
    /\ version \in [Streams -> 0..MaxVersion]
    /\ pc \in [Goroutines -> {"idle", "start", "holding", "changed", "sending", "ended"}]
    /\ held \in [Goroutines -> Streams \cup {"none"}]
    /\ sending = Nobody \/ sending \in [by : Goroutines \cup {"remover"}, msg : Messages,
                                        to : SUBSET Connections]
    /\ clients \subseteq Connections
    /\ at \in [Connections -> {"unused", "opened", "listing", "snapshot", "receiving", "ended"}]
    /\ todo \in [Connections -> SUBSET Streams]
    /\ hand \in [Connections -> Messages \cup {Nobody}]
    /\ open \subseteq Connections
    /\ wire \in [Connections -> Seq(Messages)]
    /\ \A c \in Connections : Len(wire[c]) <= Room
    /\ current \in Connections \cup {0}
    /\ shown \in [Streams -> 0..MaxVersion]
    /\ asked \in {"no", "sent", "listed", "answered"}
    /\ answer \in [Streams -> 0..MaxVersion]
    /\ stale \subseteq Causes \X Streams

Init ==
    /\ state = [s \in Streams |-> "new"]
    /\ version = [s \in Streams |-> 0]
    /\ pc = [g \in Goroutines |-> "idle"]
    /\ held = [g \in Goroutines |-> "none"]
    /\ sending = Nobody
    /\ clients = {}
    /\ at = [c \in Connections |-> "unused"]
    /\ todo = [c \in Connections |-> {}]
    /\ hand = [c \in Connections |-> Nobody]
    /\ open = {}
    /\ wire = [c \in Connections |-> <<>>]
    /\ current = 0
    /\ shown = [s \in Streams |-> 0]
    /\ asked = "no"
    /\ answer = [s \in Streams |-> 0]
    /\ stale = {}

Here == {s \in Streams : state[s] = "here"}

\* Removals the page will not hear of when it loses these messages.
Removals(ms) == {<<"missed", s>> : s \in {t \in Streams : \E i \in DOMAIN ms : ms[i] = <<t, 0>>}}

-----------------------------------------------------------------------------
(* Streams *)

\* AddStream: run() is started, nothing is sent yet.
AddStream(s) ==
    /\ state[s] = "new"
    /\ state' = [state EXCEPT ![s] = "here"]
    /\ version' = [version EXCEPT ![s] = 1]
    /\ pc' = [pc EXCEPT ![s] = "start"]
    /\ held' = [held EXCEPT ![s] = s]
    /\ UNCHANGED <<server, page, open, wire, stale>>

\* A goroutine gets hold of a stream.
GetStream(w, s) ==
    /\ pc[w] = "idle"
    /\ s \in Here
    /\ pc' = [pc EXCEPT ![w] = "holding"]
    /\ held' = [held EXCEPT ![w] = s]
    /\ UNCHANGED <<state, version, server, page, open, wire, stale>>

\* It changes the stream.  run() begins with a setState().
Change(g) ==
    /\ pc[g] \in {"start", "holding"} \/ (g \in Streams /\ pc[g] = "idle" /\ version[g] > 0)
    /\ version[held[g]] < MaxVersion \/ pc[g] = "start"
    /\ version' = [version EXCEPT ![held[g]] = IF @ < MaxVersion THEN @ + 1 ELSE @]
    /\ pc' = [pc EXCEPT ![g] = "changed"]
    /\ UNCHANGED <<state, held, server, page, open, wire, stale>>

\* It lets go of the stream, which it had no reason to change.
LetGo(w) ==
    /\ pc[w] = "holding"
    /\ pc' = [pc EXCEPT ![w] = "idle"]
    /\ held' = [held EXCEPT ![w] = "none"]
    /\ UNCHANGED <<state, version, server, page, open, wire, stale>>

\* RemoveStream: out of the map, stopCh is closed.
RemoveStream(s) ==
    /\ s \in Here
    /\ state' = [state EXCEPT ![s] = "removing"]
    /\ UNCHANGED <<version, pc, held, server, page, open, wire, stale>>

RunEnds(s) ==
    /\ state[s] = "removing"
    /\ pc[s] \in {"start", "idle"}
    /\ pc' = [pc EXCEPT ![s] = "ended"]
    /\ UNCHANGED <<state, version, held, server, page, open, wire, stale>>

\* MUTANT: stopCh is closed and that is that.
NotWaitedFor(s) == state[s] = "removing"

\* <-s.stopped
RunHasEnded(s) == state[s] = "removing" /\ pc[s] = "ended"

Stopped(s) ==
    /\ RunHasEnded(s)
    /\ state' = [state EXCEPT ![s] = "announcing"]
    /\ UNCHANGED <<version, pc, held, server, page, open, wire, stale>>

-----------------------------------------------------------------------------
(* broadcast, broadcastRemove *)

\* MUTANT: a connection gets updates once it has its snapshot.
TargetsWithSnapshot == {c \in clients : at[c] = "receiving"}

Targets == clients

\* broadcast(): the stream is marshalled under the mutex.  The connections are
\* written to in any order (a map's).
Broadcast(g) ==
    LET s == held[g]
    IN  /\ pc[g] = "changed"
        /\ sending = Nobody
        /\ sending' = [by |-> g, msg |-> <<s, version[s]>>, to |-> Targets]
        /\ pc' = [pc EXCEPT ![g] = "sending"]
        /\ stale' = IF state[s] = "gone" /\ g # s THEN stale \cup {<<"late", s>>} ELSE stale
        /\ UNCHANGED <<state, version, held, clients, at, todo, hand, page, open, wire>>

\* broadcastRemove(), called by RemoveStream when the file is written.
BroadcastRemove(s) ==
    /\ state[s] = "announcing"
    /\ sending = Nobody
    /\ sending' = [by |-> "remover", msg |-> <<s, 0>>, to |-> Targets]
    /\ state' = [state EXCEPT ![s] = "gone"]
    /\ stale' = IF current # 0 /\ current \notin clients \cap open
                THEN stale \cup {<<"missed", s>>} ELSE stale
    /\ UNCHANGED <<version, pc, held, clients, at, todo, hand, page, open, wire>>

\* MUTANT: a connection that is closed takes nothing.
HasRoomOpen(c) == c \in open /\ Len(wire[c]) < Room

\* MUTANT: an outgoing queue that is never full.
HasRoomAlways(c) == c \in Connections

\* A write to the connection returns: with an error if it is closed.
HasRoom(c) == c \notin open \/ Len(wire[c]) < Room

\* The message is on its way; a closed connection loses it.
Written(c, msg) ==
    wire' = IF c \in open THEN [wire EXCEPT ![c] = Append(@, msg)] ELSE wire

\* Write to one connection.  After an error it is no client any more; the
\* error may take a while to show.
WriteTo(c) ==
    LET s == sending.msg[1]
        overtakes == hand[c] # Nobody /\ hand[c][1] = s
        outlives  == sending.msg[2] = 0 /\ s \in todo[c]
    IN  /\ sending # Nobody
        /\ c \in sending.to
        /\ HasRoom(c)
        /\ sending' = [sending EXCEPT !.to = @ \ {c}]
        /\ Written(c, sending.msg)
        /\ clients' \in IF c \in open THEN {clients} ELSE {clients, clients \ {c}}
        /\ stale' = stale
             \cup (IF overtakes \/ outlives THEN {<<"snapshot", s>>} ELSE {})
             \cup (IF c \notin open THEN Removals(<<sending.msg>>) ELSE {})
        /\ UNCHANGED <<relay, at, todo, hand, page, open>>

\* The mutex is given back and update() returns.
Sent ==
    /\ sending # Nobody
    /\ sending.to = {}
    /\ sending' = Nobody
    /\ IF sending.by \in Goroutines
       THEN /\ pc' = [pc EXCEPT ![sending.by] = "idle"]
            /\ held' = IF sending.by \in Workers THEN [held EXCEPT ![sending.by] = "none"] ELSE held
       ELSE UNCHANGED <<pc, held>>
    /\ UNCHANGED <<state, version, clients, at, todo, hand, page, open, wire, stale>>

-----------------------------------------------------------------------------
(* handleWS, handleViewWS *)

Register(c) ==
    /\ at[c] = "opened"
    /\ sending = Nobody
    /\ clients' = clients \cup {c}
    /\ at' = [at EXCEPT ![c] = "listing"]
    /\ UNCHANGED <<relay, sending, todo, hand, page, open, wire, stale>>

\* ListStreams
ListStreams(c) ==
    /\ at[c] = "listing"
    /\ todo' = [todo EXCEPT ![c] = Here]
    /\ at' = [at EXCEPT ![c] = "snapshot"]
    /\ UNCHANGED <<relay, sending, clients, hand, page, open, wire, stale>>

\* json.Marshal, then Write.  Its error is not looked at.
Marshal(c, s) ==
    /\ at[c] = "snapshot" /\ hand[c] = Nobody
    /\ s \in todo[c]
    /\ todo' = [todo EXCEPT ![c] = @ \ {s}]
    /\ hand' = [hand EXCEPT ![c] = <<s, version[s]>>]
    /\ UNCHANGED <<relay, sending, clients, at, page, open, wire, stale>>

Write(c) ==
    /\ hand[c] # Nobody
    /\ HasRoom(c)
    /\ Written(c, hand[c])
    /\ hand' = [hand EXCEPT ![c] = Nobody]
    /\ UNCHANGED <<relay, sending, clients, at, todo, page, open, stale>>

Receive(c) ==
    /\ at[c] = "snapshot" /\ hand[c] = Nobody /\ todo[c] = {}
    /\ at' = [at EXCEPT ![c] = "receiving"]
    /\ UNCHANGED <<relay, sending, clients, todo, hand, page, open, wire, stale>>

\* Receive fails: the connection is closed.
Unregister(c) ==
    /\ at[c] = "receiving"
    /\ c \notin open
    /\ sending = Nobody
    /\ clients' = clients \ {c}
    /\ at' = [at EXCEPT ![c] = "ended"]
    /\ UNCHANGED <<relay, sending, todo, hand, page, open, wire, stale>>

-----------------------------------------------------------------------------
(* The page *)

\* The page is loaded: refresh(), connectWS().  Three seconds after its
\* connection is closed it makes another, and asks for nothing.
ConnectWS(c) ==
    /\ at[c] = "unused"
    /\ c = current + 1
    /\ current \notin open
    /\ current' = c
    /\ open' = open \cup {c}
    /\ at' = [at EXCEPT ![c] = "opened"]
    /\ asked' = IF current = 0 THEN "sent" ELSE asked
    /\ UNCHANGED <<relay, sending, clients, todo, hand, shown, answer, wire, stale>>

\* The connection is closed, or lost.
Close(c) ==
    /\ c \in open
    /\ open' = open \ {c}
    /\ wire' = [wire EXCEPT ![c] = <<>>]
    /\ stale' = stale \cup Removals(wire[c])
    /\ UNCHANGED <<relay, server, page>>

\* onmessage
OnMessage(c) ==
    LET s == wire[c][1][1]
    IN  /\ wire[c] # <<>>
        /\ shown' = [shown EXCEPT ![s] = wire[c][1][2]]
        /\ wire' = [wire EXCEPT ![c] = Tail(@)]
        /\ stale' = IF asked \in {"listed", "answered"} THEN stale \cup {<<"answer", s>>} ELSE stale
        /\ UNCHANGED <<relay, server, current, asked, answer, open>>

\* refresh(), after a request of the page's own.
Refresh ==
    /\ current # 0
    /\ asked = "no"
    /\ asked' = "sent"
    /\ UNCHANGED <<relay, server, current, shown, answer, open, wire, stale>>

\* handleListStreams, handleViewStreams: the streams are listed ...
List ==
    /\ asked = "sent"
    /\ asked' = "listed"
    /\ answer' = [s \in Streams |-> IF s \in Here THEN 1 ELSE 0]
    /\ UNCHANGED <<relay, server, current, shown, open, wire, stale>>

\* ... and then marshalled.
Answer ==
    /\ asked = "listed"
    /\ asked' = "answered"
    /\ answer' = [s \in Streams |-> IF answer[s] = 1 THEN version[s] ELSE 0]
    /\ UNCHANGED <<relay, server, current, shown, open, wire, stale>>

\* The answer replaces the list.
Apply ==
    /\ asked = "answered"
    /\ asked' = "no"
    /\ shown' = answer
    /\ answer' = [s \in Streams |-> 0]
    /\ UNCHANGED <<relay, server, current, open, wire, stale>>

-----------------------------------------------------------------------------

Handler(c) ==
    \/ Register(c) \/ ListStreams(c) \/ (\E s \in Streams : Marshal(c, s))
    \/ Write(c) \/ Receive(c) \/ Unregister(c)

Next ==
    \/ \E s \in Streams : AddStream(s) \/ RemoveStream(s) \/ RunEnds(s) \/ Stopped(s) \/ BroadcastRemove(s)
    \/ \E w \in Workers, s \in Streams : GetStream(w, s)
    \/ \E w \in Workers : LetGo(w)
    \/ \E g \in Goroutines : Change(g) \/ Broadcast(g)
    \/ \E c \in Connections :
          WriteTo(c) \/ Handler(c) \/ ConnectWS(c) \/ Close(c) \/ OnMessage(c)
    \/ Sent
    \/ Refresh \/ List \/ Answer \/ Apply

Spec == Init /\ [][Next]_vars

\* What code does that waits for nothing but the mutex, which sync.Mutex gives
\* to whoever has waited for a millisecond, and for room.
FairSpec ==
    /\ Spec
    /\ \A g \in Goroutines : SF_vars(Broadcast(g))
    /\ \A s \in Streams : /\ SF_vars(BroadcastRemove(s))
                          /\ WF_vars(RunEnds(s)) /\ WF_vars(Stopped(s))
    /\ \A c \in Connections : WF_vars(WriteTo(c))
    /\ WF_vars(Sent)

-----------------------------------------------------------------------------
(* Properties *)

\* Nothing about the stream is under way: no change to be reported, no message
\* or answer, and the page is connected and has its snapshot.
Settled(s) ==
    /\ state[s] \in {"here", "gone"}
    /\ \A g \in Goroutines : held[g] = s => pc[g] \in {"idle", "ended"}
    /\ sending = Nobody
    /\ current \in open /\ at[current] = "receiving" /\ wire[current] = <<>>
    /\ asked = "no"

StaleFor(s) == {cause \in Causes : <<cause, s>> \in stale}

\* When nothing is under way the page shows a stream as it is, and none that
\* is gone, unless one of four races went against it: an answer older than a
\* message replaced the list; an update or removal overtook the snapshot of a
\* new connection; another goroutine reported a stream after its removal was
\* announced; or the removal was announced while the page was not connected.
PageIsRight ==
    \A s \in Streams :
        Settled(s) /\ StaleFor(s) = {} =>
            shown[s] = IF state[s] = "here" THEN version[s] ELSE 0

\* A stream that is there is shown; only an answer that is older than the
\* stream can hide it.
NothingHidden ==
    \A s \in Streams :
        Settled(s) /\ state[s] = "here" /\ "answer" \notin StaleFor(s) => shown[s] # 0

\* If every connection has room again and again, or is closed, every update()
\* returns and every removal is announced: no goroutine is stuck behind the
\* mutex of the server.
Reading == \A c \in Connections : []<>(c \notin open \/ Len(wire[c]) < Room)

UpdatesReturn ==
    Reading => /\ \A g \in Goroutines : pc[g] = "changed" ~> pc[g] \in {"idle", "ended"}
               /\ \A s \in Streams : state[s] = "removing" ~> state[s] = "gone"

\* README.md:165: the page shows live status for all streams.
PageShowsStatus ==
    \A s \in Streams : Settled(s) => shown[s] = IF state[s] = "here" THEN version[s] ELSE 0

\* The mutex is given back whatever the page does.  It is not: the writes have
\* no deadline.
UpdatesReturnAnyway == \A g \in Goroutines : pc[g] = "changed" ~> pc[g] \in {"idle", "ended"}

=============================================================================
