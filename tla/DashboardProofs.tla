--------------------------- MODULE DashboardProofs ---------------------------
(***************************************************************************)
(* The page is right for any number of streams, of goroutines that change  *)
(* them and of connections, whatever room a connection has: nothing else   *)
(* than the four races that Dashboard names can make it wrong.             *)
(*                                                                         *)
(* The argument follows a stream along its way to the page: what the page  *)
(* has of it, then the messages of the connection, then the one that the   *)
(* handler writes next, then the one that is broadcast.  The last of them  *)
(* is right unless more about the stream will be sent.                     *)
(***************************************************************************)
EXTENDS Dashboard, SequenceTheorems, TLAPS

(* The invariant *)

\* Somebody has changed the stream, or is about to, and will report it.
Reporting(s) == \E g \in Goroutines : held[g] = s /\ pc[g] \in {"start", "changed"}

Changed(s) == \E g \in Goroutines : held[g] = s /\ pc[g] = "changed"

\* What each goroutine has in hand, in every phase of the stream.
Runs ==
    \A s \in Streams :
        /\ state[s] = "new" <=> version[s] = 0
        /\ state[s] = "new" => pc[s] = "idle"
        /\ state[s] # "new" => held[s] = s
        /\ pc[s] # "holding"
        /\ pc[s] = "ended" => state[s] \in {"removing", "announcing", "gone"}
        /\ state[s] \in {"announcing", "gone"} => pc[s] = "ended"

Works ==
    \A w \in Workers :
        /\ pc[w] \in {"idle", "holding", "changed", "sending"}
        /\ pc[w] # "idle" => held[w] \in Streams /\ state[held[w]] # "new"

\* A message says that its stream is gone only if it is, and the one that is
\* sent is the last word on its stream, or another one will be.
Messaging ==
    /\ sending # Nobody =>
         LET s == sending.msg[1]
         IN  /\ sending.by \in Goroutines => pc[sending.by] = "sending"
             /\ state[s] # "new"
             /\ sending.msg[2] = 0 => state[s] = "gone"
             /\ sending.msg[2] # 0 => sending.msg[2] = version[s] \/ Changed(s)
    /\ \A c \in Connections :
         /\ hand[c] # Nobody => hand[c][2] # 0
         /\ \A s \in todo[c] : state[s] # "new"
         /\ \A i \in DOMAIN wire[c] : wire[c][i][2] = 0 => state[wire[c][i][1]] = "gone"

\* The page has one connection at a time, and a handler goes through its phases.
Connected ==
    /\ open \subseteq {current}
    /\ current = 0 => asked = "no" /\ \A s \in Streams : shown[s] = 0
    /\ \A c \in Connections :
         /\ c \notin open => wire[c] = <<>>
         /\ c \in open => at[c] # "unused" /\ (at[c] # "opened" => c \in clients)
         /\ at[c] \in {"unused", "opened"} =>
                c \notin clients /\ wire[c] = <<>> /\ (sending # Nobody => c \notin sending.to)
         /\ at[c] # "snapshot" => todo[c] = {} /\ hand[c] = Nobody

-----------------------------------------------------------------------------
(* What is on its way to the page *)

\* What the page has, or will have by the answer it waits for.
Base(s) == CASE asked = "listed"   -> IF answer[s] = 1 THEN version[s] ELSE 0
             [] asked = "answered" -> answer[s]
             [] OTHER              -> shown[s]

InBroadcast(s) ==
    sending # Nobody /\ current \in open /\ current \in sending.to /\ sending.msg[1] = s

InHand(s) == current \in open /\ hand[current] # Nobody /\ hand[current][1] = s

InWire(s) == current \in open /\ \E i \in DOMAIN wire[current] : wire[current][i][1] = s

\* The last message about s in q has v.
LastIs(q, s, v) ==
    \E i \in DOMAIN q : q[i] = <<s, v>> /\ \A j \in DOMAIN q : j > i => q[j][1] # s

\* What the page will show of s when it has taken everything.
WillShow(s, v) ==
    IF InBroadcast(s) THEN sending.msg[2] = v
    ELSE IF InHand(s) THEN hand[current][2] = v
    ELSE IF InWire(s) THEN LastIs(wire[current], s, v)
    ELSE Base(s) = v

\* More about s will be sent than what is on its way.
Pending(s) == Reporting(s) \/ at[current] \in {"opened", "listing"} \/ s \in todo[current]

\* A removal will be written to a connection that is closed.
WillBeMissed(s) == sending # Nobody /\ sending.msg = <<s, 0>> /\ \E c \in sending.to : c \notin open

Fresh(s) == \A cause \in Causes : <<cause, s>> \notin stale

\* A stream that is there will be shown as it is, or more about it will be sent.
HereIsRight(s) ==
    state[s] = "here" /\ Fresh(s) /\ current \in open => WillShow(s, version[s]) \/ Pending(s)

\* One that is gone will not be shown, or its removal will be missed.
GoneIsRight(s) ==
    state[s] = "gone" /\ Fresh(s) =>
        /\ WillShow(s, 0) \/ WillBeMissed(s)
        /\ current \in open /\ s \in todo[current] => InBroadcast(s)

\* The page has the stream or is about to get it.
Coming(s) == Base(s) # 0 \/ InBroadcast(s) \/ InHand(s) \/ InWire(s)

HereIsShown(s) ==
    state[s] = "here" /\ <<"answer", s>> \notin stale /\ current \in open =>
        Coming(s) \/ Pending(s)

Right(s) == HereIsRight(s) /\ GoneIsRight(s) /\ HereIsShown(s)

IInv ==
    /\ TypeOK /\ Runs /\ Works /\ Messaging /\ Connected
    /\ \A s \in Streams : Right(s)
-----------------------------------------------------------------------------
(* Messages and types *)

LEMMA MessageFacts ==
    ASSUME NEW m \in Messages
    PROVE  m = <<m[1], m[2]>> /\ m[1] \in Streams /\ m[2] \in 0..MaxVersion /\ m # Nobody
  BY DEF Messages, Nobody

LEMMA MadeMessage ==
    ASSUME NEW s \in Streams, NEW v \in 0..MaxVersion
    PROVE  <<s, v>> \in Messages /\ <<s, v>>[1] = s /\ <<s, v>>[2] = v
  BY DEF Messages

Broadcasts == [by : Goroutines \cup {"remover"}, msg : Messages, to : SUBSET Connections]

LEMMA BroadcastFacts ==
    ASSUME NEW b \in Broadcasts
    PROVE  /\ b # Nobody
           /\ b.by \in Goroutines \cup {"remover"} /\ b.msg \in Messages /\ b.to \subseteq Connections
           /\ b.msg = <<b.msg[1], b.msg[2]>>
           /\ b.msg[1] \in Streams /\ b.msg[2] \in 0..MaxVersion
  <1>1. b.by \in Goroutines \cup {"remover"} /\ b.msg \in Messages /\ b.to \subseteq Connections
    BY DEF Broadcasts
  <1>2. b # Nobody
    <2>1. "by" \in DOMAIN b
      BY DEF Broadcasts
    <2>2. DOMAIN Nobody = {}
      BY DEF Nobody
    <2> QED
      BY <2>1, <2>2
  <1> QED
    BY <1>1, <1>2, MessageFacts

LEMMA MadeBroadcast ==
    ASSUME NEW g \in Goroutines \cup {"remover"}, NEW m \in Messages, NEW to \in SUBSET Connections
    PROVE  LET b == [by |-> g, msg |-> m, to |-> to]
           IN  b \in Broadcasts /\ b.by = g /\ b.msg = m /\ b.to = to
  BY DEF Broadcasts

\* What is left of a broadcast after a write.
LEMMA LeftOfBroadcast ==
    ASSUME NEW b \in Broadcasts, NEW c
    PROVE  LET l == [b EXCEPT !.to = @ \ {c}]
           IN  l \in Broadcasts /\ l.by = b.by /\ l.msg = b.msg /\ l.to = b.to \ {c}
  BY DEF Broadcasts

LEMMA NobodyFacts == Nobody \notin Messages /\ Nobody \notin Broadcasts
  BY MessageFacts, BroadcastFacts

Typed ==
    /\ state \in [Streams -> {"new", "here", "removing", "announcing", "gone"}]
    /\ version \in [Streams -> 0..MaxVersion]
    /\ pc \in [Goroutines -> {"idle", "start", "holding", "changed", "sending", "ended"}]
    /\ held \in [Goroutines -> Streams \cup {"none"}]
    /\ sending \in Broadcasts \cup {Nobody}
    /\ clients \subseteq Connections
    /\ at \in [Connections -> {"unused", "opened", "listing", "snapshot", "receiving", "ended"}]
    /\ todo \in [Connections -> SUBSET Streams]
    /\ hand \in [Connections -> Messages \cup {Nobody}]
    /\ open \subseteq Connections
    /\ wire \in [Connections -> Seq(Messages)]
    /\ current \in Connections \cup {0} /\ 0 \notin Connections
    /\ shown \in [Streams -> 0..MaxVersion]
    /\ answer \in [Streams -> 0..MaxVersion]
    /\ Streams \subseteq Goroutines /\ Workers \subseteq Goroutines
    /\ Streams \cap Workers = {} /\ "remover" \notin Goroutines
    /\ MaxVersion \in Nat \ {0}

LEMMA TypedFacts ==
    ASSUME TypeOK
    PROVE  Typed
  BY DashboardAssumption, Zenon DEF TypeOK, Typed, DashboardAssumption, Broadcasts, Goroutines

\* Messages of a connection.
LEMMA WireFacts ==
    ASSUME NEW q \in Seq(Messages)
    PROVE  /\ Len(q) \in Nat /\ DOMAIN q = 1..Len(q)
           /\ \A i \in DOMAIN q : q[i] \in Messages /\ q[i] = <<q[i][1], q[i][2]>>
                                  /\ q[i][1] \in Streams /\ q[i][2] \in 0..MaxVersion
  BY ElementOfSeq, LenProperties, MessageFacts

LEMMA AppendFacts ==
    ASSUME NEW q \in Seq(Messages), NEW m \in Messages
    PROVE  LET p == Append(q, m)
           IN  /\ p \in Seq(Messages) /\ Len(p) = Len(q) + 1 /\ DOMAIN p = 1..(Len(q) + 1)
               /\ \A i \in DOMAIN q : p[i] = q[i]
               /\ p[Len(q) + 1] = m
  BY AppendProperties, LenProperties

LEMMA TailFacts ==
    ASSUME NEW q \in Seq(Messages), q # <<>>
    PROVE  LET p == Tail(q)
           IN  /\ q[1] \in Messages /\ 1 \in DOMAIN q
               /\ p \in Seq(Messages) /\ Len(p) = Len(q) - 1 /\ DOMAIN p = 1..(Len(q) - 1)
               /\ \A i \in DOMAIN p : p[i] = q[i + 1]
  <1> DEFINE p == Tail(q)
  <1>1. Len(q) \in Nat \ {0} /\ DOMAIN q = 1..Len(q)
    BY EmptySeq, LenProperties
  <1>2. p \in Seq(Messages) /\ Len(p) = Len(q) - 1 /\ \A i \in 1..Len(p) : p[i] = q[i + 1]
    BY HeadTailProperties
  <1>3. q[1] \in Messages
    BY <1>1, ElementOfSeq
  <1>4. DOMAIN p = 1..Len(p)
    BY <1>2, LenProperties
  <1> QED
    BY <1>1, <1>2, <1>3, <1>4

LEMMA NoMessages == <<>> \in Seq(Messages) /\ DOMAIN <<>> = {} /\ Len(<<>>) = 0
  OBVIOUS
-----------------------------------------------------------------------------
(* Types *)

\* What a goroutine that is not idle has in hand is a stream that was added.
LEMMA HeldFacts ==
    ASSUME TypeOK, Runs, Works, NEW g \in Goroutines
    PROVE  /\ pc[g] \in {"start", "holding", "changed", "sending"} =>
                held[g] \in Streams /\ state[held[g]] # "new"
           /\ pc[g] = "start" => g \in Streams
           /\ g \in Streams /\ version[g] > 0 => held[g] = g /\ state[g] # "new"
           /\ g \in Streams /\ pc[g] # "idle" => held[g] = g /\ state[g] # "new"
  <1>1. CASE g \in Streams
    BY <1>1, TypedFacts DEF Typed, Runs
  <1>2. CASE g \in Workers
    BY <1>2, TypedFacts DEF Typed, Works
  <1> QED
    BY <1>1, <1>2 DEF Goroutines

\* What a change of a stream is, run by g.
LEMMA ChangeEffect ==
    ASSUME TypeOK, Runs, Works, NEW g \in Goroutines, Change(g)
    PROVE  /\ held[g] \in Streams /\ state[held[g]] # "new"
           /\ pc[g] \in {"start", "holding", "idle"} /\ pc'[g] = "changed"
           /\ g \in Streams => held[g] = g
           /\ \A h \in Goroutines \ {g} : pc'[h] = pc[h]
           /\ pc' \in [Goroutines -> {"idle", "start", "holding", "changed", "sending", "ended"}]
           /\ version' \in [Streams -> 0..MaxVersion] /\ version'[held[g]] # 0
           /\ \A s \in Streams \ {held[g]} : version'[s] = version[s]
           /\ UNCHANGED <<state, held, server, page, open, wire, stale>>
  <1> USE TypedFacts DEF Typed
  <1>1. /\ held[g] \in Streams /\ state[held[g]] # "new"
        /\ pc[g] \in {"start", "holding", "idle"}
        /\ g \in Streams => held[g] = g
    BY HeldFacts DEF Change
  <1>2. /\ pc' = [pc EXCEPT ![g] = "changed"]
        /\ UNCHANGED <<state, held, server, page, open, wire, stale>>
    BY DEF Change
  <1>3. version' = [version EXCEPT ![held[g]] =
                        IF version[held[g]] < MaxVersion THEN version[held[g]] + 1 ELSE version[held[g]]]
    BY DEF Change
  <1>4. version[held[g]] \in 1..MaxVersion
    BY <1>1 DEF Runs
  <1>5. (IF version[held[g]] < MaxVersion THEN version[held[g]] + 1 ELSE version[held[g]]) \in 1..MaxVersion
    BY <1>4
  <1>6. /\ version' \in [Streams -> 0..MaxVersion] /\ version'[held[g]] # 0
        /\ \A s \in Streams \ {held[g]} : version'[s] = version[s]
    BY <1>1, <1>3, <1>5
  <1> QED
    BY <1>1, <1>2, <1>6

\* The mutex is taken to send v of stream s.
LEMMA BroadcastEffect ==
    ASSUME TypeOK, Runs, Works, NEW g \in Goroutines, Broadcast(g)
    PROVE  LET s == held[g]
           IN  /\ s \in Streams /\ state[s] # "new" /\ pc[g] = "changed" /\ pc'[g] = "sending"
               /\ \A h \in Goroutines \ {g} : pc'[h] = pc[h]
               /\ pc' \in [Goroutines -> {"idle", "start", "holding", "changed", "sending", "ended"}]
               /\ sending = Nobody /\ sending' \in Broadcasts
               /\ sending'.by = g /\ sending'.to = clients
               /\ sending'.msg = <<s, version[s]>>
               /\ sending'.msg[1] = s /\ sending'.msg[2] = version[s]
               /\ stale' = IF state[s] = "gone" /\ g # s THEN stale \cup {<<"late", s>>} ELSE stale
               /\ UNCHANGED <<state, version, held, clients, at, todo, hand, page, open, wire>>
  <1> USE TypedFacts DEF Typed
  <1>1. held[g] \in Streams /\ state[held[g]] # "new" /\ pc[g] = "changed"
    BY HeldFacts DEF Broadcast
  <1>2. sending' = [by |-> g, msg |-> <<held[g], version[held[g]]>>, to |-> clients]
    BY DEF Broadcast, Targets
  <1>3. sending' \in Broadcasts /\ sending'.by = g /\ sending'.to = clients
        /\ sending'.msg = <<held[g], version[held[g]]>>
        /\ sending'.msg[1] = held[g] /\ sending'.msg[2] = version[held[g]]
    BY <1>1, <1>2, MadeBroadcast, MadeMessage
  <1>4. pc' = [pc EXCEPT ![g] = "sending"]
    BY DEF Broadcast
  <1>5. /\ sending = Nobody
        /\ stale' = IF state[held[g]] = "gone" /\ g # held[g] THEN stale \cup {<<"late", held[g]>>} ELSE stale
        /\ UNCHANGED <<state, version, held, clients, at, todo, hand, page, open, wire>>
    BY DEF Broadcast
  <1> QED
    BY <1>1, <1>3, <1>4, <1>5

LEMMA RemoveEffect ==
    ASSUME TypeOK, NEW s \in Streams, BroadcastRemove(s)
    PROVE  /\ sending = Nobody /\ sending' \in Broadcasts
           /\ sending'.by = "remover" /\ sending'.to = clients
           /\ sending'.msg = <<s, 0>> /\ sending'.msg[1] = s /\ sending'.msg[2] = 0
           /\ state[s] = "announcing" /\ state'[s] = "gone"
           /\ \A t \in Streams \ {s} : state'[t] = state[t]
           /\ state' \in [Streams -> {"new", "here", "removing", "announcing", "gone"}]
           /\ stale' = IF current # 0 /\ current \notin clients \cap open
                       THEN stale \cup {<<"missed", s>>} ELSE stale
           /\ UNCHANGED <<version, pc, held, clients, at, todo, hand, page, open, wire>>
  <1> USE TypedFacts DEF Typed
  <1>1. sending' = [by |-> "remover", msg |-> <<s, 0>>, to |-> clients]
    BY DEF BroadcastRemove, Targets
  <1>2. <<s, 0>> \in Messages /\ <<s, 0>>[1] = s /\ <<s, 0>>[2] = 0
    BY MadeMessage
  <1>3. /\ sending' \in Broadcasts
        /\ sending'.by = "remover" /\ sending'.to = clients
        /\ sending'.msg = <<s, 0>> /\ sending'.msg[1] = s /\ sending'.msg[2] = 0
    BY <1>1, <1>2, MadeBroadcast
  <1>4. /\ sending = Nobody /\ state[s] = "announcing"
        /\ state' = [state EXCEPT ![s] = "gone"]
        /\ stale' = IF current # 0 /\ current \notin clients \cap open
                    THEN stale \cup {<<"missed", s>>} ELSE stale
        /\ UNCHANGED <<version, pc, held, clients, at, todo, hand, page, open, wire>>
    BY DEF BroadcastRemove
  <1> QED
    BY <1>3, <1>4

\* What is written reaches the end of the queue of an open connection.
LEMMA WrittenEffect ==
    ASSUME TypeOK, NEW c \in Connections, NEW m \in Messages, HasRoom(c), Written(c, m)
    PROVE  /\ wire' \in [Connections -> Seq(Messages)]
           /\ \A d \in Connections : Len(wire'[d]) <= Room
           /\ \A d \in Connections \ {c} : wire'[d] = wire[d]
           /\ c \notin open => wire' = wire
           /\ c \in open => wire'[c] = Append(wire[c], m)
  <1> USE TypedFacts DEF Typed
  <1>1. CASE c \notin open
    BY <1>1 DEF Written, TypeOK
  <1>2. CASE c \in open
    <2>1. wire' = [wire EXCEPT ![c] = Append(wire[c], m)] /\ Len(wire[c]) < Room
      BY <1>2 DEF Written, HasRoom
    <2>2. wire[c] \in Seq(Messages)
      OBVIOUS
    <2>3. Append(wire[c], m) \in Seq(Messages) /\ Len(Append(wire[c], m)) = Len(wire[c]) + 1
      BY <2>2, AppendFacts
    <2>4. Len(wire[c]) + 1 <= Room
      BY <2>1, <2>2, WireFacts, DashboardAssumption DEF DashboardAssumption
    <2>5. \A d \in Connections \ {c} : Len(wire[d]) <= Room
      BY DEF TypeOK
    <2> QED
      BY <1>2, <2>1, <2>3, <2>4, <2>5
  <1> QED
    BY <1>1, <1>2

LEMMA WriteToEffect ==
    ASSUME TypeOK, NEW c \in Connections, WriteTo(c)
    PROVE  /\ sending \in Broadcasts /\ sending # Nobody /\ c \in sending.to
           /\ sending' \in Broadcasts /\ sending' # Nobody
           /\ sending'.by = sending.by /\ sending'.msg = sending.msg /\ sending'.to = sending.to \ {c}
           /\ HasRoom(c) /\ Written(c, sending.msg)
           /\ clients' \subseteq clients /\ clients \subseteq clients' \cup {c}
           /\ c \in open => clients' = clients
           /\ stale' \in SUBSET (Causes \X Streams) /\ stale \subseteq stale'
           /\ hand[c] # Nobody /\ hand[c][1] = sending.msg[1] =>
                <<"snapshot", sending.msg[1]>> \in stale'
           /\ sending.msg[2] = 0 /\ sending.msg[1] \in todo[c] =>
                <<"snapshot", sending.msg[1]>> \in stale'
           /\ sending.msg[2] = 0 /\ c \notin open => <<"missed", sending.msg[1]>> \in stale'
           /\ UNCHANGED <<relay, at, todo, hand, page, open>>
  <1> USE TypedFacts DEF Typed
  <1> DEFINE s == sending.msg[1]
             overtakes == hand[c] # Nobody /\ hand[c][1] = s
             outlives  == sending.msg[2] = 0 /\ s \in todo[c]
  <1>1. sending \in Broadcasts /\ sending # Nobody /\ c \in sending.to
    BY DEF WriteTo
  <1>2. /\ sending' \in Broadcasts /\ sending'.by = sending.by /\ sending'.msg = sending.msg
        /\ sending'.to = sending.to \ {c}
    <2>1. sending' = [sending EXCEPT !.to = @ \ {c}]
      BY DEF WriteTo
    <2> QED
      BY <1>1, <2>1, LeftOfBroadcast
  <1>3. sending' # Nobody
    BY <1>2, BroadcastFacts
  <1>4. s \in Streams /\ sending.msg = <<s, sending.msg[2]>> /\ sending.msg \in Messages
    BY <1>1, BroadcastFacts
  <1>5. /\ HasRoom(c) /\ Written(c, sending.msg) /\ UNCHANGED <<relay, at, todo, hand, page, open>>
        /\ clients' \in IF c \in open THEN {clients} ELSE {clients, clients \ {c}}
        /\ stale' = stale
             \cup (IF overtakes \/ outlives THEN {<<"snapshot", s>>} ELSE {})
             \cup (IF c \notin open THEN Removals(<<sending.msg>>) ELSE {})
    BY DEF WriteTo
  <1>6. Removals(<<sending.msg>>) \subseteq Causes \X Streams
    BY DEF Removals, Causes
  <1>7. sending.msg[2] = 0 => <<"missed", s>> \in Removals(<<sending.msg>>)
    <2> DEFINE q == <<sending.msg>>
    <2>1. 1 \in DOMAIN q /\ q[1] = sending.msg
      OBVIOUS
    <2>2. sending.msg[2] = 0 => sending.msg = <<s, 0>>
      BY <1>4
    <2> HIDE DEF q
    <2>3. sending.msg[2] = 0 => <<"missed", s>> \in Removals(q)
      BY <1>4, <2>1, <2>2 DEF Removals
    <2> QED
      BY <2>3 DEF q
  <1>8. stale \in SUBSET (Causes \X Streams) /\ <<"snapshot", s>> \in Causes \X Streams
    BY <1>4 DEF TypeOK, Causes
  <1> HIDE DEF s
  <1>9. /\ stale' \in SUBSET (Causes \X Streams) /\ stale \subseteq stale'
        /\ overtakes \/ outlives => <<"snapshot", s>> \in stale'
        /\ sending.msg[2] = 0 /\ c \notin open => <<"missed", s>> \in stale'
    BY <1>5, <1>6, <1>7, <1>8
  <1>10. clients' \subseteq clients /\ clients \subseteq clients' \cup {c} /\ (c \in open => clients' = clients)
    BY <1>5
  <1> QED
    BY <1>1, <1>2, <1>3, <1>5, <1>9, <1>10 DEF s

LEMMA SentEffect ==
    ASSUME TypeOK, Sent
    PROVE  /\ sending \in Broadcasts /\ sending # Nobody /\ sending.to = {} /\ sending' = Nobody
           /\ pc' \in [Goroutines -> {"idle", "start", "holding", "changed", "sending", "ended"}]
           /\ held' \in [Goroutines -> Streams \cup {"none"}]
           /\ \A g \in Goroutines \ {sending.by} : pc'[g] = pc[g] /\ held'[g] = held[g]
           /\ sending.by \in Goroutines => pc'[sending.by] = "idle"
           /\ sending.by \in Streams => held'[sending.by] = held[sending.by]
           /\ UNCHANGED <<state, version, clients, at, todo, hand, page, open, wire, stale>>
  <1> USE TypedFacts DEF Typed
  <1>1. /\ sending \in Broadcasts /\ sending # Nobody /\ sending.to = {} /\ sending' = Nobody
        /\ UNCHANGED <<state, version, clients, at, todo, hand, page, open, wire, stale>>
    BY DEF Sent
  <1> DEFINE b == sending.by
  <1>2. b \in Goroutines \cup {"remover"}
    BY <1>1, BroadcastFacts
  <1>3. IF b \in Goroutines
        THEN /\ pc' = [pc EXCEPT ![b] = "idle"]
             /\ held' = IF b \in Workers THEN [held EXCEPT ![b] = "none"] ELSE held
        ELSE UNCHANGED <<pc, held>>
    BY DEF Sent
  <1> HIDE DEF b
  <1>4. /\ pc' \in [Goroutines -> {"idle", "start", "holding", "changed", "sending", "ended"}]
        /\ held' \in [Goroutines -> Streams \cup {"none"}]
        /\ \A g \in Goroutines \ {b} : pc'[g] = pc[g] /\ held'[g] = held[g]
        /\ b \in Goroutines => pc'[b] = "idle"
        /\ b \in Streams => held'[b] = held[b]
    BY <1>2, <1>3
  <1> QED
    BY <1>1, <1>4 DEF b

\* What is lost with a connection is noted.
LEMMA CloseEffect ==
    ASSUME TypeOK, NEW c \in Connections, Close(c)
    PROVE  /\ c \in open /\ open' = open \ {c}
           /\ wire' \in [Connections -> Seq(Messages)] /\ wire'[c] = <<>>
           /\ \A d \in Connections \ {c} : wire'[d] = wire[d]
           /\ \A d \in Connections : Len(wire'[d]) <= Room
           /\ stale' \in SUBSET (Causes \X Streams) /\ stale \subseteq stale'
           /\ \A s \in Streams, i \in DOMAIN wire[c] : wire[c][i] = <<s, 0>> => <<"missed", s>> \in stale'
           /\ UNCHANGED <<relay, server, page>>
  <1> USE TypedFacts DEF Typed
  <1>1. /\ c \in open /\ open' = open \ {c} /\ wire' = [wire EXCEPT ![c] = <<>>]
        /\ stale' = stale \cup Removals(wire[c]) /\ UNCHANGED <<relay, server, page>>
    BY DEF Close
  <1>2. Removals(wire[c]) \subseteq Causes \X Streams
    BY DEF Removals, Causes
  <1>3. \A s \in Streams, i \in DOMAIN wire[c] : wire[c][i] = <<s, 0>> => <<"missed", s>> \in Removals(wire[c])
    BY DEF Removals
  <1>4. stale \in SUBSET (Causes \X Streams)
    BY DEF TypeOK
  <1>5. \A d \in Connections : Len(wire[d]) <= Room
    BY DEF TypeOK
  <1>6. \A d \in Connections : Len(wire'[d]) <= Room
    <2>1. wire'[c] = <<>> /\ \A d \in Connections \ {c} : wire'[d] = wire[d]
      BY <1>1
    <2>2. Len(wire'[c]) <= Room
      BY <2>1, NoMessages, DashboardAssumption DEF DashboardAssumption
    <2> QED
      BY <1>5, <2>1, <2>2
  <1> QED
    BY <1>1, <1>2, <1>3, <1>4, <1>6, NoMessages

\* The page takes the oldest message.
LEMMA OnMessageEffect ==
    ASSUME TypeOK, NEW c \in Connections, OnMessage(c)
    PROVE  LET s == wire[c][1][1]
           IN  /\ wire[c] \in Seq(Messages) /\ wire[c] # <<>> /\ s \in Streams
               /\ wire[c][1] \in Messages
               /\ shown' \in [Streams -> 0..MaxVersion] /\ shown'[s] = wire[c][1][2]
               /\ \A t \in Streams \ {s} : shown'[t] = shown[t]
               /\ wire' \in [Connections -> Seq(Messages)] /\ wire'[c] = Tail(wire[c])
               /\ \A d \in Connections \ {c} : wire'[d] = wire[d]
               /\ \A d \in Connections : Len(wire'[d]) <= Room
               /\ stale' = IF asked \in {"listed", "answered"} THEN stale \cup {<<"answer", s>>} ELSE stale
               /\ UNCHANGED <<relay, server, current, asked, answer, open>>
  <1> USE TypedFacts DEF Typed
  <1> DEFINE s == wire[c][1][1]
  <1>1. /\ wire[c] # <<>>
        /\ shown' = [shown EXCEPT ![s] = wire[c][1][2]]
        /\ wire' = [wire EXCEPT ![c] = Tail(wire[c])]
        /\ stale' = IF asked \in {"listed", "answered"} THEN stale \cup {<<"answer", s>>} ELSE stale
        /\ UNCHANGED <<relay, server, current, asked, answer, open>>
    BY DEF OnMessage
  <1>2. /\ wire[c] \in Seq(Messages) /\ wire[c][1] \in Messages
        /\ Tail(wire[c]) \in Seq(Messages) /\ Len(Tail(wire[c])) = Len(wire[c]) - 1
    BY <1>1, TailFacts
  <1>3. s \in Streams /\ wire[c][1][2] \in 0..MaxVersion
    BY <1>2, MessageFacts
  <1> HIDE DEF s
  <1>4. \A d \in Connections : Len(wire[d]) <= Room /\ Len(wire[d]) \in Nat
    BY WireFacts DEF TypeOK
  <1>5. \A d \in Connections : Len(wire'[d]) <= Room
    <2>1. wire'[c] = Tail(wire[c]) /\ \A d \in Connections \ {c} : wire'[d] = wire[d]
      BY <1>1
    <2>2. Len(Tail(wire[c])) <= Room
      BY <1>2, <1>4, DashboardAssumption DEF DashboardAssumption
    <2> QED
      BY <1>4, <2>1, <2>2
  <1>6. /\ shown' \in [Streams -> 0..MaxVersion] /\ shown'[s] = wire[c][1][2]
        /\ \A t \in Streams \ {s} : shown'[t] = shown[t]
    BY <1>1, <1>3
  <1>7. /\ wire' \in [Connections -> Seq(Messages)] /\ wire'[c] = Tail(wire[c])
        /\ \A d \in Connections \ {c} : wire'[d] = wire[d]
    BY <1>1, <1>2
  <1> QED
    BY <1>1, <1>2, <1>3, <1>5, <1>6, <1>7 DEF s
-----------------------------------------------------------------------------
(* The steps keep the types *)

LEMMA NextSteps ==
    ASSUME Next, NEW P,
           \A s \in Streams : AddStream(s) \/ RemoveStream(s) \/ RunEnds(s) \/ Stopped(s) => P,
           \A s \in Streams : BroadcastRemove(s) => P,
           \A w \in Workers, s \in Streams : GetStream(w, s) => P,
           \A w \in Workers : LetGo(w) => P,
           \A g \in Goroutines : Change(g) => P,
           \A g \in Goroutines : Broadcast(g) => P,
           \A c \in Connections : WriteTo(c) => P,
           Sent => P,
           \A c \in Connections : Register(c) \/ ListStreams(c) \/ Receive(c) \/ Unregister(c) => P,
           \A c \in Connections, s \in Streams : Marshal(c, s) => P,
           \A c \in Connections : Write(c) => P,
           \A c \in Connections : ConnectWS(c) => P,
           \A c \in Connections : Close(c) => P,
           \A c \in Connections : OnMessage(c) => P,
           Refresh \/ List \/ Answer \/ Apply => P
    PROVE  P
  BY Zenon DEF Next, Handler

LEMMA TypeOKInit == Init => TypeOK
  <1> SUFFICES ASSUME Init PROVE TypeOK
    OBVIOUS
  <1> USE DashboardAssumption DEF DashboardAssumption, Init
  <1>1. wire \in [Connections -> Seq(Messages)] /\ \A c \in Connections : Len(wire[c]) <= Room
    BY NoMessages
  <1> QED
    BY <1>1 DEF TypeOK

LEMMA TypeOKNext == TypeOK /\ Runs /\ Works /\ Next => TypeOK'
  <1> SUFFICES ASSUME TypeOK, Runs, Works, Next PROVE TypeOK'
    OBVIOUS
  <1> USE TypedFacts DEF Typed
  <1>0. Broadcasts = [by : Goroutines \cup {"remover"}, msg : Messages, to : SUBSET Connections]
    BY DEF Broadcasts
  <1>1. ASSUME NEW s \in Streams, AddStream(s) \/ RemoveStream(s) \/ RunEnds(s) \/ Stopped(s)
        PROVE  TypeOK'
    <2>1. /\ state' \in [Streams -> {"new", "here", "removing", "announcing", "gone"}]
          /\ version' \in [Streams -> 0..MaxVersion]
          /\ pc' \in [Goroutines -> {"idle", "start", "holding", "changed", "sending", "ended"}]
          /\ held' \in [Goroutines -> Streams \cup {"none"}]
      <3>1. CASE AddStream(s)
        <4>1. 1 \in 0..MaxVersion
          OBVIOUS
        <4>2. state' = [state EXCEPT ![s] = "here"] /\ version' = [version EXCEPT ![s] = 1]
          BY <3>1 DEF AddStream
        <4>3. pc' = [pc EXCEPT ![s] = "start"] /\ held' = [held EXCEPT ![s] = s]
          BY <3>1 DEF AddStream
        <4> QED
          BY <4>1, <4>2, <4>3
      <3>2. CASE RemoveStream(s)
        BY <3>2 DEF RemoveStream
      <3>3. CASE RunEnds(s)
        BY <3>3 DEF RunEnds
      <3>4. CASE Stopped(s)
        BY <3>4 DEF Stopped
      <3> QED
        BY <1>1, <3>1, <3>2, <3>3, <3>4
    <2>2. UNCHANGED <<server, page, open, wire, stale>>
      BY <1>1 DEF AddStream, RemoveStream, RunEnds, Stopped
    <2> QED
      BY <2>1, <2>2 DEF TypeOK, server, page
  <1>2. ASSUME NEW s \in Streams, BroadcastRemove(s) PROVE TypeOK'
    <2>1. <<"missed", s>> \in Causes \X Streams
      BY DEF Causes
    <2>2. stale' \subseteq Causes \X Streams
      BY <1>2, <2>1, RemoveEffect DEF TypeOK
    <2>3. sending' \in Broadcasts /\ UNCHANGED <<version, pc, held, clients, at, todo, hand, open, wire>>
          /\ UNCHANGED page
          /\ state' \in [Streams -> {"new", "here", "removing", "announcing", "gone"}]
      BY <1>2, RemoveEffect
    <2> QED
      BY <1>0, <2>2, <2>3 DEF TypeOK, page
  <1>3. ASSUME NEW w \in Workers, NEW s \in Streams, GetStream(w, s) PROVE TypeOK'
    BY <1>3 DEF GetStream, TypeOK, server, page
  <1>4. ASSUME NEW w \in Workers, LetGo(w) PROVE TypeOK'
    BY <1>4 DEF LetGo, TypeOK, server, page
  <1>5. ASSUME NEW g \in Goroutines, Change(g) PROVE TypeOK'
    <2>1. /\ version' \in [Streams -> 0..MaxVersion]
          /\ pc' \in [Goroutines -> {"idle", "start", "holding", "changed", "sending", "ended"}]
          /\ UNCHANGED <<state, held, server, page, open, wire, stale>>
      BY <1>5, ChangeEffect
    <2> QED
      BY <2>1 DEF TypeOK, server, page
  <1>6. ASSUME NEW g \in Goroutines, Broadcast(g) PROVE TypeOK'
    <2>1. <<"late", held[g]>> \in Causes \X Streams
      BY <1>6, BroadcastEffect DEF Causes
    <2>2. stale' = stale \/ stale' = stale \cup {<<"late", held[g]>>}
      BY <1>6, BroadcastEffect
    <2>3. /\ sending' \in Broadcasts
          /\ pc' \in [Goroutines -> {"idle", "start", "holding", "changed", "sending", "ended"}]
          /\ UNCHANGED <<state, version, held, clients, at, todo, hand, page, open, wire>>
      BY <1>6, BroadcastEffect
    <2>4. stale' \subseteq Causes \X Streams
      BY <2>1, <2>2 DEF TypeOK
    <2> QED
      BY <1>0, <2>3, <2>4 DEF TypeOK, page
  <1>7. ASSUME NEW c \in Connections, WriteTo(c) PROVE TypeOK'
    <2>1. /\ wire' \in [Connections -> Seq(Messages)]
          /\ \A d \in Connections : Len(wire'[d]) <= Room
      BY <1>7, WriteToEffect, WrittenEffect, BroadcastFacts
    <2>2. /\ sending' \in Broadcasts /\ clients' \subseteq clients /\ stale' \in SUBSET (Causes \X Streams)
          /\ UNCHANGED <<relay, at, todo, hand, page, open>>
      BY <1>7, WriteToEffect
    <2> QED
      BY <1>0, <2>1, <2>2 DEF TypeOK, relay, page
  <1>8. ASSUME Sent PROVE TypeOK'
    <2>1. /\ sending' = Nobody
          /\ pc' \in [Goroutines -> {"idle", "start", "holding", "changed", "sending", "ended"}]
          /\ held' \in [Goroutines -> Streams \cup {"none"}]
          /\ UNCHANGED <<state, version, clients, at, todo, hand, page, open, wire, stale>>
      BY <1>8, SentEffect
    <2> QED
      BY <2>1 DEF TypeOK, page
  <1>9. ASSUME NEW c \in Connections, Register(c) \/ ListStreams(c) \/ Receive(c) \/ Unregister(c)
        PROVE  TypeOK'
    <2>1. /\ clients' \subseteq Connections
          /\ at' \in [Connections -> {"unused", "opened", "listing", "snapshot", "receiving", "ended"}]
          /\ todo' \in [Connections -> SUBSET Streams]
      <3>1. CASE Register(c)
        BY <3>1 DEF Register
      <3>2. CASE ListStreams(c)
        <4>1. Here \in SUBSET Streams
          BY DEF Here
        <4> QED
          BY <3>2, <4>1 DEF ListStreams
      <3>3. CASE Receive(c)
        BY <3>3 DEF Receive
      <3>4. CASE Unregister(c)
        BY <3>4 DEF Unregister
      <3> QED
        BY <1>9, <3>1, <3>2, <3>3, <3>4
    <2>2. UNCHANGED <<relay, sending, hand, page, open, wire, stale>>
      BY <1>9 DEF Register, ListStreams, Receive, Unregister
    <2> QED
      BY <2>1, <2>2 DEF TypeOK, relay, page
  <1>10. ASSUME NEW c \in Connections, NEW s \in Streams, Marshal(c, s) PROVE TypeOK'
    <2>1. <<s, version[s]>> \in Messages
      BY MadeMessage
    <2> QED
      BY <1>10, <2>1 DEF Marshal, TypeOK, relay, page
  <1>11. ASSUME NEW c \in Connections, Write(c) PROVE TypeOK'
    <2>1. hand[c] \in Messages
      BY <1>11 DEF Write
    <2>2. /\ wire' \in [Connections -> Seq(Messages)]
          /\ \A d \in Connections : Len(wire'[d]) <= Room
      BY <1>11, <2>1, WrittenEffect DEF Write
    <2> QED
      BY <1>11, <2>2 DEF Write, TypeOK, relay, page
  <1>12. ASSUME NEW c \in Connections, ConnectWS(c) PROVE TypeOK'
    BY <1>12 DEF ConnectWS, TypeOK, relay
  <1>13. ASSUME NEW c \in Connections, Close(c) PROVE TypeOK'
    <2>1. /\ open' = open \ {c} /\ wire' \in [Connections -> Seq(Messages)]
          /\ \A d \in Connections : Len(wire'[d]) <= Room
          /\ stale' \in SUBSET (Causes \X Streams) /\ UNCHANGED <<relay, server, page>>
      BY <1>13, CloseEffect
    <2> QED
      BY <2>1 DEF TypeOK, relay, server, page
  <1>14. ASSUME NEW c \in Connections, OnMessage(c) PROVE TypeOK'
    <2>1. wire[c][1][1] \in Streams /\ <<"answer", wire[c][1][1]>> \in Causes \X Streams
      BY <1>14, OnMessageEffect DEF Causes
    <2>2. /\ stale' \subseteq stale \cup {<<"answer", wire[c][1][1]>>}
          /\ shown' \in [Streams -> 0..MaxVersion] /\ wire' \in [Connections -> Seq(Messages)]
          /\ \A d \in Connections : Len(wire'[d]) <= Room
          /\ UNCHANGED <<relay, server, current, asked, answer, open>>
      BY <1>14, OnMessageEffect
    <2>3. stale' \subseteq Causes \X Streams
      BY <2>1, <2>2 DEF TypeOK
    <2> QED
      BY <2>2, <2>3 DEF TypeOK, relay, server
  <1>15. ASSUME Refresh \/ List \/ Answer \/ Apply PROVE TypeOK'
    <2>1. /\ shown' \in [Streams -> 0..MaxVersion] /\ answer' \in [Streams -> 0..MaxVersion]
          /\ asked' \in {"no", "sent", "listed", "answered"}
      <3>1. CASE Refresh
        BY <3>1 DEF Refresh
      <3>2. CASE List
        <4>1. 0 \in 0..MaxVersion /\ 1 \in 0..MaxVersion
          OBVIOUS
        <4> QED
          BY <3>2, <4>1 DEF List
      <3>3. CASE Answer
        <4>1. 0 \in 0..MaxVersion
          OBVIOUS
        <4> QED
          BY <3>3, <4>1 DEF Answer
      <3>4. CASE Apply
        <4>1. 0 \in 0..MaxVersion
          OBVIOUS
        <4> QED
          BY <3>4, <4>1 DEF Apply
      <3> QED
        BY <1>15, <3>1, <3>2, <3>3, <3>4
    <2>2. UNCHANGED <<relay, server, current, open, wire, stale>>
      BY <1>15 DEF Refresh, List, Answer, Apply
    <2> QED
      BY <2>1, <2>2 DEF TypeOK, relay, server
  <1> DEFINE P == TypeOK'
  <1> HIDE DEF P
  <1> QED
    <2>1. P
      BY NextSteps, <1>1, <1>2, <1>3, <1>4, <1>5, <1>6, <1>7, <1>8, <1>9, <1>10, <1>11, <1>12,
         <1>13, <1>14, <1>15, Zenon DEF P
    <2> QED
      BY <2>1 DEF P

-----------------------------------------------------------------------------
(* Goroutines *)

LEMMA RunsNext == TypeOK /\ Runs /\ Works /\ Messaging /\ Next => Runs' /\ Works'
  <1> SUFFICES ASSUME TypeOK, Runs, Works, Messaging, Next PROVE Runs' /\ Works'
    OBVIOUS
  <1> USE TypedFacts DEF Typed
  <1>1. ASSUME NEW s \in Streams, AddStream(s) \/ RemoveStream(s) \/ RunEnds(s) \/ Stopped(s)
        PROVE  Runs' /\ Works'
    <2>1. CASE AddStream(s)
      <3>1. Runs'
        BY <2>1 DEF AddStream, Runs
      <3>2. Works'
        BY <2>1 DEF AddStream, Works
      <3> QED
        BY <3>1, <3>2
    <2>2. CASE RemoveStream(s)
      BY <2>2 DEF RemoveStream, Here, Runs, Works
    <2>3. CASE RunEnds(s)
      BY <2>3 DEF RunEnds, Runs, Works
    <2>4. CASE Stopped(s)
      BY <2>4 DEF Stopped, RunHasEnded, Runs, Works
    <2> QED
      BY <1>1, <2>1, <2>2, <2>3, <2>4
  <1>2. ASSUME NEW s \in Streams, BroadcastRemove(s) PROVE Runs' /\ Works'
    BY <1>2, RemoveEffect DEF Runs, Works
  <1>3. ASSUME NEW w \in Workers, NEW s \in Streams, GetStream(w, s) PROVE Runs' /\ Works'
    BY <1>3 DEF GetStream, Here, Runs, Works
  <1>4. ASSUME NEW w \in Workers, LetGo(w) PROVE Runs' /\ Works'
    BY <1>4 DEF LetGo, Runs, Works
  <1>5. ASSUME NEW g \in Goroutines, Change(g) PROVE Runs' /\ Works'
    <2>1. Runs'
      BY <1>5, ChangeEffect DEF Runs
    <2>2. Works'
      <3> SUFFICES ASSUME NEW w \in Workers
                   PROVE  /\ pc'[w] \in {"idle", "holding", "changed", "sending"}
                          /\ pc'[w] # "idle" => held'[w] \in Streams /\ state'[held'[w]] # "new"
        BY DEF Works
      <3>1. UNCHANGED <<state, held>> /\ pc'[g] = "changed" /\ held[g] \in Streams /\ state[held[g]] # "new"
        BY <1>5, ChangeEffect
      <3>2. CASE w = g
        BY <3>1, <3>2
      <3>3. CASE w # g
        <4>1. pc'[w] = pc[w]
          BY <1>5, <3>3, ChangeEffect
        <4> QED
          BY <3>1, <4>1 DEF Works
      <3> QED
        BY <3>2, <3>3
    <2> QED
      BY <2>1, <2>2
  <1>6. ASSUME NEW g \in Goroutines, Broadcast(g) PROVE Runs' /\ Works'
    BY <1>6, BroadcastEffect DEF Runs, Works
  <1>7. ASSUME NEW c \in Connections, WriteTo(c) PROVE Runs' /\ Works'
    BY <1>7, WriteToEffect DEF Runs, Works, relay
  <1>8. ASSUME Sent PROVE Runs' /\ Works'
    <2>1. sending.by \in Goroutines => pc[sending.by] = "sending"
      BY <1>8, SentEffect DEF Messaging
    <2> QED
      BY <1>8, <2>1, SentEffect DEF Runs, Works
  <1>9. ASSUME UNCHANGED relay PROVE Runs' /\ Works'
    BY <1>9 DEF Runs, Works, relay
  <1>10. /\ \A c \in Connections : Register(c) \/ ListStreams(c) \/ Receive(c) \/ Unregister(c) => UNCHANGED relay
         /\ \A c \in Connections, s \in Streams : Marshal(c, s) => UNCHANGED relay
         /\ \A c \in Connections : Write(c) \/ ConnectWS(c) \/ Close(c) \/ OnMessage(c) => UNCHANGED relay
         /\ Refresh \/ List \/ Answer \/ Apply => UNCHANGED relay
    BY Zenon DEF Register, ListStreams, Receive, Unregister, Marshal, Write, ConnectWS, Close, OnMessage,
       Refresh, List, Answer, Apply
  <1> DEFINE P == Runs' /\ Works'
  <1> HIDE DEF P
  <1>11. P
    BY NextSteps, <1>1, <1>2, <1>3, <1>4, <1>5, <1>6, <1>7, <1>8, <1>9, <1>10, Zenon DEF P
  <1> QED
    BY <1>11 DEF P

-----------------------------------------------------------------------------
(* Messages and connections *)

LEMMA MessagingNext == TypeOK /\ Runs /\ Works /\ Messaging /\ Connected /\ Next => Messaging'
  <1> SUFFICES ASSUME TypeOK, Runs, Works, Messaging, Connected, Next PROVE Messaging'
    OBVIOUS
  <1> USE TypedFacts DEF Typed
  <1> DEFINE
        Sends == sending # Nobody =>
                   LET s == sending.msg[1]
                   IN  /\ sending.by \in Goroutines => pc[sending.by] = "sending"
                       /\ state[s] # "new"
                       /\ sending.msg[2] = 0 => state[s] = "gone"
                       /\ sending.msg[2] # 0 => sending.msg[2] = version[s] \/ Changed(s)
        Holds(c) == /\ hand[c] # Nobody => hand[c][2] # 0
                    /\ \A s \in todo[c] : state[s] # "new"
                    /\ \A i \in DOMAIN wire[c] : wire[c][i][2] = 0 => state[wire[c][i][1]] = "gone"
  <1>0. /\ Messaging <=> Sends /\ \A c \in Connections : Holds(c)
        /\ Messaging' <=> Sends' /\ \A c \in Connections : Holds(c)'
    BY DEF Messaging
  <1> HIDE DEF Sends, Holds
  \* Streams that are added or go on are no less right for messages under way.
  <1>a. ASSUME UNCHANGED <<server, wire>>,
               \A s \in Streams : /\ state[s] # "new" => state'[s] # "new"
                                  /\ state[s] = "gone" => state'[s] = "gone"
                                  /\ version'[s] = version[s] \/ Changed(s)'
                                  /\ Changed(s) => Changed(s)',
               \A g \in Goroutines : pc[g] = "sending" => pc'[g] = "sending"
        PROVE  Messaging'
    <2>1. Sends'
      <3>1. sending # Nobody => sending.msg[1] \in Streams
        BY BroadcastFacts
      <3> QED
        BY <1>0, <1>a, <3>1 DEF Sends, server
    <2>2. ASSUME NEW c \in Connections PROVE Holds(c)'
      <3>1. \A i \in DOMAIN wire[c] : wire[c][i][1] \in Streams
        BY WireFacts
      <3>2. Holds(c)
        BY <1>0
      <3>3. UNCHANGED <<hand, todo, wire>> /\ todo[c] \subseteq Streams
        BY <1>a DEF server
      <3> QED
        BY <1>a, <3>1, <3>2, <3>3 DEF Holds
    <2> QED
      BY <1>0, <2>1, <2>2
  \* Steps of the server and the page change no stream.
  <1>b. ASSUME UNCHANGED relay, Sends', NEW c \in Connections, Holds(c)',
               \A d \in Connections \ {c} : /\ hand'[d] = hand[d] /\ todo'[d] = todo[d]
                                            /\ wire'[d] = wire[d]
        PROVE  Messaging'
    <2>1. ASSUME NEW d \in Connections, d # c PROVE Holds(d)'
      <3>1. hand'[d] = hand[d] /\ todo'[d] = todo[d] /\ wire'[d] = wire[d]
        BY <1>b, <2>1
      <3>2. Holds(d)
        BY <1>0
      <3> QED
        BY <1>b, <3>1, <3>2 DEF Holds, relay
    <2> QED
      BY <1>0, <1>b, <2>1
  <1>c. ASSUME UNCHANGED <<relay, sending>> PROVE Sends'
    <2>1. \A s : Changed(s)' <=> Changed(s)
      BY <1>c DEF Changed, relay
    <2> QED
      BY <1>0, <1>c, <2>1 DEF Sends, relay
  <1>1. ASSUME NEW s \in Streams, AddStream(s) \/ RemoveStream(s) \/ RunEnds(s) \/ Stopped(s)
        PROVE  Messaging'
    <2>1. CASE AddStream(s)
      <3>1. state[s] = "new" /\ pc[s] = "idle"
        BY <2>1 DEF AddStream, Runs
      <3>2. /\ state'[s] = "here" /\ \A t \in Streams \ {s} : state'[t] = state[t] /\ version'[t] = version[t]
            /\ \A g \in Goroutines \ {s} : pc'[g] = pc[g] /\ held'[g] = held[g]
            /\ UNCHANGED <<server, wire>>
        BY <2>1 DEF AddStream
      <3>3. \A t \in Streams : Changed(t) => Changed(t)'
        BY <3>1, <3>2 DEF Changed
      <3>4. Sends'
        <4>1. sending # Nobody => sending.msg[1] \in Streams \ {s}
          <5>1. sending # Nobody => sending.msg[1] \in Streams
            BY BroadcastFacts
          <5> QED
            BY <1>0, <3>1, <5>1 DEF Sends
        <4>2. sending # Nobody /\ sending.by \in Goroutines => sending.by # s
          BY <1>0, <3>1 DEF Sends
        <4> QED
          BY <1>0, <3>2, <3>3, <4>1, <4>2 DEF Sends, server
      <3>5. ASSUME NEW c \in Connections PROVE Holds(c)'
        <4>1. \A i \in DOMAIN wire[c] : wire[c][i][1] \in Streams
          BY WireFacts
        <4>2. Holds(c)
          BY <1>0
        <4>3. UNCHANGED <<hand, todo, wire>> /\ todo[c] \subseteq Streams
          BY <3>2 DEF server
        <4> QED
          BY <3>1, <3>2, <4>1, <4>2, <4>3 DEF Holds
      <3> QED
        BY <1>0, <3>4, <3>5
    <2>2. CASE RemoveStream(s)
      <3>1. /\ UNCHANGED <<server, wire, version, pc, held>>
            /\ state[s] = "here" /\ state'[s] = "removing"
            /\ \A t \in Streams \ {s} : state'[t] = state[t]
        BY <2>2 DEF RemoveStream, Here
      <3> QED
        BY <1>a, <3>1 DEF Changed
    <2>3. CASE RunEnds(s)
      <3>1. /\ UNCHANGED <<server, wire, state, version, held>>
            /\ pc[s] \in {"start", "idle"} /\ \A g \in Goroutines \ {s} : pc'[g] = pc[g]
        BY <2>3 DEF RunEnds
      <3>2. \A t : Changed(t) => Changed(t)'
        BY <3>1 DEF Changed
      <3> QED
        BY <1>a, <3>1, <3>2
    <2>4. CASE Stopped(s)
      <3>1. /\ UNCHANGED <<server, wire, version, pc, held>>
            /\ state[s] = "removing" /\ state'[s] = "announcing"
            /\ \A t \in Streams \ {s} : state'[t] = state[t]
        BY <2>4 DEF Stopped, RunHasEnded
      <3> QED
        BY <1>a, <3>1 DEF Changed
    <2> QED
      BY <1>1, <2>1, <2>2, <2>3, <2>4
  <1>2. ASSUME NEW s \in Streams, BroadcastRemove(s) PROVE Messaging'
    <2>1. Sends'
      BY <1>2, RemoveEffect DEF Sends
    <2>2. ASSUME NEW c \in Connections PROVE Holds(c)'
      <3>1. \A i \in DOMAIN wire[c] : wire[c][i][1] \in Streams
        BY WireFacts
      <3>2. Holds(c) /\ todo[c] \subseteq Streams
        BY <1>0
      <3>3. /\ state[s] = "announcing" /\ state'[s] = "gone"
            /\ \A t \in Streams \ {s} : state'[t] = state[t]
            /\ UNCHANGED <<todo, hand, wire>>
        BY <1>2, RemoveEffect
      <3> QED
        BY <3>1, <3>2, <3>3 DEF Holds
    <2> QED
      BY <1>0, <2>1, <2>2
  <1>3. ASSUME NEW w \in Workers, NEW s \in Streams, GetStream(w, s) PROVE Messaging'
    <2>1. /\ UNCHANGED <<server, wire, state, version>> /\ pc[w] = "idle" /\ w \in Goroutines
          /\ \A g \in Goroutines \ {w} : pc'[g] = pc[g] /\ held'[g] = held[g]
      BY <1>3 DEF GetStream
    <2>2. \A t : Changed(t) => Changed(t)'
      BY <2>1 DEF Changed
    <2> QED
      BY <1>a, <2>1, <2>2
  <1>4. ASSUME NEW w \in Workers, LetGo(w) PROVE Messaging'
    <2>1. /\ UNCHANGED <<server, wire, state, version>> /\ pc[w] = "holding" /\ w \in Goroutines
          /\ \A g \in Goroutines \ {w} : pc'[g] = pc[g] /\ held'[g] = held[g]
      BY <1>4 DEF LetGo
    <2>2. \A t : Changed(t) => Changed(t)'
      BY <2>1 DEF Changed
    <2> QED
      BY <1>a, <2>1, <2>2
  <1>5. ASSUME NEW g \in Goroutines, Change(g) PROVE Messaging'
    <2>1. /\ held[g] \in Streams /\ pc[g] \in {"start", "holding", "idle"} /\ pc'[g] = "changed"
          /\ \A h \in Goroutines \ {g} : pc'[h] = pc[h]
          /\ \A s \in Streams \ {held[g]} : version'[s] = version[s]
          /\ UNCHANGED <<state, held, server, wire>>
      BY <1>5, ChangeEffect
    <2>2. Changed(held[g])' /\ \A t : Changed(t) => Changed(t)'
      BY <2>1 DEF Changed
    <2> QED
      BY <1>a, <2>1, <2>2
  <1>6. ASSUME NEW g \in Goroutines, Broadcast(g) PROVE Messaging'
    <2>1. /\ held[g] \in Streams /\ state[held[g]] # "new" /\ version[held[g]] # 0
          /\ pc'[g] = "sending" /\ sending'.by = g
          /\ sending'.msg[1] = held[g] /\ sending'.msg[2] = version[held[g]]
          /\ UNCHANGED <<state, version, todo, hand, wire>>
      BY <1>6, BroadcastEffect DEF Runs
    <2>2. Sends'
      BY <2>1 DEF Sends
    <2>3. \A c \in Connections : Holds(c)'
      BY <1>0, <2>1 DEF Holds
    <2> QED
      BY <1>0, <2>2, <2>3
  <1>7. ASSUME NEW c \in Connections, WriteTo(c) PROVE Messaging'
    <2>1. /\ sending # Nobody /\ sending \in Broadcasts
          /\ sending'.by = sending.by /\ sending'.msg = sending.msg
          /\ UNCHANGED <<relay, todo, hand>>
      BY <1>7, WriteToEffect
    <2>2. Sends'
      <3>1. \A s : Changed(s)' <=> Changed(s)
        BY <2>1 DEF Changed, relay
      <3> QED
        BY <1>0, <2>1, <3>1 DEF Sends, relay
    <2>3. /\ \A d \in Connections \ {c} : wire'[d] = wire[d]
          /\ wire'[c] = wire[c] \/ wire'[c] = Append(wire[c], sending.msg)
      BY <1>7, WriteToEffect, WrittenEffect, BroadcastFacts
    <2>4. Holds(c)'
      <3>1. Holds(c)
        BY <1>0
      <3>2. CASE wire'[c] = wire[c]
        BY <2>1, <3>1, <3>2 DEF Holds, relay
      <3>3. CASE wire'[c] = Append(wire[c], sending.msg)
        <4>1. /\ DOMAIN wire'[c] = 1..(Len(wire[c]) + 1) /\ wire'[c][Len(wire[c]) + 1] = sending.msg
              /\ \A i \in DOMAIN wire[c] : wire'[c][i] = wire[c][i]
              /\ DOMAIN wire[c] = 1..Len(wire[c]) /\ Len(wire[c]) \in Nat
          BY <2>1, <3>3, AppendFacts, WireFacts, BroadcastFacts
        <4>2. sending.msg[2] = 0 => state[sending.msg[1]] = "gone"
          BY <1>0, <2>1 DEF Sends
        <4>3. \A i \in DOMAIN wire'[c] : i \in DOMAIN wire[c] \/ i = Len(wire[c]) + 1
          BY <4>1
        <4>4. \A i \in DOMAIN wire'[c] : wire'[c][i][2] = 0 => state[wire'[c][i][1]] = "gone"
          BY <3>1, <4>1, <4>2, <4>3 DEF Holds
        <4> QED
          BY <2>1, <3>1, <4>4 DEF Holds, relay
      <3> QED
        BY <2>3, <3>2, <3>3
    <2> QED
      BY <1>b, <2>1, <2>2, <2>3, <2>4
  <1>8. ASSUME Sent PROVE Messaging'
    <2>1. sending' = Nobody /\ UNCHANGED <<state, todo, hand, wire>>
      BY <1>8, SentEffect
    <2> QED
      BY <1>0, <2>1 DEF Sends, Holds
  <1>9. ASSUME NEW c \in Connections, Register(c) \/ ListStreams(c) \/ Receive(c) \/ Unregister(c)
        PROVE  Messaging'
    <2>1. /\ UNCHANGED <<relay, sending, hand, wire>>
          /\ \A d \in Connections \ {c} : todo'[d] = todo[d]
          /\ todo'[c] = todo[c] \/ todo'[c] = Here
      BY <1>9 DEF Register, ListStreams, Receive, Unregister
    <2>2. Holds(c)
      BY <1>0
    <2>3. Holds(c)'
      BY <2>1, <2>2 DEF Holds, Here, relay
    <2> QED
      BY <1>b, <1>c, <2>1, <2>3
  <1>10. ASSUME NEW c \in Connections, NEW s \in Streams, Marshal(c, s) PROVE Messaging'
    <2>1. /\ UNCHANGED <<relay, sending, wire>> /\ s \in todo[c] /\ todo'[c] = todo[c] \ {s}
          /\ hand'[c] = <<s, version[s]>>
          /\ \A d \in Connections \ {c} : todo'[d] = todo[d] /\ hand'[d] = hand[d]
      BY <1>10 DEF Marshal
    <2>2. Holds(c)
      BY <1>0
    <2>3. hand'[c][2] # 0
      <3>1. version[s] # 0
        BY <2>1, <2>2 DEF Holds, Runs
      <3> QED
        BY <2>1, <3>1
    <2>4. Holds(c)'
      BY <2>1, <2>2, <2>3 DEF Holds, relay
    <2> QED
      BY <1>b, <1>c, <2>1, <2>4
  <1>11. ASSUME NEW c \in Connections, Write(c) PROVE Messaging'
    <2>1. /\ UNCHANGED <<relay, sending, todo>> /\ hand[c] # Nobody /\ hand'[c] = Nobody
          /\ hand[c] \in Messages
          /\ \A d \in Connections \ {c} : hand'[d] = hand[d]
          /\ HasRoom(c) /\ Written(c, hand[c])
      BY <1>11 DEF Write
    <2>2. /\ \A d \in Connections \ {c} : wire'[d] = wire[d]
          /\ wire'[c] = wire[c] \/ wire'[c] = Append(wire[c], hand[c])
      BY <2>1, WrittenEffect
    <2>3. Holds(c)
      BY <1>0
    <2>4. Holds(c)'
      <3>1. CASE wire'[c] = wire[c]
        BY <2>1, <2>3, <3>1 DEF Holds, relay
      <3>2. CASE wire'[c] = Append(wire[c], hand[c])
        <4>1. /\ DOMAIN wire'[c] = 1..(Len(wire[c]) + 1) /\ wire'[c][Len(wire[c]) + 1] = hand[c]
              /\ \A i \in DOMAIN wire[c] : wire'[c][i] = wire[c][i]
              /\ DOMAIN wire[c] = 1..Len(wire[c]) /\ Len(wire[c]) \in Nat
          BY <2>1, <3>2, AppendFacts, WireFacts
        <4>2. \A i \in DOMAIN wire'[c] : i \in DOMAIN wire[c] \/ i = Len(wire[c]) + 1
          BY <4>1
        <4>3. \A i \in DOMAIN wire'[c] : wire'[c][i][2] = 0 => state[wire'[c][i][1]] = "gone"
          BY <2>1, <2>3, <4>1, <4>2 DEF Holds
        <4> QED
          BY <2>1, <2>3, <4>3 DEF Holds, relay
      <3> QED
        BY <2>2, <3>1, <3>2
    <2> QED
      BY <1>b, <1>c, <2>1, <2>2, <2>4
  <1>12. ASSUME NEW c \in Connections, ConnectWS(c) PROVE Messaging'
    <2>1. UNCHANGED <<relay, sending, todo, hand, wire>>
      BY <1>12 DEF ConnectWS
    <2>2. Holds(c)'
      BY <1>0, <2>1 DEF Holds, relay
    <2> QED
      BY <1>b, <1>c, <2>1, <2>2
  <1>13. ASSUME NEW c \in Connections, Close(c) PROVE Messaging'
    <2>1. /\ UNCHANGED <<relay, sending, todo, hand>> /\ wire'[c] = <<>>
          /\ \A d \in Connections \ {c} : wire'[d] = wire[d]
      BY <1>13, CloseEffect DEF server
    <2>2. Holds(c)'
      BY <1>0, <2>1, NoMessages DEF Holds, relay
    <2> QED
      BY <1>b, <1>c, <2>1, <2>2
  <1>14. ASSUME NEW c \in Connections, OnMessage(c) PROVE Messaging'
    <2>1. /\ UNCHANGED <<relay, sending, todo, hand>> /\ wire'[c] = Tail(wire[c]) /\ wire[c] # <<>>
          /\ \A d \in Connections \ {c} : wire'[d] = wire[d]
      BY <1>14, OnMessageEffect DEF server
    <2>2. \A i \in DOMAIN wire'[c] : i + 1 \in DOMAIN wire[c] /\ wire'[c][i] = wire[c][i + 1]
      BY <2>1, TailFacts, WireFacts
    <2>3. Holds(c)
      BY <1>0
    <2>4. Holds(c)'
      BY <2>1, <2>2, <2>3 DEF Holds, relay
    <2> QED
      BY <1>b, <1>c, <2>1, <2>4
  <1>15. ASSUME Refresh \/ List \/ Answer \/ Apply PROVE Messaging'
    <2>1. UNCHANGED <<relay, server, wire>>
      BY <1>15 DEF Refresh, List, Answer, Apply
    <2>2. Sends'
      BY <1>c, <2>1 DEF server
    <2>3. \A c \in Connections : Holds(c)'
      BY <1>0, <2>1 DEF Holds, relay, server
    <2> QED
      BY <1>0, <2>2, <2>3
  <1> DEFINE P == Messaging'
  <1> HIDE DEF P
  <1>16. P
    BY NextSteps, <1>1, <1>2, <1>3, <1>4, <1>5, <1>6, <1>7, <1>8, <1>9, <1>10, <1>11, <1>12,
       <1>13, <1>14, <1>15, Zenon DEF P
  <1> QED
    BY <1>16 DEF P

\* Registering, listing, writing and closing keep to their order.
LEMMA ConnectedNext == TypeOK /\ Runs /\ Works /\ Messaging /\ Connected /\ Next => Connected'
  <1> SUFFICES ASSUME TypeOK, Runs, Works, Messaging, Connected, Next PROVE Connected'
    OBVIOUS
  <1> USE TypedFacts DEF Typed
  <1> DEFINE
        One == /\ open \subseteq {current}
               /\ current = 0 => asked = "no" /\ \A s \in Streams : shown[s] = 0
        Phase(c) == /\ c \notin open => wire[c] = <<>>
                    /\ c \in open => at[c] # "unused" /\ (at[c] # "opened" => c \in clients)
                    /\ at[c] \in {"unused", "opened"} =>
                         c \notin clients /\ wire[c] = <<>> /\ (sending # Nobody => c \notin sending.to)
                    /\ at[c] # "snapshot" => todo[c] = {} /\ hand[c] = Nobody
  <1>0. /\ Connected <=> One /\ \A c \in Connections : Phase(c)
        /\ Connected' <=> One' /\ \A c \in Connections : Phase(c)'
    BY DEF Connected
  <1> HIDE DEF One, Phase
  <1>a. ASSUME UNCHANGED <<page, open>> PROVE One'
    BY <1>0, <1>a DEF One, page
  <1>b. ASSUME UNCHANGED <<server, page, open, wire>> PROVE Connected'
    BY <1>0, <1>a, <1>b DEF Phase, server
  \* A connection the step is not about.
  <1>c. ASSUME NEW d \in Connections, UNCHANGED sending, d \in clients' <=> d \in clients,
               d \in open' <=> d \in open, UNCHANGED <<at[d], todo[d], hand[d], wire[d]>>
        PROVE  Phase(d)'
    BY <1>0, <1>c DEF Phase
  <1>1. ASSUME NEW s \in Streams, AddStream(s) \/ RemoveStream(s) \/ RunEnds(s) \/ Stopped(s)
        PROVE  Connected'
    BY <1>1, <1>b DEF AddStream, RemoveStream, RunEnds, Stopped
  <1>2. ASSUME NEW s \in Streams, BroadcastRemove(s) PROVE Connected'
    <2>1. UNCHANGED <<clients, at, todo, hand, page, open, wire>> /\ sending'.to = clients
      BY <1>2, RemoveEffect
    <2> QED
      BY <1>0, <1>a, <2>1 DEF Phase
  <1>3. ASSUME NEW w \in Workers, NEW s \in Streams, GetStream(w, s) PROVE Connected'
    BY <1>3, <1>b DEF GetStream
  <1>4. ASSUME NEW w \in Workers, LetGo(w) PROVE Connected'
    BY <1>4, <1>b DEF LetGo
  <1>5. ASSUME NEW g \in Goroutines, Change(g) PROVE Connected'
    BY <1>5, <1>b, ChangeEffect
  <1>6. ASSUME NEW g \in Goroutines, Broadcast(g) PROVE Connected'
    <2>1. UNCHANGED <<clients, at, todo, hand, page, open, wire>> /\ sending'.to = clients
      BY <1>6, BroadcastEffect
    <2> QED
      BY <1>0, <1>a, <2>1 DEF Phase
  <1>7. ASSUME NEW c \in Connections, WriteTo(c) PROVE Connected'
    <2>1. /\ sending # Nobody /\ c \in sending.to /\ sending'.to = sending.to \ {c}
          /\ clients' \subseteq clients /\ clients \subseteq clients' \cup {c}
          /\ c \in open => clients' = clients
          /\ UNCHANGED <<at, todo, hand, page, open>>
      BY <1>7, WriteToEffect
    <2>2. /\ \A d \in Connections \ {c} : wire'[d] = wire[d]
          /\ c \notin open => wire'[c] = wire[c]
      BY <1>7, WriteToEffect, WrittenEffect, BroadcastFacts
    <2>3. Phase(c)'
      BY <1>0, <2>1, <2>2 DEF Phase
    <2>4. ASSUME NEW d \in Connections, d # c PROVE Phase(d)'
      <3>1. (d \in clients' <=> d \in clients) /\ wire'[d] = wire[d]
        BY <2>1, <2>2, <2>4
      <3>2. d \in sending'.to <=> d \in sending.to
        BY <2>1, <2>4
      <3>3. Phase(d)
        BY <1>0
      <3> QED
        BY <2>1, <3>1, <3>2, <3>3 DEF Phase
    <2> QED
      BY <1>0, <1>a, <2>1, <2>3, <2>4
  <1>8. ASSUME Sent PROVE Connected'
    <2>1. sending' = Nobody /\ UNCHANGED <<clients, at, todo, hand, page, open, wire>>
      BY <1>8, SentEffect
    <2> QED
      BY <1>0, <1>a, <2>1 DEF Phase
  <1>9. ASSUME NEW c \in Connections, Register(c) \/ ListStreams(c) \/ Receive(c) \/ Unregister(c)
        PROVE  Connected'
    <2>1. UNCHANGED <<sending, hand, page, open, wire>>
      BY <1>9 DEF Register, ListStreams, Receive, Unregister
    <2>2. Phase(c)'
      <3>1. CASE Register(c)
        BY <1>0, <3>1 DEF Register, Phase
      <3>2. CASE ListStreams(c)
        BY <1>0, <3>2 DEF ListStreams, Phase
      <3>3. CASE Receive(c)
        BY <1>0, <3>3 DEF Receive, Phase
      <3>4. CASE Unregister(c)
        BY <1>0, <3>4 DEF Unregister, Phase
      <3> QED
        BY <1>9, <3>1, <3>2, <3>3, <3>4
    <2>3. \A d \in Connections \ {c} : /\ d \in clients' <=> d \in clients
                                       /\ UNCHANGED <<at[d], todo[d]>>
      BY <1>9 DEF Register, ListStreams, Receive, Unregister
    <2> QED
      BY <1>0, <1>a, <1>c, <2>1, <2>2, <2>3
  <1>10. ASSUME NEW c \in Connections, NEW s \in Streams, Marshal(c, s) PROVE Connected'
    <2>1. UNCHANGED <<sending, clients, at, page, open, wire>> /\ at[c] = "snapshot"
      BY <1>10 DEF Marshal
    <2>2. Phase(c)'
      BY <1>0, <2>1 DEF Phase
    <2>3. \A d \in Connections \ {c} : UNCHANGED <<todo[d], hand[d]>>
      BY <1>10 DEF Marshal
    <2> QED
      BY <1>0, <1>a, <1>c, <2>1, <2>2, <2>3
  <1>11. ASSUME NEW c \in Connections, Write(c) PROVE Connected'
    <2>1. /\ UNCHANGED <<sending, clients, at, todo, page, open>> /\ hand[c] # Nobody /\ hand'[c] = Nobody
          /\ \A d \in Connections \ {c} : hand'[d] = hand[d]
          /\ hand[c] \in Messages /\ HasRoom(c) /\ Written(c, hand[c])
      BY <1>11 DEF Write
    <2>2. /\ \A d \in Connections \ {c} : wire'[d] = wire[d]
          /\ c \notin open => wire'[c] = wire[c]
      BY <2>1, WrittenEffect
    <2>3. Phase(c)'
      BY <1>0, <2>1, <2>2 DEF Phase
    <2> QED
      BY <1>0, <1>a, <1>c, <2>1, <2>2, <2>3
  <1>12. ASSUME NEW c \in Connections, ConnectWS(c) PROVE Connected'
    <2>1. /\ at[c] = "unused" /\ c = current + 1 /\ current \notin open
          /\ current' = c /\ open' = open \cup {c} /\ at'[c] = "opened"
          /\ \A d \in Connections \ {c} : at'[d] = at[d]
          /\ UNCHANGED <<sending, clients, todo, hand, wire>>
      BY <1>12 DEF ConnectWS
    <2>2. One'
      BY <1>0, <2>1 DEF One
    <2>3. Phase(c)'
      BY <1>0, <2>1 DEF Phase
    <2>4. \A d \in Connections \ {c} : d \in open' <=> d \in open
      BY <2>1
    <2> QED
      BY <1>0, <1>c, <2>1, <2>2, <2>3, <2>4
  <1>13. ASSUME NEW c \in Connections, Close(c) PROVE Connected'
    <2>1. /\ c \in open /\ open' = open \ {c} /\ wire'[c] = <<>>
          /\ \A d \in Connections \ {c} : wire'[d] = wire[d]
          /\ UNCHANGED <<server, page>>
      BY <1>13, CloseEffect
    <2>2. One'
      BY <1>0, <2>1 DEF One, page
    <2>3. Phase(c)'
      BY <1>0, <2>1 DEF Phase, server
    <2>4. \A d \in Connections \ {c} : d \in open' <=> d \in open
      BY <2>1
    <2> QED
      BY <1>0, <1>c, <2>1, <2>2, <2>3, <2>4 DEF server
  <1>14. ASSUME NEW c \in Connections, OnMessage(c) PROVE Connected'
    <2>1. /\ wire[c] # <<>> /\ UNCHANGED <<server, current, asked, open>>
          /\ \A d \in Connections \ {c} : wire'[d] = wire[d]
      BY <1>14, OnMessageEffect
    <2>2. c \in open /\ current = c
      BY <1>0, <2>1 DEF One, Phase
    <2>3. One'
      BY <1>0, <2>1, <2>2 DEF One
    <2>4. Phase(c)'
      BY <1>0, <2>1, <2>2 DEF Phase, server
    <2> QED
      BY <1>0, <1>c, <2>1, <2>3, <2>4 DEF server
  <1>15. ASSUME Refresh \/ List \/ Answer \/ Apply PROVE Connected'
    <2>1. UNCHANGED <<server, current, open, wire>> /\ current # 0
      BY <1>0, <1>15 DEF Refresh, List, Answer, Apply, One
    <2>2. One'
      BY <1>0, <2>1 DEF One
    <2> QED
      BY <1>0, <1>c, <2>1, <2>2 DEF server
  <1> DEFINE P == Connected'
  <1> HIDE DEF P
  <1>16. P
    BY NextSteps, <1>1, <1>2, <1>3, <1>4, <1>5, <1>6, <1>7, <1>8, <1>9, <1>10, <1>11, <1>12,
       <1>13, <1>14, <1>15, Zenon DEF P
  <1> QED
    BY <1>16 DEF P

-----------------------------------------------------------------------------
(* What is on its way *)

\* The messages about s that a sequence ends with, when one more is written and
\* when the oldest is taken.
LEMMA LastAppended ==
    ASSUME NEW q \in Seq(Messages), NEW m \in Messages, NEW s \in Streams, NEW v
    PROVE  LET p == Append(q, m)
           IN  /\ (\E i \in DOMAIN p : p[i][1] = s) <=> m[1] = s \/ \E i \in DOMAIN q : q[i][1] = s
               /\ LastIs(p, s, v) <=> IF m[1] = s THEN m[2] = v ELSE LastIs(q, s, v)
  <1> DEFINE p == Append(q, m)
             n == Len(q) + 1
  <1>1. /\ DOMAIN p = 1..n /\ p[n] = m /\ \A i \in DOMAIN q : p[i] = q[i]
        /\ DOMAIN q = 1..Len(q) /\ Len(q) \in Nat
    BY AppendFacts, WireFacts
  <1>2. m = <<m[1], m[2]>> /\ \A i \in DOMAIN q : q[i] = <<q[i][1], q[i][2]>>
    BY MessageFacts, WireFacts
  <1> HIDE DEF p
  <1>3. /\ n \in DOMAIN p /\ DOMAIN q \subseteq DOMAIN p
        /\ \A i \in DOMAIN p : i # n => i \in DOMAIN q
        /\ \A i \in DOMAIN q : n > i /\ i # n
    BY <1>1
  <1>4. \A i, j \in DOMAIN p : i # n /\ j > i => j \in DOMAIN q \/ j = n
    BY <1>3
  <1>5. ~\E j \in DOMAIN p : j > n
    BY <1>1
  <1> HIDE DEF n
  <1>6. (\E i \in DOMAIN p : p[i][1] = s) <=> m[1] = s \/ \E i \in DOMAIN q : q[i][1] = s
    BY <1>1, <1>3
  <1>7. CASE m[1] = s
    <2>1. m[2] = v => LastIs(p, s, v)
      BY <1>1, <1>2, <1>3, <1>5, <1>7 DEF LastIs
    <2>2. ASSUME LastIs(p, s, v) PROVE m[2] = v
      <3>1. PICK i \in DOMAIN p : p[i] = <<s, v>> /\ \A j \in DOMAIN p : j > i => p[j][1] # s
        BY <2>2 DEF LastIs
      <3>2. i = n
        BY <1>1, <1>3, <1>7, <3>1
      <3> QED
        BY <1>1, <3>1, <3>2
    <2> QED
      BY <1>6, <1>7, <2>1, <2>2 DEF p
  <1>8. CASE m[1] # s
    <2>1. ASSUME LastIs(p, s, v) PROVE LastIs(q, s, v)
      <3>1. PICK i \in DOMAIN p : p[i] = <<s, v>> /\ \A j \in DOMAIN p : j > i => p[j][1] # s
        BY <2>1 DEF LastIs
      <3>2. i # n
        BY <1>1, <1>8, <3>1
      <3> QED
        BY <1>1, <1>3, <3>1, <3>2 DEF LastIs
    <2>2. ASSUME LastIs(q, s, v) PROVE LastIs(p, s, v)
      <3>1. PICK i \in DOMAIN q : q[i] = <<s, v>> /\ \A j \in DOMAIN q : j > i => q[j][1] # s
        BY <2>2 DEF LastIs
      <3>2. \A j \in DOMAIN p : j > i => p[j][1] # s
        BY <1>1, <1>3, <1>8, <3>1
      <3> QED
        BY <1>1, <1>3, <3>1, <3>2 DEF LastIs
    <2> QED
      BY <1>6, <1>8, <2>1, <2>2 DEF p
  <1> QED
    BY <1>7, <1>8

LEMMA LastTaken ==
    ASSUME NEW q \in Seq(Messages), q # <<>>, NEW s \in Streams, NEW v
    PROVE  LET p == Tail(q)
               more == \E i \in DOMAIN p : p[i][1] = s
           IN  /\ (\E i \in DOMAIN q : q[i][1] = s) <=> q[1][1] = s \/ more
               /\ LastIs(q, s, v) <=> IF more THEN LastIs(p, s, v) ELSE q[1] = <<s, v>>
  <1> DEFINE p == Tail(q)
             more == \E i \in DOMAIN p : p[i][1] = s
  <1>1. /\ DOMAIN p = 1..(Len(q) - 1) /\ \A i \in DOMAIN p : p[i] = q[i + 1]
        /\ DOMAIN q = 1..Len(q) /\ Len(q) \in Nat /\ 1 \in DOMAIN q
    BY TailFacts, WireFacts
  <1> HIDE DEF p
  <1>2. /\ \A i \in DOMAIN p : i + 1 \in DOMAIN q /\ p[i] = q[i + 1] /\ i + 1 > 1
        /\ \A j \in DOMAIN q : j # 1 => j - 1 \in DOMAIN p /\ q[j] = p[j - 1] /\ j > 1
        /\ \A i, j \in DOMAIN p : j > i <=> j + 1 > i + 1
        /\ \A i, j \in DOMAIN q : j > i <=> j - 1 > i - 1
    BY <1>1
  <1>3. (\E i \in DOMAIN q : q[i][1] = s) <=> q[1][1] = s \/ more
    BY <1>1, <1>2
  <1>4. ASSUME more, LastIs(q, s, v) PROVE LastIs(p, s, v)
    <2>1. PICK i \in DOMAIN q : q[i] = <<s, v>> /\ \A j \in DOMAIN q : j > i => q[j][1] # s
      BY <1>4 DEF LastIs
    <2>2. i # 1
      BY <1>2, <1>4, <2>1
    <2>3. i - 1 \in DOMAIN p /\ p[i - 1] = <<s, v>>
      BY <1>2, <2>1, <2>2
    <2>4. \A j \in DOMAIN p : j > i - 1 => p[j][1] # s
      BY <1>1, <1>2, <2>1
    <2> QED
      BY <2>3, <2>4 DEF LastIs
  <1>5. ASSUME LastIs(p, s, v) PROVE LastIs(q, s, v)
    <2>1. PICK i \in DOMAIN p : p[i] = <<s, v>> /\ \A j \in DOMAIN p : j > i => p[j][1] # s
      BY <1>5 DEF LastIs
    <2>2. i + 1 \in DOMAIN q /\ q[i + 1] = <<s, v>>
      BY <1>2, <2>1
    <2>3. ASSUME NEW j \in DOMAIN q, j > i + 1 PROVE q[j][1] # s
      <3>1. j - 1 \in DOMAIN p /\ j - 1 > i /\ q[j] = p[j - 1]
        BY <1>1, <1>2, <2>3
      <3> QED
        BY <2>1, <3>1
    <2> QED
      BY <2>2, <2>3 DEF LastIs
  <1>6. ASSUME ~more PROVE LastIs(q, s, v) <=> q[1] = <<s, v>>
    <2>1. \A j \in DOMAIN q : j > 1 => q[j][1] # s
      BY <1>1, <1>2, <1>6
    <2>2. \A j \in DOMAIN q : q[j] = <<s, v>> => q[j][1] = s
      OBVIOUS
    <2>3. \A j \in DOMAIN q : j = 1 \/ j > 1
      BY <1>2
    <2>4. LastIs(q, s, v) => q[1] = <<s, v>>
      BY <2>1, <2>2, <2>3 DEF LastIs
    <2>5. q[1] = <<s, v>> => LastIs(q, s, v)
      BY <1>1, <2>1 DEF LastIs
    <2> QED
      BY <2>4, <2>5
  <1> QED
    BY <1>3, <1>4, <1>5, <1>6 DEF p

\* A step after which the page will show of s what it would have shown before.
LEMMA StaysRight ==
    ASSUME NEW s \in Streams, Right(s), UNCHANGED <<state[s], version[s], open, current>>,
           stale \subseteq stale',
           \A v : WillShow(s, v) => WillShow(s, v)' \/ ~Fresh(s)',
           current \in open /\ Pending(s) => Pending(s)' \/ WillShow(s, version[s])',
           WillBeMissed(s) => WillBeMissed(s)' \/ ~Fresh(s)',
           current \in open /\ s \in todo'[current] /\ Fresh(s)' /\ state[s] = "gone" =>
               InBroadcast(s)' \/ (s \in todo[current] /\ ~InBroadcast(s)),
           Coming(s) => Coming(s)' \/ <<"answer", s>> \in stale',
           current \in open /\ Pending(s) => Pending(s)' \/ Coming(s)'
    PROVE  Right(s)'
  <1>1. Fresh(s)' => Fresh(s)
    BY DEF Fresh
  <1>2. HereIsRight(s)'
    BY <1>1 DEF Right, HereIsRight
  <1>3. GoneIsRight(s)'
    BY <1>1 DEF Right, GoneIsRight
  <1>4. HereIsShown(s)'
    BY DEF Right, HereIsShown
  <1> QED
    BY <1>2, <1>3, <1>4 DEF Right

\* A step that leaves what is on its way alone.
LEMMA SameOnTheWay ==
    ASSUME NEW s \in Streams, UNCHANGED <<open, current>>,
           InBroadcast(s)' <=> InBroadcast(s), InBroadcast(s) => sending'.msg = sending.msg,
           UNCHANGED <<hand[current], wire[current], Base(s)>>
    PROVE  /\ \A v : WillShow(s, v)' <=> WillShow(s, v)
           /\ Coming(s)' <=> Coming(s)
  <1>1. (InHand(s)' <=> InHand(s)) /\ (InWire(s)' <=> InWire(s))
    BY DEF InHand, InWire
  <1>2. ASSUME NEW v PROVE WillShow(s, v)' <=> WillShow(s, v)
    <2>1. LastIs(wire[current], s, v)' <=> LastIs(wire[current], s, v)
      BY DEF LastIs
    <2> QED
      BY <1>1, <2>1 DEF WillShow
  <1>3. Coming(s)' <=> Coming(s)
    BY <1>1 DEF Coming
  <1> QED
    BY <1>2, <1>3

-----------------------------------------------------------------------------
(* Every step keeps what will be shown right *)

\* Steps of the goroutines: whoever changes a stream is about to report it.
OnlyRelay == UNCHANGED <<server, page, open, wire, stale>>

LEMMA RelayStepRight ==
    ASSUME NEW s \in Streams, Right(s), OnlyRelay,
           state'[s] = "here" =>
               Reporting(s)' \/ (state[s] = "here" /\ version'[s] = version[s] /\ ~Reporting(s)),
           state'[s] = "gone" => state[s] = "gone" /\ version[s] # 0 /\ version'[s] # 0
    PROVE  Right(s)'
  <1>1. /\ InBroadcast(s)' <=> InBroadcast(s)
        /\ InHand(s)' <=> InHand(s)
        /\ InWire(s)' <=> InWire(s)
        /\ \A v : LastIs(wire[current], s, v)' <=> LastIs(wire[current], s, v)
        /\ Fresh(s)' <=> Fresh(s)
        /\ WillBeMissed(s)' <=> WillBeMissed(s)
    BY DEF InBroadcast, InHand, InWire, LastIs, Fresh, WillBeMissed, OnlyRelay, server, page
  <1>2. UNCHANGED <<sending, hand, current, open, todo, at, stale>>
    BY DEF OnlyRelay, server, page
  <1>3. CASE state'[s] = "here" /\ Reporting(s)'
    BY <1>3 DEF Right, HereIsRight, GoneIsRight, HereIsShown, Pending
  <1>4. CASE state'[s] = "here" /\ ~Reporting(s)'
    <2>1. state[s] = "here" /\ version'[s] = version[s] /\ ~Reporting(s)
      BY <1>4
    <2>2. Base(s)' = Base(s)
      BY <1>2, <2>1 DEF Base, OnlyRelay, page
    <2>3. /\ \A v : WillShow(s, v)' <=> WillShow(s, v)
          /\ Coming(s)' <=> Coming(s)
      BY <1>1, <1>2, <2>2 DEF WillShow, Coming
    <2>4. Pending(s) => Pending(s)'
      BY <1>2, <2>1 DEF Pending
    <2>5. HereIsRight(s)'
      BY <1>1, <1>2, <2>1, <2>3, <2>4 DEF Right, HereIsRight
    <2>6. HereIsShown(s)'
      BY <1>1, <1>2, <2>1, <2>3, <2>4 DEF Right, HereIsShown
    <2> QED
      BY <1>4, <2>5, <2>6 DEF Right, GoneIsRight
  <1>5. CASE state'[s] = "gone"
    <2>1. state[s] = "gone" /\ version[s] # 0 /\ version'[s] # 0
      BY <1>5
    <2>2. Base(s)' = 0 <=> Base(s) = 0
      BY <1>2, <2>1 DEF Base, OnlyRelay, page
    <2>3. WillShow(s, 0)' <=> WillShow(s, 0)
      BY <1>1, <1>2, <2>2 DEF WillShow
    <2>4. GoneIsRight(s)'
      BY <1>1, <1>2, <2>1, <2>3 DEF Right, GoneIsRight
    <2> QED
      BY <1>5, <2>4 DEF Right, HereIsRight, HereIsShown
  <1>6. CASE state'[s] \notin {"here", "gone"}
    BY <1>6 DEF Right, HereIsRight, HereIsShown, GoneIsRight
  <1> QED
    BY <1>3, <1>4, <1>5, <1>6

LEMMA GoroutinesRight ==
    ASSUME IInv, NEW s \in Streams,
           \/ \E t \in Streams : AddStream(t) \/ RemoveStream(t) \/ RunEnds(t) \/ Stopped(t)
           \/ \E w \in Workers : LetGo(w) \/ \E t \in Streams : GetStream(w, t)
           \/ \E g \in Goroutines : Change(g)
    PROVE  Right(s)'
  <1>0. TypeOK /\ Typed /\ Runs /\ Works /\ Right(s)
    BY TypedFacts DEF IInv
  <1>1. (state[s] = "gone" => version[s] # 0) /\ Streams \subseteq Goroutines /\ Workers \subseteq Goroutines
    BY <1>0 DEF Runs, Typed
  <1>2. ASSUME NEW t \in Streams, AddStream(t) PROVE Right(s)'
    <2>1. /\ state[t] = "new" /\ pc[t] = "idle" /\ OnlyRelay
          /\ pc'[t] = "start" /\ held'[t] = t /\ state'[t] = "here"
          /\ \A g \in Goroutines \ {t} : pc'[g] = pc[g] /\ held'[g] = held[g]
          /\ \A r \in Streams \ {t} : state'[r] = state[r] /\ version'[r] = version[r]
      BY <1>0, <1>2 DEF AddStream, Runs, OnlyRelay, Typed
    <2>2. CASE s = t
      <3>1. Reporting(s)'
        BY <1>1, <2>1, <2>2 DEF Reporting
      <3> QED
        BY <1>0, <2>1, <2>2, <3>1, RelayStepRight
    <2>3. CASE s # t
      <3>1. Reporting(s) => Reporting(s)'
        BY <2>1 DEF Reporting
      <3> QED
        BY <1>0, <1>1, <2>1, <2>3, <3>1, RelayStepRight
    <2> QED
      BY <2>2, <2>3
  <1>3. ASSUME NEW t \in Streams, RemoveStream(t) \/ RunEnds(t) \/ Stopped(t) PROVE Right(s)'
    <2>1. /\ UNCHANGED <<version, held>> /\ OnlyRelay
          /\ \A g \in Goroutines \ {t} : pc'[g] = pc[g]
          /\ \A r \in Streams \ {t} : state'[r] = state[r]
          /\ state'[t] \notin {"here", "gone"}
      <3>1. CASE RemoveStream(t)
        BY <1>0, <3>1 DEF RemoveStream, OnlyRelay, Typed
      <3>2. CASE RunEnds(t)
        BY <1>0, <3>2 DEF RunEnds, OnlyRelay, Typed
      <3>3. CASE Stopped(t)
        BY <1>0, <3>3 DEF Stopped, OnlyRelay, Typed
      <3> QED
        BY <1>3, <3>1, <3>2, <3>3
    <2>2. CASE s = t
      BY <1>0, <2>1, <2>2, RelayStepRight
    <2>3. CASE s # t
      <3>1. pc[t] \in {"start", "changed"} => held[t] = t
        BY <1>0, <1>1, HeldFacts
      <3>2. Reporting(s) => Reporting(s)'
        BY <2>1, <2>3, <3>1 DEF Reporting
      <3> QED
        BY <1>0, <1>1, <2>1, <2>3, <3>2, RelayStepRight
    <2> QED
      BY <2>2, <2>3
  <1>4. ASSUME NEW w \in Workers, LetGo(w) \/ \E t \in Streams : GetStream(w, t) PROVE Right(s)'
    <2>1. /\ UNCHANGED <<state, version>> /\ OnlyRelay
          /\ pc[w] \in {"idle", "holding"}
          /\ \A g \in Goroutines \ {w} : pc'[g] = pc[g] /\ held'[g] = held[g]
      <3>1. CASE LetGo(w)
        BY <1>0, <3>1 DEF LetGo, OnlyRelay, Typed
      <3>2. ASSUME NEW t \in Streams, GetStream(w, t)
            PROVE  /\ UNCHANGED <<state, version>> /\ OnlyRelay
                   /\ pc[w] \in {"idle", "holding"}
                   /\ \A g \in Goroutines \ {w} : pc'[g] = pc[g] /\ held'[g] = held[g]
        BY <1>0, <3>2 DEF GetStream, OnlyRelay, Typed
      <3> QED
        BY <1>4, <3>1, <3>2
    <2>2. Reporting(s) => Reporting(s)'
      BY <2>1 DEF Reporting
    <2> QED
      BY <1>0, <1>1, <2>1, <2>2, RelayStepRight
  <1>5. ASSUME NEW g \in Goroutines, Change(g) PROVE Right(s)'
    <2>1. /\ UNCHANGED <<state, held>> /\ OnlyRelay
          /\ pc'[g] = "changed" /\ held[g] \in Streams
          /\ \A h \in Goroutines \ {g} : pc'[h] = pc[h]
          /\ version'[held[g]] # 0 /\ \A r \in Streams \ {held[g]} : version'[r] = version[r]
      BY <1>0, <1>5, ChangeEffect DEF OnlyRelay
    <2>2. CASE s = held[g]
      <3>1. Reporting(s)'
        BY <2>1, <2>2 DEF Reporting
      <3> QED
        BY <1>0, <1>1, <2>1, <2>2, <3>1, RelayStepRight
    <2>3. CASE s # held[g]
      <3>1. Reporting(s) => Reporting(s)'
        BY <2>1 DEF Reporting
      <3> QED
        BY <1>0, <1>1, <2>1, <2>3, <3>1, RelayStepRight
    <2> QED
      BY <2>2, <2>3
  <1> QED
    BY <1>2, <1>3, <1>4, <1>5

\* What follows of s is followed on the connection the page has.
LEMMA PageFacts ==
    ASSUME IInv
    PROVE  /\ current \in open => current \in Connections /\ at[current] # "unused"
           /\ \A c \in Connections : c \in open => c = current
           /\ current = 0 => open = {} /\ asked = "no" /\ \A s \in Streams : shown[s] = 0
           /\ current \in open /\ at[current] # "opened" => current \in clients
  BY TypedFacts DEF IInv, Typed, Connected

\* broadcast() takes the mutex: the report is on its way to every client.
LEMMA BroadcastRight ==
    ASSUME IInv, NEW s \in Streams, NEW g \in Goroutines, Broadcast(g)
    PROVE  Right(s)'
  <1> USE TypedFacts DEF Typed
  <1>0. TypeOK /\ Runs /\ Works /\ Right(s)
    BY DEF IInv
  <1>1. /\ held[g] \in Streams /\ pc[g] = "changed" /\ pc'[g] = "sending"
        /\ \A h \in Goroutines \ {g} : pc'[h] = pc[h]
        /\ sending = Nobody /\ sending' # Nobody /\ sending'.to = clients
        /\ sending'.msg[1] = held[g] /\ sending'.msg[2] = version[held[g]]
        /\ stale \subseteq stale'
        /\ state[held[g]] = "gone" /\ g # held[g] => <<"late", held[g]>> \in stale'
        /\ UNCHANGED <<state, version, held, at, todo, hand, page, open, wire>>
    BY <1>0, BroadcastEffect, NobodyFacts
  <1>2. ~InBroadcast(s) /\ Base(s)' = Base(s)
    BY <1>1 DEF InBroadcast, Base, page
  <1>3. CASE s # held[g]
    <2>1. ~InBroadcast(s)'
      BY <1>1, <1>3 DEF InBroadcast
    <2>2. /\ \A v : WillShow(s, v)' <=> WillShow(s, v)
          /\ Coming(s)' <=> Coming(s)
      BY <1>1, <1>2, <2>1, SameOnTheWay DEF page
    <2>3. Reporting(s) => Reporting(s)'
      BY <1>1, <1>3 DEF Reporting
    <2>4. Pending(s) => Pending(s)'
      BY <1>1, <2>3 DEF Pending, page
    <2>5. ~WillBeMissed(s)
      BY <1>1 DEF WillBeMissed
    <2> QED
      BY <1>0, <1>1, <1>2, <2>1, <2>2, <2>4, <2>5, StaysRight DEF page
  <1>4. CASE s = held[g]
    <2>1. CASE state[s] = "here"
      <3>1. current \in open /\ at[current] # "opened" => InBroadcast(s)'
        BY <1>1, <1>4, PageFacts DEF InBroadcast, page
      <3>2. current \in open /\ at[current] = "opened" => Pending(s)'
        BY <1>1 DEF Pending, page
      <3>3. InBroadcast(s)' => WillShow(s, version[s])' /\ Coming(s)'
        BY <1>1, <1>4 DEF WillShow, Coming
      <3> QED
        BY <1>1, <2>1, <3>1, <3>2, <3>3 DEF Right, HereIsRight, GoneIsRight, HereIsShown, page
    <2>2. CASE state[s] = "gone"
      <3>1. g # s
        BY <1>0, <1>1, <2>2 DEF Runs
      <3>2. ~Fresh(s)'
        BY <1>1, <1>4, <2>2, <3>1 DEF Fresh, Causes
      <3> QED
        BY <1>1, <2>2, <3>2 DEF Right, HereIsRight, GoneIsRight, HereIsShown
    <2>3. CASE state[s] \notin {"here", "gone"}
      BY <1>1, <2>3 DEF Right, HereIsRight, GoneIsRight, HereIsShown
    <2> QED
      BY <2>1, <2>2, <2>3
  <1> QED
    BY <1>3, <1>4

\* broadcastRemove() takes it: the removal is on its way, or will be missed.
LEMMA RemoveRight ==
    ASSUME IInv, NEW s \in Streams, NEW t \in Streams, BroadcastRemove(t)
    PROVE  Right(s)'
  <1> USE TypedFacts DEF Typed
  <1>0. TypeOK /\ Right(s)
    BY DEF IInv
  <1>1. /\ sending = Nobody /\ sending' # Nobody /\ sending'.to = clients
        /\ sending'.msg[1] = t /\ sending'.msg[2] = 0
        /\ state'[t] = "gone" /\ \A r \in Streams \ {t} : state'[r] = state[r]
        /\ stale \subseteq stale'
        /\ current # 0 /\ current \notin clients \cap open => <<"missed", t>> \in stale'
        /\ UNCHANGED <<version, pc, held, at, todo, hand, page, open, wire>>
    BY <1>0, RemoveEffect, NobodyFacts
  <1>2. ~InBroadcast(s) /\ Base(s)' = Base(s) /\ ~WillBeMissed(s)
    BY <1>1 DEF InBroadcast, Base, WillBeMissed, page
  <1>3. CASE s # t
    <2>1. ~InBroadcast(s)'
      BY <1>1, <1>3 DEF InBroadcast
    <2>2. /\ \A v : WillShow(s, v)' <=> WillShow(s, v)
          /\ Coming(s)' <=> Coming(s)
      BY <1>1, <1>2, <2>1, SameOnTheWay DEF page
    <2>3. Pending(s) => Pending(s)'
      BY <1>1 DEF Pending, Reporting, page
    <2> QED
      BY <1>0, <1>1, <1>2, <1>3, <2>1, <2>2, <2>3, StaysRight DEF page
  <1>4. CASE s = t
    <2>1. CASE current = 0
      <3>1. open = {} /\ asked = "no" /\ shown[s] = 0
        BY <2>1, PageFacts
      <3>2. WillShow(s, 0)' /\ current' \notin open'
        BY <1>1, <2>1, <3>1 DEF WillShow, InBroadcast, InHand, InWire, Base, page
      <3> QED
        BY <1>1, <1>4, <3>2 DEF Right, HereIsRight, GoneIsRight, HereIsShown
    <2>2. CASE current \in clients \cap open
      <3>1. InBroadcast(s)'
        BY <1>1, <1>4, <2>2 DEF InBroadcast, page
      <3>2. WillShow(s, 0)'
        BY <1>1, <3>1 DEF WillShow
      <3> QED
        BY <1>1, <1>4, <3>1, <3>2 DEF Right, HereIsRight, GoneIsRight, HereIsShown
    <2>3. CASE current # 0 /\ current \notin clients \cap open
      <3>1. ~Fresh(s)'
        BY <1>1, <1>4, <2>3 DEF Fresh, Causes
      <3> QED
        BY <1>1, <1>4, <3>1 DEF Right, HereIsRight, GoneIsRight, HereIsShown
    <2> QED
      BY <2>1, <2>2, <2>3
  <1> QED
    BY <1>3, <1>4

\* A write takes the broadcast to the end of an open connection, behind what is
\* there; a snapshot that it overtakes or outlives makes the page stale, and so
\* does a removal that a closed connection loses.
LEMMA WriteToRight ==
    ASSUME IInv, NEW s \in Streams, NEW c \in Connections, WriteTo(c)
    PROVE  Right(s)'
  <1> DEFINE m == sending.msg
  <1>0. TypeOK /\ Typed /\ Messaging /\ Connected /\ Right(s)
    BY TypedFacts DEF IInv
  <1>1. /\ sending \in Broadcasts /\ sending # Nobody /\ c \in sending.to /\ sending' # Nobody
        /\ sending'.msg = m /\ sending'.to = sending.to \ {c}
        /\ HasRoom(c) /\ Written(c, m)
        /\ stale \subseteq stale'
        /\ hand[c] # Nobody /\ hand[c][1] = m[1] => <<"snapshot", m[1]>> \in stale'
        /\ m[2] = 0 /\ m[1] \in todo[c] => <<"snapshot", m[1]>> \in stale'
        /\ m[2] = 0 /\ c \notin open => <<"missed", m[1]>> \in stale'
        /\ UNCHANGED <<relay, at, todo, hand, page, open>>
    BY <1>0, WriteToEffect
  <1>2. m \in Messages /\ m[1] \in Streams /\ m = <<m[1], m[2]>>
    BY <1>1, BroadcastFacts
  <1>3. /\ \A d \in Connections \ {c} : wire'[d] = wire[d]
        /\ c \notin open => wire' = wire
        /\ c \in open => wire'[c] = Append(wire[c], m)
    BY <1>0, <1>1, <1>2, WrittenEffect
  <1> HIDE DEF m
  <1>4. /\ UNCHANGED <<state, version, current, asked, answer, shown, open, at, todo, hand>>
        /\ Base(s)' = Base(s) /\ (Pending(s)' <=> Pending(s))
    BY <1>1 DEF Base, Pending, Reporting, relay, page
  <1>5. InBroadcast(s) <=> current \in open /\ current \in sending.to /\ m[1] = s
    BY <1>1 DEF InBroadcast, m
  <1>6. InBroadcast(s)' <=> current \in open /\ current \in sending.to \ {c} /\ m[1] = s
    BY <1>1, <1>4 DEF InBroadcast
  <1>7. CASE c \notin open
    <2>1. InBroadcast(s)' <=> InBroadcast(s)
      BY <1>5, <1>6, <1>7
    <2>2. \/ current \notin open
          \/ wire'[current] = wire[current]
      BY <1>3, <1>7
    <2>3. /\ \A v : WillShow(s, v)' <=> WillShow(s, v)
          /\ Coming(s)' <=> Coming(s)
      BY <1>1, <1>3, <1>4, <1>7, <2>1, SameOnTheWay DEF m
    <2>4. WillBeMissed(s) => ~Fresh(s)'
      <3>1. WillBeMissed(s) => m = <<s, 0>>
        BY DEF WillBeMissed, m
      <3>2. WillBeMissed(s) => <<"missed", s>> \in stale'
        BY <1>1, <1>7, <3>1
      <3> QED
        BY <3>2 DEF Fresh, Causes
    <2> QED
      BY <1>0, <1>1, <1>4, <2>1, <2>3, <2>4, StaysRight
  <1>8. CASE c \in open
    <2>1. c = current /\ wire[c] \in Seq(Messages) /\ wire'[current] = Append(wire[current], m)
      BY <1>0, <1>3, <1>8, PageFacts DEF Typed
    <2>2. ~InBroadcast(s)'
      BY <1>6, <2>1
    <2>3. InHand(s)' <=> InHand(s)
      BY <1>4 DEF InHand
    <2>4. /\ InWire(s)' <=> m[1] = s \/ InWire(s)
          /\ \A v : LastIs(wire[current], s, v)' <=>
                        IF m[1] = s THEN m[2] = v ELSE LastIs(wire[current], s, v)
      <3>1. /\ (\E i \in DOMAIN wire'[current] : wire'[current][i][1] = s) <=>
                   m[1] = s \/ \E i \in DOMAIN wire[current] : wire[current][i][1] = s
            /\ \A v : LastIs(wire'[current], s, v) <=>
                        IF m[1] = s THEN m[2] = v ELSE LastIs(wire[current], s, v)
        <4> DEFINE q == wire[current]
        <4>1. q \in Seq(Messages) /\ m \in Messages /\ wire'[current] = Append(q, m)
          BY <1>2, <2>1
        <4> HIDE DEF q
        <4>2. ASSUME NEW v
              PROVE  /\ (\E i \in DOMAIN Append(q, m) : Append(q, m)[i][1] = s) <=>
                           m[1] = s \/ \E i \in DOMAIN q : q[i][1] = s
                     /\ LastIs(Append(q, m), s, v) <=> IF m[1] = s THEN m[2] = v ELSE LastIs(q, s, v)
          BY <4>1, LastAppended, Zenon
        <4>3. /\ (\E i \in DOMAIN wire'[current] : wire'[current][i][1] = s) <=>
                     m[1] = s \/ \E i \in DOMAIN q : q[i][1] = s
              /\ \A v : LastIs(wire'[current], s, v) <=> IF m[1] = s THEN m[2] = v ELSE LastIs(q, s, v)
          BY <4>1, <4>2, Zenon
        <4> QED
          BY <4>3, Zenon DEF q
      <3>2. \A v : LastIs(wire[current], s, v)' <=> LastIs(wire'[current], s, v)
        BY <1>4 DEF LastIs
      <3> QED
        BY <1>4, <1>8, <2>1, <3>1, <3>2 DEF InWire
    <2>5. WillBeMissed(s) => WillBeMissed(s)'
      BY <1>1, <1>4, <1>8 DEF WillBeMissed, m
    <2>6. CASE m[1] # s
      <3>1. ~InBroadcast(s)
        BY <1>5, <2>6
      <3>2. \A v : WillShow(s, v)' <=> WillShow(s, v)
        BY <1>4, <2>2, <2>3, <2>4, <2>6, <3>1 DEF WillShow
      <3>3. Coming(s)' <=> Coming(s)
        BY <1>4, <2>2, <2>3, <2>4, <2>6, <3>1 DEF Coming
      <3> QED
        BY <1>0, <1>1, <1>4, <2>2, <2>5, <3>1, <3>2, <3>3, StaysRight
    <2>7. CASE m[1] = s
      <3>1. InBroadcast(s) /\ InWire(s)'
        BY <1>1, <1>5, <1>8, <2>1, <2>4, <2>7
      <3>2. Fresh(s)' => ~InHand(s) /\ ~(m[2] = 0 /\ s \in todo[current])
        BY <1>1, <2>1, <2>7 DEF Fresh, Causes, InHand
      <3>3. Fresh(s)' => \A v : WillShow(s, v)' <=> WillShow(s, v)
        BY <2>2, <2>3, <2>4, <2>7, <3>1, <3>2 DEF WillShow, m
      <3>4. HereIsRight(s)'
        BY <1>0, <1>1, <1>4, <3>3 DEF Right, HereIsRight, Fresh
      <3>5. HereIsShown(s)'
        BY <3>1 DEF HereIsShown, Coming
      <3>6. GoneIsRight(s)'
        <4>1. SUFFICES ASSUME state[s] = "gone", Fresh(s)'
                       PROVE  /\ WillShow(s, 0)' \/ WillBeMissed(s)'
                              /\ ~(s \in todo[current])
          BY <1>4 DEF GoneIsRight
        <4>2. WillShow(s, 0) \/ WillBeMissed(s)
          BY <1>0, <1>1, <4>1 DEF Right, GoneIsRight, Fresh
        <4>3. m[2] = 0
          BY <1>2, <3>1, <4>2 DEF WillShow, WillBeMissed, m
        <4> QED
          BY <2>5, <3>2, <3>3, <4>1, <4>2, <4>3
      <3> QED
        BY <3>4, <3>5, <3>6 DEF Right
    <2> QED
      BY <2>6, <2>7
  <1> QED
    BY <1>7, <1>8

\* The mutex is given back when there is nothing left to write.
LEMMA SentRight ==
    ASSUME IInv, NEW s \in Streams, Sent
    PROVE  Right(s)'
  <1>0. TypeOK /\ Typed /\ Messaging /\ Right(s)
    BY TypedFacts DEF IInv
  <1>1. /\ sending \in Broadcasts /\ sending # Nobody /\ sending.to = {} /\ sending' = Nobody
        /\ \A g \in Goroutines \ {sending.by} : pc'[g] = pc[g] /\ held'[g] = held[g]
        /\ UNCHANGED <<state, version, clients, at, todo, hand, page, open, wire, stale>>
    BY <1>0, SentEffect
  <1>2. sending.by \in Goroutines => pc[sending.by] = "sending"
    BY <1>0, <1>1 DEF Messaging
  <1>3. ~InBroadcast(s) /\ ~InBroadcast(s)' /\ ~WillBeMissed(s)
    BY <1>1 DEF InBroadcast, WillBeMissed
  <1>4. Base(s)' = Base(s) /\ UNCHANGED <<current, open>>
    BY <1>1 DEF Base, page
  <1>5. (\A v : WillShow(s, v)' <=> WillShow(s, v)) /\ (Coming(s)' <=> Coming(s))
    BY <1>1, <1>3, <1>4, SameOnTheWay
  <1>6. Reporting(s) => Reporting(s)'
    BY <1>1, <1>2 DEF Reporting
  <1>7. Pending(s) => Pending(s)'
    BY <1>1, <1>4, <1>6 DEF Pending
  <1> QED
    BY <1>0, <1>1, <1>3, <1>4, <1>5, <1>7, StaysRight

\* Registering and listing promise the snapshot.
LEMMA HandlerRight ==
    ASSUME IInv, NEW s \in Streams, NEW c \in Connections,
           Register(c) \/ ListStreams(c) \/ Receive(c) \/ Unregister(c)
    PROVE  Right(s)'
  <1>0. TypeOK /\ Typed /\ Right(s)
    BY TypedFacts DEF IInv
  <1>1. UNCHANGED <<relay, sending, hand, page, open, wire, stale>>
    BY DEF Register, ListStreams, Receive, Unregister
  <1>2. /\ UNCHANGED <<state, version, current, open, stale, Base(s)>>
        /\ InBroadcast(s)' <=> InBroadcast(s)
        /\ WillBeMissed(s)' <=> WillBeMissed(s)
        /\ Reporting(s)' <=> Reporting(s)
    BY <1>1 DEF Base, InBroadcast, WillBeMissed, Reporting, relay, page
  <1>3. (\A v : WillShow(s, v)' <=> WillShow(s, v)) /\ (Coming(s)' <=> Coming(s))
    BY <1>1, <1>2, SameOnTheWay
  <1>4. ASSUME current \in open
        PROVE  /\ state[s] = "here" /\ Pending(s) => Pending(s)'
               /\ state[s] # "here" /\ s \in todo'[current] => s \in todo[current]
    <2>0. current \in Connections
      BY PageFacts, <1>4
    <2>1. CASE Register(c)
      <3>1. /\ todo' = todo /\ at' = [at EXCEPT ![c] = "listing"]
        BY <2>1 DEF Register
      <3>2. at[current] \in {"opened", "listing"} => at'[current] \in {"opened", "listing"}
        BY <1>0, <2>0, <3>1 DEF Typed
      <3> QED
        BY <1>2, <3>1, <3>2 DEF Pending
    <2>2. CASE ListStreams(c)
      <3>1. /\ at[c] = "listing" /\ todo' = [todo EXCEPT ![c] = Here]
            /\ \A d \in Connections \ {c} : at'[d] = at[d]
        BY <1>0, <2>2 DEF ListStreams, Typed
      <3>2. IF current = c THEN todo'[current] = Here ELSE todo'[current] = todo[current]
        BY <1>0, <2>0, <3>1 DEF Typed
      <3>3. s \in Here <=> state[s] = "here"
        BY DEF Here
      <3> QED
        BY <1>2, <2>0, <3>1, <3>2, <3>3 DEF Pending
    <2>3. CASE Receive(c) \/ Unregister(c)
      <3>1. /\ todo' = todo /\ at[c] \in {"snapshot", "receiving"}
            /\ \A d \in Connections \ {c} : at'[d] = at[d]
        BY <1>0, <2>3 DEF Receive, Unregister, Typed
      <3> QED
        BY <1>2, <2>0, <3>1 DEF Pending
    <2> QED
      BY <2>1, <2>2, <2>3
  <1>5. HereIsRight(s)'
    BY <1>0, <1>2, <1>3, <1>4 DEF Right, HereIsRight, Fresh
  <1>6. GoneIsRight(s)'
    BY <1>0, <1>2, <1>3, <1>4 DEF Right, GoneIsRight, Fresh
  <1>7. HereIsShown(s)'
    BY <1>0, <1>2, <1>3, <1>4 DEF Right, HereIsShown
  <1> QED
    BY <1>5, <1>6, <1>7 DEF Right

\* What the snapshot says of a stream is right when it is marshalled, unless a
\* broadcast about it is waiting.
LEMMA MarshalRight ==
    ASSUME IInv, NEW s \in Streams, NEW c \in Connections, NEW t \in Streams, Marshal(c, t)
    PROVE  Right(s)'
  <1>0. TypeOK /\ Typed /\ Runs /\ Messaging /\ Connected /\ Right(s)
    BY TypedFacts DEF IInv
  <1>1. /\ UNCHANGED <<relay, sending, at, page, open, wire, stale>>
        /\ t \in todo[c] /\ hand[c] = Nobody /\ todo'[c] = todo[c] \ {t}
        /\ hand'[c] = <<t, version[t]>>
        /\ \A d \in Connections \ {c} : todo'[d] = todo[d] /\ hand'[d] = hand[d]
    BY <1>0 DEF Marshal, Typed
  <1>2. /\ UNCHANGED <<state, version, current, open, stale, Base(s)>>
        /\ InBroadcast(s)' <=> InBroadcast(s)
        /\ WillBeMissed(s)' <=> WillBeMissed(s)
        /\ Reporting(s)' <=> Reporting(s)
        /\ InWire(s)' <=> InWire(s)
        /\ \A v : LastIs(wire[current], s, v)' <=> LastIs(wire[current], s, v)
    BY <1>1 DEF Base, InBroadcast, WillBeMissed, Reporting, InWire, LastIs, relay, page
  <1>3. current \in open => current \in Connections
    BY PageFacts
  <1>4. <<t, version[t]>>[1] = t /\ <<t, version[t]>>[2] = version[t] /\ <<t, version[t]>> # Nobody
    BY <1>0, MadeMessage, NobodyFacts DEF Typed
  <1>5. CASE current \notin open
    <2>1. ~InHand(s) /\ ~InHand(s)'
      BY <1>2, <1>5 DEF InHand
    <2>2. (\A v : WillShow(s, v)' <=> WillShow(s, v)) /\ (Coming(s)' <=> Coming(s))
      BY <1>1, <1>2, <2>1 DEF WillShow, Coming
    <2> QED
      BY <1>0, <1>2, <1>5, <2>2, StaysRight
  <1>6. CASE current \in open /\ (current # c \/ s # t)
    <2>1. InHand(s)' <=> InHand(s)
      BY <1>1, <1>2, <1>3, <1>4, <1>6 DEF InHand
    <2>2. InHand(s) => hand'[current] = hand[current]
      BY <1>1, <1>3, <1>4, <1>6 DEF InHand
    <2>3. (\A v : WillShow(s, v)' <=> WillShow(s, v)) /\ (Coming(s)' <=> Coming(s))
      BY <1>1, <1>2, <2>1, <2>2 DEF WillShow, Coming
    <2>4. s \in todo'[current] <=> s \in todo[current]
      BY <1>1, <1>3, <1>6
    <2>5. Pending(s)' <=> Pending(s)
      BY <1>1, <1>2, <2>4 DEF Pending
    <2> QED
      BY <1>0, <1>2, <2>3, <2>4, <2>5, StaysRight
  <1>7. CASE current \in open /\ current = c /\ s = t
    <2>1. /\ InHand(s)' /\ hand'[current][2] = version[s] /\ s \notin todo'[current]
          /\ s \in todo[current]
      BY <1>1, <1>2, <1>4, <1>7 DEF InHand
    <2>2. HereIsShown(s)'
      BY <2>1 DEF HereIsShown, Coming
    <2>3. HereIsRight(s)'
      <3>1. SUFFICES ASSUME state[s] = "here" PROVE WillShow(s, version[s])' \/ Pending(s)'
        BY <1>2 DEF HereIsRight
      <3>2. CASE InBroadcast(s)
        <4>1. sending # Nobody /\ sending.msg[1] = s
          BY <3>2 DEF InBroadcast
        <4>2. sending.msg[2] = version[s] \/ Changed(s)
          BY <1>0, <3>1, <4>1 DEF Messaging
        <4>3. Changed(s) => Pending(s)'
          BY <1>2 DEF Changed, Reporting, Pending
        <4>4. sending.msg[2] = version[s] => WillShow(s, version[s])'
          BY <1>1, <1>2, <3>2 DEF WillShow
        <4> QED
          BY <4>2, <4>3, <4>4
      <3>3. CASE ~InBroadcast(s)
        BY <1>2, <2>1, <3>3 DEF WillShow
      <3> QED
        BY <3>2, <3>3
    <2>4. GoneIsRight(s)'
      <3>1. SUFFICES ASSUME state[s] = "gone", Fresh(s)
                     PROVE  WillShow(s, 0)' \/ WillBeMissed(s)'
        BY <1>2, <2>1 DEF GoneIsRight, Fresh
      <3>2. InBroadcast(s) /\ (WillShow(s, 0) \/ WillBeMissed(s))
        BY <1>0, <1>7, <2>1, <3>1 DEF Right, GoneIsRight
      <3>3. WillShow(s, 0)' <=> WillShow(s, 0)
        BY <1>1, <1>2, <3>2 DEF WillShow
      <3> QED
        BY <1>2, <3>2, <3>3
    <2> QED
      BY <2>2, <2>3, <2>4 DEF Right
  <1> QED
    BY <1>5, <1>6, <1>7

\* The handler's write takes what it has in hand behind what is there.
LEMMA WriteRight ==
    ASSUME IInv, NEW s \in Streams, NEW c \in Connections, Write(c)
    PROVE  Right(s)'
  <1> DEFINE m == hand[c]
  <1>0. TypeOK /\ Typed /\ Messaging /\ Right(s)
    BY TypedFacts DEF IInv
  <1>1. /\ UNCHANGED <<relay, sending, at, todo, page, open, stale>>
        /\ m # Nobody /\ m \in Messages /\ hand'[c] = Nobody
        /\ \A d \in Connections \ {c} : hand'[d] = hand[d]
        /\ HasRoom(c) /\ Written(c, m)
    BY <1>0 DEF Write, Typed
  <1>2. m[1] \in Streams /\ m = <<m[1], m[2]>>
    BY <1>1, MessageFacts
  <1>3. /\ \A d \in Connections \ {c} : wire'[d] = wire[d]
        /\ c \notin open => wire' = wire
        /\ c \in open => wire'[c] = Append(wire[c], m)
    BY <1>0, <1>1, WrittenEffect
  <1> HIDE DEF m
  <1>4. /\ UNCHANGED <<state, version, current, open, stale, Base(s)>>
        /\ InBroadcast(s)' <=> InBroadcast(s)
        /\ WillBeMissed(s)' <=> WillBeMissed(s)
        /\ Pending(s)' <=> Pending(s)
    BY <1>1 DEF Base, InBroadcast, WillBeMissed, Pending, Reporting, relay, page
  <1>5. SUFFICES (\A v : WillShow(s, v)' <=> WillShow(s, v)) /\ (Coming(s)' <=> Coming(s))
    BY <1>0, <1>1, <1>4, StaysRight
  <1>6. CASE current \notin open
    <2>1. ~InHand(s) /\ ~InHand(s)' /\ ~InWire(s) /\ ~InWire(s)' /\ ~InBroadcast(s)
      BY <1>4, <1>6 DEF InHand, InWire, InBroadcast
    <2> QED
      BY <1>4, <2>1 DEF WillShow, Coming
  <1>7. CASE current \in open /\ current # c
    <2>1. UNCHANGED <<hand[current], wire[current]>>
      BY <1>1, <1>3, <1>4, <1>7, PageFacts
    <2> QED
      BY <1>1, <1>4, <2>1, SameOnTheWay
  <1>8. CASE current \in open /\ current = c
    <2>1. wire[current] \in Seq(Messages) /\ wire'[current] = Append(wire[current], m)
      BY <1>0, <1>3, <1>8 DEF Typed
    <2>2. ~InHand(s)' /\ (InHand(s) <=> m[1] = s) /\ hand[current] = m
      BY <1>1, <1>4, <1>8 DEF InHand, m
    <2>3. /\ InWire(s)' <=> m[1] = s \/ InWire(s)
          /\ \A v : LastIs(wire[current], s, v)' <=>
                        IF m[1] = s THEN m[2] = v ELSE LastIs(wire[current], s, v)
      <3> DEFINE q == wire[current]
      <3>1. q \in Seq(Messages) /\ wire'[current] = Append(q, m)
        BY <2>1
      <3> HIDE DEF q
      <3>2. ASSUME NEW v
            PROVE  /\ (\E i \in DOMAIN Append(q, m) : Append(q, m)[i][1] = s) <=>
                         m[1] = s \/ \E i \in DOMAIN q : q[i][1] = s
                   /\ LastIs(Append(q, m), s, v) <=> IF m[1] = s THEN m[2] = v ELSE LastIs(q, s, v)
        BY <1>1, <3>1, LastAppended, Zenon
      <3>3. \A v : LastIs(wire[current], s, v)' <=> LastIs(wire'[current], s, v)
        BY <1>4 DEF LastIs
      <3>4. /\ (\E i \in DOMAIN wire'[current] : wire'[current][i][1] = s) <=>
                   m[1] = s \/ \E i \in DOMAIN q : q[i][1] = s
            /\ \A v : LastIs(wire[current], s, v)' <=> IF m[1] = s THEN m[2] = v ELSE LastIs(q, s, v)
        BY <3>1, <3>2, <3>3, Zenon
      <3> QED
        BY <1>4, <1>8, <3>4 DEF InWire, q
    <2>4. \A v : WillShow(s, v)' <=> WillShow(s, v)
      BY <1>1, <1>4, <2>2, <2>3 DEF WillShow
    <2>5. Coming(s)' <=> Coming(s)
      BY <1>4, <2>2, <2>3 DEF Coming
    <2> QED
      BY <2>4, <2>5
  <1> QED
    BY <1>6, <1>7, <1>8

\* A new connection will get a snapshot of all there is, and nothing else is on
\* its way to it.
LEMMA ConnectRight ==
    ASSUME IInv, NEW s \in Streams, NEW c \in Connections, ConnectWS(c)
    PROVE  Right(s)'
  <1>0. TypeOK /\ Typed /\ Connected /\ Right(s)
    BY TypedFacts DEF IInv
  <1>1. /\ at[c] = "unused" /\ c = current + 1 /\ current \notin open
        /\ current' = c /\ open' = open \cup {c} /\ at'[c] = "opened"
        /\ asked' = (IF current = 0 THEN "sent" ELSE asked)
        /\ UNCHANGED <<relay, sending, clients, todo, hand, shown, answer, wire, stale>>
    BY <1>0 DEF ConnectWS, Typed
  <1>2. Pending(s)'
    BY <1>1 DEF Pending
  <1>3. Base(s)' = Base(s)
    BY <1>1, PageFacts DEF Base, relay
  <1>4. /\ wire[c] = <<>> /\ hand[c] = Nobody /\ todo[c] = {}
        /\ sending # Nobody => c \notin sending.to
    BY <1>0, <1>1 DEF Connected
  <1>5. ~InBroadcast(s) /\ ~InHand(s) /\ ~InWire(s)
    BY <1>1 DEF InBroadcast, InHand, InWire
  <1>6. ~InBroadcast(s)' /\ ~InHand(s)' /\ ~InWire(s)'
    BY <1>1, <1>4, NoMessages DEF InBroadcast, InHand, InWire
  <1>7. \A v : WillShow(s, v)' <=> WillShow(s, v)
    BY <1>3, <1>5, <1>6 DEF WillShow
  <1>8. WillBeMissed(s) => WillBeMissed(s)'
    BY <1>1, <1>4 DEF WillBeMissed
  <1>9. s \notin todo'[current']
    BY <1>1, <1>4
  <1>10. HereIsRight(s)' /\ HereIsShown(s)'
    BY <1>2 DEF HereIsRight, HereIsShown
  <1>11. GoneIsRight(s)'
    BY <1>0, <1>1, <1>7, <1>8, <1>9 DEF Right, GoneIsRight, Fresh, relay
  <1> QED
    BY <1>10, <1>11 DEF Right

\* A removal that was on its way to a connection that is closed is missed.
LEMMA CloseRight ==
    ASSUME IInv, NEW s \in Streams, NEW c \in Connections, Close(c)
    PROVE  Right(s)'
  <1>0. TypeOK /\ Typed /\ Messaging /\ Right(s)
    BY TypedFacts DEF IInv
  <1>1. /\ c \in open /\ open' = open \ {c} /\ stale \subseteq stale'
        /\ \A i \in DOMAIN wire[c] : wire[c][i] = <<s, 0>> => <<"missed", s>> \in stale'
        /\ UNCHANGED <<relay, server, page>>
    BY <1>0, CloseEffect
  <1>2. c = current /\ current' \notin open'
    BY <1>1, PageFacts DEF page
  <1>3. HereIsRight(s)' /\ HereIsShown(s)'
    BY <1>2 DEF HereIsRight, HereIsShown
  <1>4. GoneIsRight(s)'
    <2>1. SUFFICES ASSUME state[s] = "gone", Fresh(s)' PROVE WillShow(s, 0)' \/ WillBeMissed(s)'
      BY <1>1, <1>2 DEF GoneIsRight, relay
    <2>2. WillShow(s, 0) \/ WillBeMissed(s)
      BY <1>0, <1>1, <2>1 DEF Right, GoneIsRight, Fresh
    <2>3. WillBeMissed(s) => WillBeMissed(s)'
      BY <1>1 DEF WillBeMissed, server
    <2>4. CASE InBroadcast(s) /\ WillShow(s, 0)
      <3>1. sending # Nobody /\ current \in sending.to /\ sending.msg[1] = s /\ sending.msg[2] = 0
        BY <2>4 DEF InBroadcast, WillShow
      <3>2. sending.msg = <<s, 0>>
        BY <1>0, <3>1, BroadcastFacts DEF Typed
      <3> QED
        BY <1>1, <1>2, <3>1, <3>2 DEF WillBeMissed, server
    <2>5. CASE ~InBroadcast(s) /\ WillShow(s, 0)
      <3>1. ~InHand(s)
        <4>1. InHand(s) => hand[current] # Nobody /\ hand[current][2] = 0
          BY <2>5 DEF WillShow, InHand
        <4> QED
          BY <1>0, <1>2, <4>1 DEF Messaging
      <3>2. ~InWire(s)
        <4>1. InWire(s) => LastIs(wire[current], s, 0)
          BY <2>5, <3>1 DEF WillShow
        <4>2. LastIs(wire[current], s, 0) => \E i \in DOMAIN wire[c] : wire[c][i] = <<s, 0>>
          BY <1>2 DEF LastIs
        <4>3. LastIs(wire[current], s, 0) => ~Fresh(s)'
          BY <1>1, <4>2 DEF Fresh, Causes
        <4> QED
          BY <2>1, <4>1, <4>3
      <3>3. Base(s) = 0
        BY <2>5, <3>1, <3>2 DEF WillShow
      <3>4. Base(s)' = 0
        BY <1>1, <3>3 DEF Base, relay, page
      <3>5. ~InBroadcast(s)' /\ ~InHand(s)' /\ ~InWire(s)'
        BY <1>2 DEF InBroadcast, InHand, InWire
      <3> QED
        BY <3>4, <3>5 DEF WillShow
    <2> QED
      BY <2>2, <2>3, <2>4, <2>5
  <1> QED
    BY <1>3, <1>4 DEF Right

\* The page shows what the oldest message says, and with it what the newest
\* will say; an answer that is under way makes that stale.
LEMMA OnMessageRight ==
    ASSUME IInv, NEW s \in Streams, NEW c \in Connections, OnMessage(c)
    PROVE  Right(s)'
  <1> DEFINE m == wire[c][1]
             q == wire[current]
             more == \E i \in DOMAIN Tail(q) : Tail(q)[i][1] = s
  <1>0. TypeOK /\ Typed /\ Messaging /\ Connected /\ Right(s)
    BY TypedFacts DEF IInv
  <1>1. /\ wire[c] \in Seq(Messages) /\ wire[c] # <<>> /\ m \in Messages
        /\ m[1] \in Streams /\ shown'[m[1]] = m[2]
        /\ \A t \in Streams \ {m[1]} : shown'[t] = shown[t]
        /\ wire'[c] = Tail(wire[c])
        /\ stale' = IF asked \in {"listed", "answered"} THEN stale \cup {<<"answer", m[1]>>} ELSE stale
        /\ UNCHANGED <<relay, server, current, asked, answer, open>>
    BY <1>0, OnMessageEffect
  <1>2. c \in open /\ c = current
    BY <1>0, <1>1, PageFacts DEF Connected
  <1>3. q \in Seq(Messages) /\ q # <<>> /\ q[1] = m /\ wire'[current] = Tail(q) /\ m = <<m[1], m[2]>>
    BY <1>1, <1>2, MessageFacts
  <1>4. stale \subseteq stale'
    BY <1>1
  <1>5. /\ InBroadcast(s)' <=> InBroadcast(s)
        /\ InHand(s)' <=> InHand(s)
        /\ WillBeMissed(s)' <=> WillBeMissed(s)
        /\ Pending(s)' <=> Pending(s)
        /\ UNCHANGED <<sending, hand, state, version, todo, open, current>>
    BY <1>1 DEF InBroadcast, InHand, WillBeMissed, Pending, Reporting, relay, server
  <1> HIDE DEF m, q
  <1>6. /\ (\E i \in DOMAIN q : q[i][1] = s) <=> m[1] = s \/ more
        /\ \A v : LastIs(q, s, v) <=> IF more THEN LastIs(Tail(q), s, v) ELSE m = <<s, v>>
    <2>1. /\ (\E i \in DOMAIN q : q[i][1] = s) <=> q[1][1] = s \/ more
          /\ \A v : LastIs(q, s, v) <=> IF more THEN LastIs(Tail(q), s, v) ELSE q[1] = <<s, v>>
      BY <1>3, LastTaken, Zenon
    <2> QED
      BY <1>3, <2>1
  <1> HIDE DEF more
  <1>7. /\ InWire(s) <=> m[1] = s \/ more
        /\ \A v : LastIs(wire[current], s, v) <=> IF more THEN LastIs(Tail(q), s, v) ELSE m = <<s, v>>
    BY <1>2, <1>6 DEF InWire, q
  <1>8. /\ InWire(s)' <=> more
        /\ \A v : LastIs(wire[current], s, v)' <=> LastIs(Tail(q), s, v)
    <2>1. InWire(s)' <=> \E i \in DOMAIN wire'[current] : wire'[current][i][1] = s
      BY <1>2, <1>5 DEF InWire
    <2>2. \A v : LastIs(wire[current], s, v)' <=> LastIs(wire'[current], s, v)
      BY <1>5 DEF LastIs
    <2> QED
      BY <1>3, <2>1, <2>2, Zenon DEF more
  <1>9. CASE m[1] # s
    <2>1. ~(\E v : m = <<s, v>>)
      BY <1>9
    <2>2. Base(s)' = Base(s)
      BY <1>1, <1>9 DEF Base, relay
    <2>3. InWire(s)' <=> InWire(s)
      BY <1>7, <1>8, <1>9
    <2>4. \A v : InWire(s) => (LastIs(wire[current], s, v)' <=> LastIs(wire[current], s, v))
      BY <1>7, <1>8, <1>9
    <2>5. \A v : WillShow(s, v)' <=> WillShow(s, v)
      BY <1>5, <2>2, <2>3, <2>4 DEF WillShow
    <2>6. Coming(s)' <=> Coming(s)
      BY <1>5, <2>2, <2>3 DEF Coming
    <2> QED
      BY <1>0, <1>4, <1>5, <2>5, <2>6, StaysRight
  <1>10. CASE m[1] = s /\ asked \in {"listed", "answered"}
    <2>1. <<"answer", s>> \in stale' /\ ~Fresh(s)'
      BY <1>1, <1>10 DEF Fresh, Causes
    <2> QED
      BY <2>1 DEF Right, HereIsRight, GoneIsRight, HereIsShown
  <1>11. CASE m[1] = s /\ asked \notin {"listed", "answered"}
    <2>1. Base(s)' = m[2]
      BY <1>1, <1>11 DEF Base
    <2>2. \A v : m = <<s, v>> <=> m[2] = v
      BY <1>3, <1>11
    <2>3. InWire(s) /\ \A v : LastIs(wire[current], s, v) <=>
                                IF InWire(s)' THEN LastIs(wire[current], s, v)' ELSE Base(s)' = v
      BY <1>7, <1>8, <1>11, <2>1, <2>2
    <2>4. \A v : WillShow(s, v)' <=> WillShow(s, v)
      BY <1>5, <2>3 DEF WillShow
    <2>5. state[s] = "here" => Coming(s)'
      <3>1. m[2] = 0 => state[s] = "gone"
        <4>1. 1 \in DOMAIN wire[c] /\ wire[c][1] = m
          BY <1>1, TailFacts DEF m
        <4> QED
          BY <1>0, <1>11, <4>1 DEF Messaging
      <3> QED
        BY <2>1, <3>1 DEF Coming
    <2>6. HereIsRight(s)' /\ GoneIsRight(s)'
      BY <1>0, <1>4, <1>5, <2>4 DEF Right, HereIsRight, GoneIsRight, Fresh
    <2>7. HereIsShown(s)'
      BY <1>5, <2>5 DEF HereIsShown
    <2> QED
      BY <2>6, <2>7 DEF Right
  <1> QED
    BY <1>9, <1>10, <1>11

\* The list that is answered is right when it is made, and when it is used it
\* is what the page would have.
LEMMA AnswerRight ==
    ASSUME IInv, NEW s \in Streams, Refresh \/ List \/ Answer \/ Apply
    PROVE  Right(s)'
  <1>0. TypeOK /\ Typed /\ Runs /\ Right(s)
    BY TypedFacts DEF IInv
  <1>1. UNCHANGED <<relay, server, current, open, wire, stale>>
    BY DEF Refresh, List, Answer, Apply
  <1>2. /\ InBroadcast(s)' <=> InBroadcast(s)
        /\ InHand(s)' <=> InHand(s)
        /\ InWire(s)' <=> InWire(s)
        /\ \A v : LastIs(wire[current], s, v)' <=> LastIs(wire[current], s, v)
        /\ WillBeMissed(s)' <=> WillBeMissed(s)
        /\ Pending(s)' <=> Pending(s)
        /\ UNCHANGED <<sending, hand, state, version, todo, open, current, wire, stale>>
    BY <1>1 DEF InBroadcast, InHand, InWire, LastIs, WillBeMissed, Pending, Reporting, relay, server
  <1>3. ASSUME Base(s)' = Base(s) PROVE Right(s)'
    <2>1. (\A v : WillShow(s, v)' <=> WillShow(s, v)) /\ (Coming(s)' <=> Coming(s))
      BY <1>2, <1>3 DEF WillShow, Coming
    <2> QED
      BY <1>0, <1>2, <2>1, StaysRight
  <1>4. CASE Refresh \/ Answer \/ Apply
    <2>1. CASE Refresh
      BY <2>1, <1>3 DEF Refresh, Base, relay
    <2>2. CASE Answer
      <3>1. asked = "listed" /\ asked' = "answered" /\ answer'[s] = IF answer[s] = 1 THEN version[s] ELSE 0
        BY <2>2 DEF Answer
      <3> QED
        BY <1>3, <3>1 DEF Base
    <2>3. CASE Apply
      BY <2>3, <1>3 DEF Apply, Base, relay
    <2> QED
      BY <1>4, <2>1, <2>2, <2>3
  <1>5. CASE List
    <2>1. asked' = "listed" /\ answer'[s] = IF s \in Here THEN 1 ELSE 0
      BY <1>5 DEF List
    <2>2. Base(s)' = IF state[s] = "here" THEN version[s] ELSE 0
      BY <1>2, <2>1 DEF Base, Here
    <2>3. /\ state[s] = "here" /\ WillShow(s, version[s]) => WillShow(s, version[s])'
          /\ state[s] = "gone" /\ WillShow(s, 0) => WillShow(s, 0)'
      BY <1>2, <2>2 DEF WillShow
    <2>4. state[s] = "here" => Coming(s)'
      BY <1>0, <2>2 DEF Coming, Runs
    <2>5. HereIsRight(s)' /\ GoneIsRight(s)'
      BY <1>0, <1>2, <2>3 DEF Right, HereIsRight, GoneIsRight, Fresh
    <2>6. HereIsShown(s)'
      BY <1>2, <2>4 DEF HereIsShown
    <2> QED
      BY <2>5, <2>6 DEF Right
  <1> QED
    BY <1>4, <1>5

-----------------------------------------------------------------------------
(* The theorems *)

LEMMA InitIInv == Init => IInv
  <1> SUFFICES ASSUME Init PROVE IInv
    OBVIOUS
  <1>1. TypeOK /\ Typed
    BY TypeOKInit, TypedFacts
  <1>2. Runs /\ Works
    BY <1>1 DEF Init, Runs, Works, Goroutines
  <1>3. Messaging /\ Connected
    BY <1>1, NoMessages DEF Init, Messaging, Connected
  <1>4. \A s \in Streams : Right(s)
    BY DEF Init, Right, HereIsRight, GoneIsRight, HereIsShown
  <1> QED
    BY <1>1, <1>2, <1>3, <1>4 DEF IInv

LEMMA NextIInv == IInv /\ [Next]_vars => IInv'
  <1>1. ASSUME IInv, Next PROVE IInv'
    <2>1. TypeOK /\ Runs /\ Works /\ Messaging /\ Connected
      BY <1>1 DEF IInv
    <2>2. TypeOK' /\ Runs' /\ Works' /\ Messaging' /\ Connected'
      BY <1>1, <2>1, TypeOKNext, RunsNext, MessagingNext, ConnectedNext
    <2>3. ASSUME NEW s \in Streams PROVE Right(s)'
      <3>1. ASSUME NEW t \in Streams, AddStream(t) \/ RemoveStream(t) \/ RunEnds(t) \/ Stopped(t)
            PROVE  Right(s)'
        BY <1>1, <3>1, GoroutinesRight, Zenon
      <3>2. ASSUME NEW w \in Workers, NEW t \in Streams, GetStream(w, t) PROVE Right(s)'
        BY <1>1, <3>2, GoroutinesRight, Zenon
      <3>3. ASSUME NEW w \in Workers, LetGo(w) PROVE Right(s)'
        BY <1>1, <3>3, GoroutinesRight, Zenon
      <3>4. ASSUME NEW g \in Goroutines, Change(g) PROVE Right(s)'
        BY <1>1, <3>4, GoroutinesRight, Zenon
      <3> DEFINE P == Right(s)'
      <3>5. /\ \A t \in Streams : BroadcastRemove(t) => P
            /\ \A g \in Goroutines : Broadcast(g) => P
            /\ \A c \in Connections : WriteTo(c) => P
            /\ Sent => P
            /\ \A c \in Connections : Register(c) \/ ListStreams(c) \/ Receive(c) \/ Unregister(c) => P
            /\ \A c \in Connections, t \in Streams : Marshal(c, t) => P
            /\ \A c \in Connections : Write(c) => P
            /\ \A c \in Connections : ConnectWS(c) => P
            /\ \A c \in Connections : Close(c) => P
            /\ \A c \in Connections : OnMessage(c) => P
            /\ Refresh \/ List \/ Answer \/ Apply => P
        BY <1>1, BroadcastRight, RemoveRight, WriteToRight, SentRight, HandlerRight, MarshalRight,
           WriteRight, ConnectRight, CloseRight, OnMessageRight, AnswerRight, Zenon
      <3>6. /\ \A t \in Streams : AddStream(t) \/ RemoveStream(t) \/ RunEnds(t) \/ Stopped(t) => P
            /\ \A w \in Workers, t \in Streams : GetStream(w, t) => P
            /\ \A w \in Workers : LetGo(w) => P
            /\ \A g \in Goroutines : Change(g) => P
        BY <3>1, <3>2, <3>3, <3>4, Zenon
      <3> HIDE DEF P
      <3>7. P
        BY <1>1, <3>5, <3>6, NextSteps, Zenon
      <3> QED
        BY <3>7 DEF P
    <2> QED
      BY <2>2, <2>3 DEF IInv
  <1>2. ASSUME IInv, UNCHANGED vars PROVE IInv'
    <2>1. UNCHANGED <<state, version, pc, held, sending, clients, at, todo, hand, open, wire,
                      current, shown, asked, answer, stale>>
      BY <1>2 DEF vars, relay, server, page
    <2>2. TypeOK' /\ Runs' /\ Works'
      BY <1>2, <2>1 DEF IInv, TypeOK, Runs, Works
    <2>3. \A s : Changed(s)' <=> Changed(s)
      BY <2>1 DEF Changed
    <2>4. Messaging' /\ Connected'
      BY <1>2, <2>1, <2>3 DEF IInv, Messaging, Connected
    <2>5. ASSUME NEW s \in Streams PROVE Right(s)'
      <3>1. Right(s)
        BY <1>2 DEF IInv
      <3>2. (InBroadcast(s)' <=> InBroadcast(s)) /\ Base(s)' = Base(s)
        BY <2>1 DEF InBroadcast, Base
      <3>3. (\A v : WillShow(s, v)' <=> WillShow(s, v)) /\ (Coming(s)' <=> Coming(s))
        BY <2>1, <3>2, SameOnTheWay
      <3>4. (Pending(s)' <=> Pending(s)) /\ (WillBeMissed(s)' <=> WillBeMissed(s))
        BY <2>1 DEF Pending, Reporting, WillBeMissed
      <3> QED
        BY <2>1, <3>1, <3>2, <3>3, <3>4, StaysRight
    <2> QED
      BY <2>2, <2>4, <2>5 DEF IInv
  <1> QED
    BY <1>1, <1>2

LEMMA Invariance == Spec => []IInv
  BY InitIInv, NextIInv, PTL DEF Spec

\* Types: every variable of the fan-out keeps its type, and no connection is
\* given more than it has room for.
THEOREM TypeCorrect == Spec => []TypeOK
  <1>1. IInv => TypeOK
    BY DEF IInv
  <1> QED
    BY <1>1, Invariance, PTL

\* When nothing is on its way and the page is connected, nothing is in hand and
\* nothing pending.
LEMMA SettledFacts ==
    ASSUME IInv, NEW s \in Streams, Settled(s)
    PROVE  /\ ~InBroadcast(s) /\ ~InHand(s) /\ ~InWire(s) /\ Base(s) = shown[s]
           /\ ~Pending(s) /\ ~WillBeMissed(s) /\ current \in open
  <1>0. Typed /\ Connected
    BY TypedFacts DEF IInv
  <1>1. /\ \A g \in Goroutines : held[g] = s => pc[g] \in {"idle", "ended"}
        /\ sending = Nobody /\ current \in open /\ at[current] = "receiving"
        /\ wire[current] = <<>> /\ asked = "no"
    BY DEF Settled
  <1>2. current \in Connections /\ todo[current] = {} /\ hand[current] = Nobody
    BY <1>0, <1>1, PageFacts DEF Connected
  <1>3. ~InBroadcast(s) /\ ~InHand(s) /\ ~InWire(s) /\ Base(s) = shown[s] /\ ~WillBeMissed(s)
    BY <1>1, <1>2, NoMessages DEF InBroadcast, InHand, InWire, Base, WillBeMissed
  <1>4. ~Pending(s)
    BY <1>1, <1>2 DEF Pending, Reporting
  <1> QED
    BY <1>1, <1>3, <1>4

\* When nothing is under way the page shows each stream as it is and none that
\* is gone, unless one of the four races was lost: broadcast() reports every
\* change after it was made, under the mutex, to all that are registered, and a
\* connection registers before it lists the streams for its snapshot.
THEOREM PageRight == Spec => []PageIsRight
  <1>1. IInv => PageIsRight
    <2> SUFFICES ASSUME IInv, NEW s \in Streams, Settled(s), StaleFor(s) = {}
                 PROVE  shown[s] = IF state[s] = "here" THEN version[s] ELSE 0
      BY DEF PageIsRight
    <2>1. Right(s) /\ Fresh(s)
      BY DEF IInv, StaleFor, Fresh
    <2>2. state[s] \in {"here", "gone"}
      BY DEF Settled
    <2>3. \A v : WillShow(s, v) <=> shown[s] = v
      BY SettledFacts DEF WillShow
    <2> QED
      BY <2>1, <2>2, <2>3, SettledFacts DEF Right, HereIsRight, GoneIsRight
  <1> QED
    BY <1>1, Invariance, PTL

\* A stream that is there is shown when nothing is under way, unless an answer
\* older than a message replaced the list: no order of registering, snapshot,
\* broadcasts and lost connections hides one.
THEOREM NothingHiddenEver == Spec => []NothingHidden
  <1>1. IInv => NothingHidden
    <2> SUFFICES ASSUME IInv, NEW s \in Streams, Settled(s), state[s] = "here",
                        "answer" \notin StaleFor(s)
                 PROVE  shown[s] # 0
      BY DEF NothingHidden
    <2>1. Right(s) /\ <<"answer", s>> \notin stale
      BY DEF IInv, StaleFor, Causes
    <2> QED
      BY <2>1, SettledFacts DEF Right, HereIsShown, Coming
  <1> QED
    BY <1>1, Invariance, PTL

=============================================================================
