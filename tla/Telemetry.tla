----------------------------- MODULE Telemetry -----------------------------
(***************************************************************************)
(* What a stream shows of the session it relays: the payload type and the  *)
(* codecs found by the sniffer (internal/relay/sniffer.go) in the messages *)
(* that pass through pump(), and the health computed from each sample of   *)
(* the statistics (health.go).  TSParser is the walk over MPEG-TS packets; *)
(* here a message that starts with a sync byte carries a PMT or none.      *)
(*                                                                         *)
(* A message is what tryEFP() looks at: its first two bytes, which say     *)
(* whether a header begins at offset 0 or, after a length, at 4, the bytes *)
(* from there on, and the header's fields.                                 *)
(***************************************************************************)
EXTENDS Integers, Functions

CONSTANTS
    Senders,    \* kinds of publishers
    Sends,      \* the messages a publisher of each kind may send
    Contents,   \* efpContentNames: the content types with a name
    MaxMsgs,    \* snifferMaxMsgs
    Samples,    \* statistics of an interval, as srt_bstats counts them
    Latency,    \* of the stream
    MaxSessions \* bound

\* What tryEFP() and the parser look at in a message.
ASSUME TelemetryAssumption ==
    /\ "nobody" \notin Senders
    /\ \A s \in Senders : \A m \in Sends[s] :
          /\ m.first \in {"sync", "zeros", "other"}
          /\ m.type \in 0..15
          /\ {m.size, m.fragments, m.packed, m.aligned} \subseteq Nat
          /\ m.content \in STRING
          /\ \A pid \in DOMAIN m.pmt : m.pmt[pid] \in STRING
    /\ Contents \subseteq STRING
    /\ Samples \subseteq [idle : BOOLEAN, loss : Nat, retrans : Nat, recv : Nat, delay : Nat]
    /\ MaxMsgs \in Nat \ {0} /\ Latency \in Nat /\ MaxSessions \in Nat

VARIABLES
    sessions,   \* publisher sessions begun
    sender,     \* the publisher pump() reads from, or "nobody"
    payload,    \* what the sniffer has classified the payload as, or "none"
    tsSyncs, efpFrames, msgs,   \* as counted until the payload is classified
    content,    \* payloadSniffer.content
    found,      \* tsParser.found: the codec of each elementary PID
    lastCodecs,
    shown,      \* PayloadType and Codecs of the stream
    health,     \* Stats.Health
    sample      \* history: the samples health stands for, the last one

sniffer == <<payload, tsSyncs, efpFrames, msgs, content, found, lastCodecs>>
vars == <<sessions, sender, sniffer, shown, health, sample>>

Payloads == {"mpegts", "efp", "unknown", "none"}
Nothing  == [payloadType |-> "none", codecs |-> {}]

TypeOK ==
    /\ sessions \in 0..MaxSessions
    /\ sender \in Senders \cup {"nobody"}
    /\ payload \in Payloads
    /\ tsSyncs \in 0..MaxMsgs /\ efpFrames \in 0..MaxMsgs /\ msgs \in 0..MaxMsgs
    /\ content \subseteq Contents
    /\ \A pid \in DOMAIN found : found[pid] \in STRING
    /\ lastCodecs \subseteq STRING
    /\ shown \in [payloadType : Payloads, codecs : SUBSET STRING]
    /\ health \in {"none", "green", "yellow", "red"}
    /\ sample \subseteq Samples

\* newPayloadSniffer
FreshSniffer ==
    /\ payload = "none" /\ tsSyncs = 0 /\ efpFrames = 0 /\ msgs = 0
    /\ content = {} /\ found = <<>> /\ lastCodecs = {}

Init ==
    /\ sessions = 0
    /\ sender = "nobody"
    /\ FreshSniffer
    /\ shown = Nothing
    /\ health = "none"
    /\ sample = {}

-----------------------------------------------------------------------------
(* tryEFP *)

\* MUTANT: sized like a fragment in the middle.
LastFragmentSized(m) == m.first = "zeros" /\ m.type = 4 /\ m.size >= 10

\* A frame of several fragments; without the length before it, random bytes
\* would pass for one.
MiddleFragment(m) ==
    /\ m.first = "zeros"
    /\ m.type \in {1, 3}
    /\ m.size >= 10
    /\ m.fragments >= 1

LastFragment(m) == m.first = "zeros" /\ m.type = 4

\* The fragment that names the content; the header has 32 or 27 bytes and the
\* size of what follows.
Tail(m) ==
    /\ m.type = 2
    /\ m.size >= 27
    /\ m.content \in Contents
    /\ \/ m.size >= 32 /\ m.aligned = m.size - 32
       \/ m.packed = m.size - 27

EFP(m) == m.first # "sync" /\ (MiddleFragment(m) \/ LastFragment(m) \/ Tail(m))

-----------------------------------------------------------------------------
(* A session *)

\* startRelay: another publisher, another sniffer.
StartSession(s) ==
    /\ sender = "nobody"
    /\ sessions < MaxSessions
    /\ sessions' = sessions + 1
    /\ sender' = s
    /\ payload' = "none" /\ tsSyncs' = 0 /\ efpFrames' = 0 /\ msgs' = 0
    /\ content' = {} /\ found' = <<>> /\ lastCodecs' = {}
    /\ shown' = Nothing
    /\ health' = "green"
    /\ sample' = {}

\* pump() returns; startRelay() takes back what the stream shows.
EndSession ==
    /\ sender # "nobody"
    /\ sender' = "nobody"
    /\ shown' = Nothing
    /\ health' = "none"
    /\ sample' = {}
    /\ UNCHANGED <<sessions, sniffer>>

\* The payload after one more message, when n were looked at.
Classify(ts, efp, n) ==
    CASE ts >= 2 /\ ts > efp  -> "mpegts"
      [] efp >= 2 /\ efp > ts -> "efp"
      [] ~(ts >= 2 /\ ts > efp) /\ ~(efp >= 2 /\ efp > ts) ->
            IF n < MaxMsgs THEN "none" ELSE IF ts > 0 THEN "mpegts" ELSE "unknown"

\* MUTANT: reported once.
NewsOnce(codecs) == lastCodecs = {} /\ codecs # {}

News(codecs) == codecs \notin {{}, lastCodecs}

\* tsParser.feed, where a PMT gives the codecs of its PIDs.
Learn(pmt) == [pid \in DOMAIN pmt \cup DOMAIN found |-> IF pid \in DOMAIN pmt THEN pmt[pid] ELSE found[pid]]

\* One message read by pump(): what feed() does with it and what pump() then
\* shows.  Classified once, a payload stays what it is.
Feed(m) ==
    LET open == payload = "none"
        ts   == tsSyncs + IF m.first = "sync" THEN 1 ELSE 0
        efp  == efpFrames + IF EFP(m) THEN 1 ELSE 0
        p    == IF open THEN Classify(ts, efp, msgs + 1) ELSE payload
        f    == IF p = "mpegts" /\ m.first = "sync" THEN Learn(m.pmt) ELSE found
        c    == IF p = "efp" /\ m.first # "sync" /\ Tail(m) THEN content \cup {m.content} ELSE content
        news == p = "mpegts" /\ News(Range(f))
    IN  /\ sender # "nobody"
        /\ payload' = p
        /\ tsSyncs' = IF open THEN ts ELSE tsSyncs
        /\ efpFrames' = IF open THEN efp ELSE efpFrames
        /\ msgs' = IF open THEN msgs + 1 ELSE msgs
        /\ found' = f
        /\ content' = c
        /\ lastCodecs' = IF news THEN Range(f) ELSE lastCodecs
        /\ shown' = IF p # payload \/ news \/ c # content
                    THEN [payloadType |-> p, codecs |-> IF p = "mpegts" THEN Range(f) ELSE c]
                    ELSE shown
        /\ UNCHANGED <<sessions, sender, health, sample>>

-----------------------------------------------------------------------------
(* evaluateHealth *)

Maximum(a, b) == IF a > b THEN a ELSE b

\* MUTANT: the difference the other way round.
UnrecoveredSwapped(st) == Maximum(st.retrans - st.loss, 0)

Unrecovered(st) == Maximum(st.loss - st.retrans, 0)

\* More than one in n packets is missing, or the buffer is more than excess ms
\* behind the latency.
Exceeds(st, n, excess) ==
    \/ n * Unrecovered(st) > Maximum(st.recv, 1)
    \/ st.delay - Latency > excess

EvaluateHealth(st) ==
    CASE st.idle \/ Exceeds(st, 100, 1000) -> "red"
      [] ~st.idle /\ Exceeds(st, 1000, 300) /\ ~Exceeds(st, 100, 1000) -> "yellow"
      [] OTHER -> "green"

\* The ticker of pump().
Tick(st) ==
    /\ sender # "nobody"
    /\ health' = EvaluateHealth(st)
    /\ sample' = {st}
    /\ UNCHANGED <<sessions, sender, sniffer, shown>>

-----------------------------------------------------------------------------

Next ==
    \/ \E s \in Senders : StartSession(s)
    \/ EndSession
    \/ sender # "nobody" /\ \E m \in Sends[sender] : Feed(m)
    \/ \E st \in Samples : Tick(st)

Spec == Init /\ [][Next]_vars

-----------------------------------------------------------------------------
(* Properties *)

\* The stream is written to only when feed() reports news, and still shows at
\* any time what its sniffer knows: nothing learnt is left out, and nothing of
\* an earlier session is left over.
ShownIsDetected ==
    shown = IF sender = "nobody" THEN Nothing
            ELSE [payloadType |-> payload,
                  codecs |-> IF payload = "mpegts" THEN Range(found) ELSE content]

\* Two messages are enough to tell a sender of MPEG-TS, or of EFP with length
\* prefixes, whatever fragments it begins with; and a sender whose messages
\* are neither is not taken for one of them however long it sends.
SendersAreTold ==
    /\ sender = "ts" /\ msgs >= 2 => payload = "mpegts"
    /\ sender = "efp" /\ msgs >= 2 => payload = "efp"
    /\ sender = "raw" => payload \in {"none", "unknown"}

Rank(h) == CASE h = "green" -> 0 [] h = "yellow" -> 1 [] h = "red" -> 2 [] OTHER -> 3

\* st is in no respect better than before.
NoBetter(st, before) ==
    \/ st.idle
    \/ /\ ~before.idle
       /\ st.loss >= before.loss /\ st.retrans <= before.retrans
       /\ st.recv <= before.recv
       /\ st.delay >= before.delay

\* A link that gets worse never looks better: from one sample to the next that
\* is in no respect better, the colour does not improve, over the packet count
\* of zero, more retransmissions than losses, and both thresholds.
HealthFollowsLink ==
    [][\A before \in sample, st \in sample' :
          NoBetter(st, before) => Rank(health') >= Rank(health)]_<<health, sample>>

\* README.md:381 calls a stream red whose buffer delay is over 1000 ms.  The
\* code compares what the delay exceeds the stream's latency by.
DelayIsRed == \A st \in sample : st.delay > 1000 => health = "red"

\* sniffer.go:105 says that EFP without the length is still told by its tail
\* fragments.  They count among the first MaxMsgs messages only.
TailsAreTold == sender = "plain" /\ payload # "none" => payload = "efp"

\* sniffer.go:58 says that random bytes cannot be taken for EFP.  A message of
\* five bytes whose first two are zero and whose fifth ends in 4 is taken for
\* a last fragment.
NoiseIsTold == sender = "noise" => payload \in {"none", "unknown"}

=============================================================================
