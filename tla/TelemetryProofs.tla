-------------------------- MODULE TelemetryProofs --------------------------
(***************************************************************************)
(* For any senders, messages, statistics and bounds: what a stream shows   *)
(* is what its sniffer found, and its colour follows the link.             *)
(***************************************************************************)
EXTENDS Telemetry, TLAPS

\* Until the payload is classified few messages were looked at, each counted
\* once at most.
Counts ==
    /\ payload = "none" => msgs < MaxMsgs
    /\ tsSyncs <= msgs /\ efpFrames <= msgs

\* Codecs are parsed in MPEG-TS only, and reported as they are found; content
\* is read in EFP only.
Reported ==
    /\ payload = "mpegts" => lastCodecs = Range(found) /\ content = {}
    /\ payload # "mpegts" => DOMAIN found = {} /\ lastCodecs = {}
    /\ payload # "efp" => content = {}

\* The colour is that of the last sample.
Coloured == sample # {} => \E st \in Samples : sample = {st} /\ health = EvaluateHealth(st)

IInv == TypeOK /\ Counts /\ Reported /\ ShownIsDetected /\ Coloured

LEMMA ParameterBounds == MaxMsgs \in Nat /\ MaxMsgs >= 1 /\ MaxSessions \in Nat
  BY TelemetryAssumption DEF TelemetryAssumption

LEMMA NothingFound == DOMAIN <<>> = {} /\ Range(<<>>) = {}
  BY DEF Range

LEMMA InitIInv == Init => IInv
  <1> SUFFICES ASSUME Init PROVE IInv
    OBVIOUS
  <1>1. DOMAIN found = {} /\ Range(found) = {}
    BY NothingFound DEF Init, FreshSniffer
  <1>2. /\ sessions = 0 /\ sender = "nobody" /\ shown = Nothing /\ health = "none" /\ sample = {}
        /\ payload = "none" /\ tsSyncs = 0 /\ efpFrames = 0 /\ msgs = 0 /\ content = {} /\ lastCodecs = {}
    BY DEF Init, FreshSniffer
  <1>3. TypeOK
    BY <1>1, <1>2, ParameterBounds DEF TypeOK, Payloads, Nothing
  <1>4. Counts /\ Reported /\ ShownIsDetected /\ Coloured
    BY <1>1, <1>2, ParameterBounds DEF Counts, Reported, ShownIsDetected, Coloured
  <1> QED
    BY <1>3, <1>4 DEF IInv

LEMMA StartSessionKeeps ==
    ASSUME IInv, NEW s \in Senders, s # "nobody", StartSession(s)
    PROVE  IInv'
  <1>1. DOMAIN found' = {} /\ Range(found') = {} /\ Range(found)' = {}
    <2>1. found' = <<>>
      BY DEF StartSession
    <2> QED
      BY <2>1, NothingFound DEF Range
  <1>2. /\ sessions' = sessions + 1 /\ sessions < MaxSessions
        /\ sender' = s /\ shown' = Nothing /\ health' = "green" /\ sample' = {}
        /\ payload' = "none" /\ tsSyncs' = 0 /\ efpFrames' = 0 /\ msgs' = 0 /\ content' = {} /\ lastCodecs' = {}
    BY DEF StartSession
  <1>3. TypeOK'
    BY <1>1, <1>2, ParameterBounds DEF IInv, TypeOK, Payloads, Nothing
  <1>4. Counts' /\ Reported' /\ ShownIsDetected' /\ Coloured'
    BY <1>1, <1>2, ParameterBounds DEF Counts, Reported, ShownIsDetected, Coloured, Nothing
  <1> QED
    BY <1>3, <1>4 DEF IInv

LEMMA EndSessionKeeps ==
    ASSUME IInv, EndSession
    PROVE  IInv'
  BY DEF EndSession, sniffer, IInv, TypeOK, Counts, Reported, ShownIsDetected, Coloured, Payloads, Nothing

\* The thresholds leave one colour.
LEMMA Colours ==
    ASSUME NEW st \in Samples
    PROVE  EvaluateHealth(st) \in {"green", "yellow", "red"}
  BY DEF EvaluateHealth

LEMMA TickKeeps ==
    ASSUME IInv, NEW st \in Samples, Tick(st)
    PROVE  IInv'
  BY Colours
     DEF Tick, sniffer, IInv, TypeOK, Counts, Reported, ShownIsDetected, Coloured, Payloads, Nothing

\* A payload is given a name of its own, or is left open below MaxMsgs.
LEMMA Classified ==
    ASSUME NEW ts \in Nat, NEW efp \in Nat, NEW n \in Nat
    PROVE  /\ Classify(ts, efp, n) \in Payloads
           /\ Classify(ts, efp, n) = "none" => n < MaxMsgs
  BY TelemetryAssumption DEF TelemetryAssumption, Classify, Payloads

\* What is learnt adds to what was found.
LEMMA Learnt ==
    ASSUME NEW pmt, \A pid \in DOMAIN pmt : pmt[pid] \in STRING,
           \A pid \in DOMAIN found : found[pid] \in STRING
    PROVE  /\ \A pid \in DOMAIN Learn(pmt) : Learn(pmt)[pid] \in STRING
           /\ DOMAIN found \subseteq DOMAIN Learn(pmt)
  BY DEF Learn

LEMMA RangeFacts ==
    ASSUME NEW f
    PROVE  /\ DOMAIN f = {} <=> Range(f) = {}
           /\ (\A x \in DOMAIN f : f[x] \in STRING) => Range(f) \in SUBSET STRING
  BY DEF Range

LEMMA FeedKeeps ==
    ASSUME IInv, sender # "nobody", NEW m \in Sends[sender], Feed(m)
    PROVE  IInv'
  <1> USE TelemetryAssumption DEF TelemetryAssumption
  <1> DEFINE open == payload = "none"
             ts   == tsSyncs + IF m.first = "sync" THEN 1 ELSE 0
             efp  == efpFrames + IF EFP(m) THEN 1 ELSE 0
             p    == IF open THEN Classify(ts, efp, msgs + 1) ELSE payload
             f    == IF p = "mpegts" /\ m.first = "sync" THEN Learn(m.pmt) ELSE found
             c    == IF p = "efp" /\ m.first # "sync" /\ Tail(m) THEN content \cup {m.content} ELSE content
             news == p = "mpegts" /\ News(Range(f))
  <1>1. /\ payload' = p /\ found' = f /\ content' = c
        /\ tsSyncs' = IF open THEN ts ELSE tsSyncs
        /\ efpFrames' = IF open THEN efp ELSE efpFrames
        /\ msgs' = IF open THEN msgs + 1 ELSE msgs
        /\ lastCodecs' = IF news THEN Range(f) ELSE lastCodecs
        /\ shown' = IF p # payload \/ news \/ c # content
                    THEN [payloadType |-> p, codecs |-> IF p = "mpegts" THEN Range(f) ELSE c]
                    ELSE shown
        /\ UNCHANGED <<sessions, sender, health, sample>>
    BY DEF Feed
  <1>2. sender \in Senders
    BY DEF IInv, TypeOK
  <1>3. /\ tsSyncs \in Nat /\ efpFrames \in Nat /\ msgs \in Nat /\ MaxMsgs \in Nat
        /\ ts \in Nat /\ efp \in Nat /\ ts <= msgs + 1 /\ efp <= msgs + 1
    BY DEF IInv, TypeOK, Counts
  <1>4. p \in Payloads /\ (open /\ p = "none" => msgs + 1 < MaxMsgs)
    <2>1. CASE open
      <3>1. p = Classify(ts, efp, msgs + 1)
        BY <2>1
      <3>2. msgs + 1 \in Nat /\ ts \in Nat /\ efp \in Nat
        BY <1>3
      <3> HIDE DEF ts, efp, p
      <3> QED
        BY <3>1, <3>2, Classified
    <2>2. CASE ~open
      <3>1. p = payload
        BY <2>2
      <3> QED
        BY <2>2, <3>1 DEF IInv, TypeOK
    <2> QED
      BY <2>1, <2>2
  <1>5. /\ \A pid \in DOMAIN f : f[pid] \in STRING
        /\ DOMAIN found \subseteq DOMAIN f
        /\ p # "mpegts" => f = found
    <2>1. /\ \A pid \in DOMAIN m.pmt : m.pmt[pid] \in STRING
          /\ \A pid \in DOMAIN found : found[pid] \in STRING
      BY <1>2 DEF IInv, TypeOK
    <2>2. CASE p = "mpegts" /\ m.first = "sync"
      <3>1. f = Learn(m.pmt)
        BY <2>2
      <3> QED
        BY <3>1, <2>1, <2>2, Learnt
    <2>3. CASE ~(p = "mpegts" /\ m.first = "sync")
      <3>1. f = found
        BY <2>3
      <3> QED
        BY <3>1, <2>1
    <2> QED
      BY <2>2, <2>3
  <1>6. c \in SUBSET Contents /\ content \subseteq c /\ (p # "efp" => c = content)
    BY DEF IInv, TypeOK, Tail
  <1>7. payload # "none" => p = payload
    OBVIOUS
  <1>8. /\ Range(f) \in SUBSET STRING
        /\ DOMAIN f = {} <=> Range(f) = {}
        /\ DOMAIN found = {} <=> Range(found) = {}
    BY <1>5, RangeFacts
  <1> HIDE DEF p, f, c, open, ts, efp
  <1>9. Reported'
    <2>1. p = "mpegts" => lastCodecs' = Range(f)
      BY <1>1, <1>5, <1>8 DEF IInv, Reported, News, open, p
    <2> QED
      BY <1>1, <1>5, <1>6, <1>7, <2>1 DEF IInv, Reported
  <1>10. TypeOK'
    <2>1. /\ tsSyncs' \in 0..MaxMsgs /\ efpFrames' \in 0..MaxMsgs /\ msgs' \in 0..MaxMsgs
      <3>1. CASE open
        <4>1. msgs < MaxMsgs
          BY <3>1 DEF IInv, Counts, open
        <4> QED
          BY <1>1, <1>3, <3>1, <4>1
      <3>2. CASE ~open
        BY <1>1, <3>2 DEF IInv, TypeOK
      <3> QED
        BY <3>1, <3>2
    <2>2. lastCodecs' \subseteq STRING /\ content' \subseteq Contents /\ payload' \in Payloads
      BY <1>1, <1>4, <1>6, <1>8 DEF IInv, TypeOK
    <2>3. shown' \in [payloadType : Payloads, codecs : SUBSET STRING]
      <3>1. c \in SUBSET STRING
        BY <1>6
      <3> QED
        BY <1>1, <1>4, <1>8, <3>1 DEF IInv, TypeOK
    <2>4. \A pid \in DOMAIN found' : found'[pid] \in STRING
      BY <1>1, <1>5
    <2> QED
      BY <1>1, <2>1, <2>2, <2>3, <2>4 DEF IInv, TypeOK
  <1>11. Counts'
    <2>1. CASE open
      BY <1>1, <1>3, <1>4, <2>1 DEF Counts
    <2>2. CASE ~open
      BY <1>1, <1>7, <2>2 DEF IInv, Counts, open
    <2> QED
      BY <2>1, <2>2
  <1>12. ShownIsDetected'
    <2>1. CASE p # payload \/ news \/ c # content
      BY <1>1, <2>1 DEF ShownIsDetected
    <2>2. CASE ~(p # payload \/ news \/ c # content)
      <3>1. p = "mpegts" => Range(f) = Range(found)
        BY <1>5, <1>8, <2>2 DEF IInv, Reported, News
      <3> QED
        BY <1>1, <2>2, <3>1 DEF IInv, ShownIsDetected
    <2> QED
      BY <2>1, <2>2
  <1>13. Coloured'
    BY <1>1 DEF IInv, Coloured
  <1> QED
    BY <1>9, <1>10, <1>11, <1>12, <1>13 DEF IInv

LEMMA NextIInv == IInv /\ [Next]_vars => IInv'
  <1> SUFFICES ASSUME IInv, [Next]_vars PROVE IInv'
    OBVIOUS
  <1>1. ASSUME NEW s \in Senders, StartSession(s) PROVE IInv'
    <2>1. s # "nobody"
      BY TelemetryAssumption DEF TelemetryAssumption
    <2> QED
      BY <1>1, <2>1, StartSessionKeeps
  <1>2. CASE EndSession
    BY <1>2, EndSessionKeeps
  <1>3. ASSUME sender # "nobody", NEW m \in Sends[sender], Feed(m) PROVE IInv'
    BY <1>3, FeedKeeps
  <1>4. ASSUME NEW st \in Samples, Tick(st) PROVE IInv'
    BY <1>4, TickKeeps
  <1>5. CASE UNCHANGED vars
    BY <1>5 DEF vars, sniffer, IInv, TypeOK, Counts, Reported, ShownIsDetected, Coloured
  <1> QED
    BY <1>1, <1>2, <1>3, <1>4, <1>5 DEF Next

LEMMA Invariance == Spec => []IInv
  BY InitIInv, NextIInv, PTL DEF Spec

\* Every variable keeps its type, whatever the publishers send.
THEOREM TypeCorrect == Spec => []TypeOK
  <1>1. IInv => TypeOK
    BY DEF IInv
  <1> QED
    BY <1>1, Invariance, PTL

\* Though pump() writes to the stream only when feed() reports news, the stream
\* always shows what the sniffer of this session has found.
THEOREM NothingLeftOut == Spec => []ShownIsDetected
  <1>1. IInv => ShownIsDetected
    BY DEF IInv
  <1> QED
    BY <1>1, Invariance, PTL

-----------------------------------------------------------------------------
(* Kinds of senders *)

\* What the senders the property is about send: MPEG-TS packets; fragments with
\* a length before them; messages that pass for neither.
Kinds ==
    /\ "ts" \in Senders => \A m \in Sends["ts"] : m.first = "sync"
    /\ "efp" \in Senders => \A m \in Sends["efp"] :
            m.first = "zeros" /\ (MiddleFragment(m) \/ LastFragment(m) \/ Tail(m))
    /\ "raw" \in Senders => \A m \in Sends["raw"] : m.first # "sync" /\ ~EFP(m)

\* Every message of such a sender has counted, and all of them alike.
Tally ==
    /\ sender = "ts" => efpFrames = 0 /\ (payload = "none" => tsSyncs = msgs)
    /\ sender = "efp" => tsSyncs = 0 /\ (payload = "none" => efpFrames = msgs)
    /\ sender = "raw" => tsSyncs = 0 /\ efpFrames = 0

LEMMA ClassifyCases ==
    ASSUME NEW ts \in Nat, NEW efp \in Nat, NEW n \in Nat
    PROVE  /\ ts >= 2 /\ efp = 0 => Classify(ts, efp, n) = "mpegts"
           /\ efp >= 2 /\ ts = 0 => Classify(ts, efp, n) = "efp"
           /\ ts = 0 /\ efp = 0 => Classify(ts, efp, n) \in {"none", "unknown"}
  BY DEF Classify

LEMMA FeedTallies ==
    ASSUME IInv, Kinds, Tally, SendersAreTold,
           sender # "nobody", NEW m \in Sends[sender], Feed(m)
    PROVE  Tally' /\ SendersAreTold'
  <1> DEFINE ts  == tsSyncs + IF m.first = "sync" THEN 1 ELSE 0
             efp == efpFrames + IF EFP(m) THEN 1 ELSE 0
  <1>1. /\ payload' = IF payload = "none" THEN Classify(ts, efp, msgs + 1) ELSE payload
        /\ tsSyncs' = IF payload = "none" THEN ts ELSE tsSyncs
        /\ efpFrames' = IF payload = "none" THEN efp ELSE efpFrames
        /\ msgs' = IF payload = "none" THEN msgs + 1 ELSE msgs
        /\ sender' = sender
    BY DEF Feed
  <1>2. CASE payload # "none"
    BY <1>1, <1>2 DEF Tally, SendersAreTold
  <1>3. CASE payload = "none"
    <2>1. /\ sender \in Senders /\ tsSyncs \in Nat /\ efpFrames \in Nat /\ msgs \in Nat
          /\ ts \in Nat /\ efp \in Nat /\ msgs + 1 \in Nat
      BY ParameterBounds DEF IInv, TypeOK
    <2>2. /\ payload' = Classify(ts, efp, msgs + 1) /\ tsSyncs' = ts /\ efpFrames' = efp
          /\ msgs' = msgs + 1
      BY <1>1, <1>3
    <2>3. ASSUME sender = "ts" PROVE ts = msgs + 1 /\ efp = 0
      <3>1. m.first = "sync" /\ ~EFP(m)
        BY <2>1, <2>3 DEF Kinds, EFP
      <3> QED
        BY <1>3, <2>1, <2>3, <3>1 DEF Tally
    <2>4. ASSUME sender = "efp" PROVE ts = 0 /\ efp = msgs + 1
      <3>1. m.first # "sync" /\ EFP(m)
        BY <2>1, <2>4 DEF Kinds, EFP
      <3> QED
        BY <1>3, <2>1, <2>4, <3>1 DEF Tally
    <2>5. ASSUME sender = "raw" PROVE ts = 0 /\ efp = 0
      <3>1. m.first # "sync" /\ ~EFP(m)
        BY <2>1, <2>5 DEF Kinds
      <3> QED
        BY <1>3, <2>1, <2>5, <3>1 DEF Tally
    <2> HIDE DEF ts, efp
    <2>6. Tally'
      BY <1>1, <2>2, <2>3, <2>4, <2>5 DEF Tally
    <2>7. SendersAreTold'
      BY <1>1, <2>1, <2>2, <2>3, <2>4, <2>5, ClassifyCases DEF SendersAreTold
    <2> QED
      BY <2>6, <2>7
  <1> QED
    BY <1>2, <1>3

\* Whatever a sender of MPEG-TS or of EFP with length prefixes begins with, two
\* messages tell it, and one that is neither is never taken for one of them.
THEOREM KindsAreTold ==
    ASSUME Kinds
    PROVE  Spec => []SendersAreTold
  <1> DEFINE Told == Tally /\ SendersAreTold
  <1>1. Init => Told
    BY DEF Init, FreshSniffer, Tally, SendersAreTold
  <1>2. IInv /\ Told /\ [Next]_vars => Told'
    <2> SUFFICES ASSUME IInv, Told, [Next]_vars PROVE Told'
      OBVIOUS
    <2>1. ASSUME NEW s \in Senders, StartSession(s) PROVE Told'
      BY <2>1 DEF StartSession, Tally, SendersAreTold
    <2>2. CASE EndSession
      BY <2>2 DEF EndSession, Tally, SendersAreTold
    <2>3. ASSUME sender # "nobody", NEW m \in Sends[sender], Feed(m) PROVE Told'
      BY <2>3, FeedTallies
    <2>4. ASSUME NEW st \in Samples, Tick(st) PROVE Told'
      BY <2>4 DEF Tick, sniffer, Tally, SendersAreTold
    <2>5. CASE UNCHANGED vars
      BY <2>5 DEF vars, sniffer, Tally, SendersAreTold
    <2> QED
      BY <2>1, <2>2, <2>3, <2>4, <2>5 DEF Next
  <1>3. Told => SendersAreTold
    OBVIOUS
  <1> HIDE DEF Told
  <1> QED
    BY <1>1, <1>2, <1>3, Invariance, PTL DEF Spec

-----------------------------------------------------------------------------
(* Health *)

LEMMA StatisticsFacts ==
    ASSUME NEW st \in Samples
    PROVE  /\ st.idle \in BOOLEAN
           /\ st.loss \in Nat /\ st.retrans \in Nat /\ st.recv \in Nat /\ st.delay \in Nat
  BY TelemetryAssumption DEF TelemetryAssumption

\* Who exceeds a threshold exceeds it when nothing is better.
LEMMA ExceedsMore ==
    ASSUME NEW before \in Samples, NEW st \in Samples, NEW excess \in Nat, NEW n \in {100, 1000},
           st.loss >= before.loss, st.retrans <= before.retrans,
           st.recv <= before.recv, st.delay >= before.delay,
           Exceeds(before, n, excess)
    PROVE  Exceeds(st, n, excess)
  <1> USE StatisticsFacts
  <1>1. Latency \in Nat
    BY TelemetryAssumption DEF TelemetryAssumption
  <1>2. Unrecovered(st) >= Unrecovered(before) /\ Unrecovered(st) \in Nat /\ Unrecovered(before) \in Nat
    BY DEF Unrecovered, Maximum
  <1>3. Maximum(st.recv, 1) <= Maximum(before.recv, 1) /\ Maximum(st.recv, 1) \in Nat /\ Maximum(before.recv, 1) \in Nat
    BY DEF Maximum
  <1>4. n * Unrecovered(st) >= n * Unrecovered(before)
    BY <1>2
  <1>5. CASE n * Unrecovered(before) > Maximum(before.recv, 1)
    <2>1. n * Unrecovered(st) > Maximum(st.recv, 1)
      BY <1>2, <1>3, <1>4, <1>5
    <2> QED
      BY <2>1 DEF Exceeds
  <1>6. CASE before.delay - Latency > excess
    <2>1. st.delay - Latency > excess
      BY <1>1, <1>6
    <2> QED
      BY <2>1 DEF Exceeds
  <1> QED
    BY <1>5, <1>6 DEF Exceeds

LEMMA NoBetterColour ==
    ASSUME NEW before \in Samples, NEW st \in Samples, NoBetter(st, before)
    PROVE  Rank(EvaluateHealth(st)) >= Rank(EvaluateHealth(before))
  <1>1. CASE st.idle
    BY <1>1 DEF EvaluateHealth, Rank
  <1>2. CASE ~st.idle
    <2>1. /\ Exceeds(before, 100, 1000) => Exceeds(st, 100, 1000)
          /\ Exceeds(before, 1000, 300) => Exceeds(st, 1000, 300)
      BY <1>2, ExceedsMore DEF NoBetter
    <2> QED
      BY <1>2, <2>1 DEF EvaluateHealth, Rank, NoBetter
  <1> QED
    BY <1>1, <1>2

\* For every latency and whatever a link counts: one that is in no respect better
\* than at the sample before does not get a better colour.
THEOREM WorseIsNotGreener == Spec => HealthFollowsLink
  <1> DEFINE Follows == \A before \in sample, st \in sample' :
                            NoBetter(st, before) => Rank(health') >= Rank(health)
  <1>1. IInv /\ IInv' => Follows
    BY NoBetterColour DEF IInv, Coloured
  <1> QED
    BY <1>1, Invariance, PTL DEF HealthFollowsLink

=============================================================================
