--------------------------- MODULE TSParserProofs ---------------------------
(***************************************************************************)
(* For every packet size, every length a packet may hold and every list of *)
(* stream types: the parser keeps its types, reads within its packet, and  *)
(* advances in every turn of every loop.                                   *)
(***************************************************************************)
EXTENDS TSParser, TLAPS

\* Where the parser is in a packet.  A table ends within the packet, an entry's
\* descriptors do, and nothing was read beyond it.
InPacket ==
    /\ pc = "entry" => start <= pos /\ pos <= PacketSize
    /\ touched < PacketSize

IInv == TypeOK /\ InPacket

LEMMA InitIInv == Init => IInv
  BY TSAssumption DEF TSAssumption, Init, IInv, TypeOK, InPacket, Offsets, Codecs

\* A table that fits: its header is read within the packet, its end is in it.
LEMMA OpenTableKeeps ==
    ASSUME TypeOK, NEW table \in {"pat", "pmt"}, NEW section \in Nat, section >= 4,
           NEW len \in Nat, NEW first \in Nat, NEW read \in Nat, read < PacketSize,
           OpenTable(table, section, len, first, read)
    PROVE  pc' = table /\ pos' \in Nat /\ end' \in -1..PacketSize
           /\ touched' \in Int /\ touched' < PacketSize
  <1>1. section + 3 + len - 4 \in Int /\ section + 3 + len - 4 >= 3
    OBVIOUS
  <1>2. end' = Clip(section + 3 + len - 4, PacketSize)
    BY DEF OpenTable
  <1>3. end' \in Int /\ end' >= -1 /\ end' <= PacketSize
    BY <1>1, <1>2, TSAssumption DEF TSAssumption, Clip
  <1> QED
    BY <1>3, TSAssumption DEF OpenTable, TSAssumption

LEMMA TakePacketKeeps ==
    ASSUME IInv, NEW pid \in PIDs, NEW pusi \in BOOLEAN, NEW section \in Nat, section >= 4,
           TakePacket(pid, pusi, section)
    PROVE  IInv'
  <1> USE TSAssumption DEF TSAssumption
  <1> DEFINE pat == pid = 0 /\ pusi /\ Fits(section, 8)
             pmt == pid # 0 /\ pid = pmtPID /\ pusi /\ Fits(section, 12)
  <1>1. left' \in Nat
    BY DEF TakePacket, IInv, TypeOK
  <1>2. /\ pc' \in {"loop", "pat", "pmt"}
        /\ pos' \in Nat /\ end' \in -1..PacketSize
        /\ touched' \in Int /\ touched' < PacketSize
    <2>1. ASSUME pat, NEW len \in Lengths, OpenTable("pat", section, len, section + 8, section + 2)
          PROVE  <1>2!1 /\ <1>2!2 /\ <1>2!3
      <3>1. section + 2 \in Nat /\ section + 2 < PacketSize /\ section + 8 \in Nat /\ len \in Nat
        BY <2>1 DEF Fits
      <3>2. TypeOK
        BY DEF IInv
      <3> QED
        BY <2>1, <3>1, <3>2, OpenTableKeeps
    <2>2. ASSUME pmt, NEW len \in Lengths, NEW info \in Lengths,
                 OpenTable("pmt", section, len, section + 12 + info, section + 11)
          PROVE  <1>2!1 /\ <1>2!2 /\ <1>2!3
      <3>1. section + 11 \in Nat /\ section + 11 < PacketSize /\ section + 12 + info \in Nat /\ len \in Nat
        BY <2>2 DEF Fits
      <3>2. TypeOK
        BY DEF IInv
      <3> QED
        BY <2>2, <3>1, <3>2, OpenTableKeeps
    <2>3. ASSUME touched' = 4, pc' = "loop", UNCHANGED <<pos, end>>
          PROVE  <1>2!1 /\ <1>2!2 /\ <1>2!3
      BY <2>3 DEF IInv, TypeOK
    <2> QED
      BY <2>1, <2>2, <2>3 DEF TakePacket
  <1> QED
    BY <1>1, <1>2 DEF TakePacket, IInv, TypeOK, InPacket, Offsets

\* Every step keeps the invariant.
LEMMA NextIInv == IInv /\ [Next]_vars => IInv'
  <1> SUFFICES ASSUME IInv, [Next]_vars PROVE IInv'
    OBVIOUS
  <1> USE TSAssumption DEF TSAssumption, IInv, InPacket, TypeOK, Offsets
  <1>1. ASSUME NEW n \in Chunks, Feed(n) PROVE IInv'
    BY <1>1 DEF Feed
  <1>2. CASE Return
    BY <1>2 DEF Return
  <1>3. CASE Resync
    BY <1>3 DEF Resync
  <1>4. CASE Packet
    <2>1. PICK pid \in PIDs, pusi \in BOOLEAN, payload \in {4} \cup {4 + len + 1 : len \in Lengths} :
              TakePacket(pid, pusi, payload + IF pusi THEN 1 ELSE 0)
      BY <1>4 DEF Packet
    <2>2. payload \in Nat /\ payload >= 4
      OBVIOUS
    <2>3. (payload + IF pusi THEN 1 ELSE 0) \in Nat /\ (payload + IF pusi THEN 1 ELSE 0) >= 4
      BY <2>2
    <2> HIDE DEF IInv, InPacket, TypeOK, Offsets
    <2> QED
      BY <2>1, <2>3, TakePacketKeeps
  <1>5. CASE PATEntry
    BY <1>5 DEF PATEntry
  <1>6. CASE PATEnd
    BY <1>6 DEF PATEnd
  <1>7. ASSUME NEW type \in StreamTypes, NEW pid \in PIDs, NEW len \in Lengths, PMTEntry(type, pid, len)
        PROVE  IInv'
    <2>1. /\ pos' \in Nat /\ pos' <= PacketSize /\ pos + 5 <= pos'
          /\ pos + 5 \in Offsets
      <3>1. pos + 5 + len \in Int /\ pos' = Clip(pos + 5 + len, PacketSize) /\ pos + 5 <= PacketSize
        BY <1>7 DEF PMTEntry
      <3>2. /\ pos' \in Int /\ pos' <= PacketSize
            /\ pos' = PacketSize \/ pos' = pos + 5 + len
        BY <3>1 DEF Clip
      <3> QED
        BY <3>1, <3>2
    <2>2. found' \in [PIDs -> Codecs]
      BY <1>7 DEF PMTEntry, Codecs
    <2>3. /\ pc' \in {"pmt", "entry"} /\ epid' \in PIDs /\ start' \in Offsets
          /\ pc' = "entry" => start' = pos + 5
      BY <1>7, <2>1 DEF PMTEntry
    <2>4. touched' = pos + 4 /\ pos + 5 <= end /\ UNCHANGED <<left, end, pmtPID>>
      BY <1>7 DEF PMTEntry
    <2> QED
      BY <2>1, <2>2, <2>3, <2>4
  <1>8. CASE PMTEnd
    BY <1>8 DEF PMTEnd
  <1>9. ASSUME NEW len \in Lengths, NEW registration \in BOOLEAN, Descriptor(len, registration)
        PROVE  IInv'
    <2>1. /\ pc = "entry" /\ start + 2 <= pos /\ pos <= PacketSize
          /\ UNCHANGED <<left, pos, end, pmtPID>>
      BY <1>9 DEF Descriptor
    <2>2. DescriptorEnd(len) \in Offsets /\ DescriptorEnd(len) <= pos
      <3>1. start + 2 + len \in Int /\ start + 2 + len >= 0
        OBVIOUS
      <3> QED
        BY <2>1, <3>1 DEF DescriptorEnd, Clip
    <2>3. /\ pc' \in {"pmt", "entry"} /\ epid' \in PIDs /\ start' \in Offsets
          /\ pc' = "entry" => start' <= pos
      BY <1>9, <2>1, <2>2 DEF Descriptor
    <2>4. found' \in [PIDs -> Codecs]
      BY <1>9 DEF Descriptor, Codecs
    <2>5. touched' \in Int /\ touched' < PacketSize
      BY <1>9, <2>1, <2>2 DEF Descriptor
    <2> QED
      BY <2>1, <2>3, <2>4, <2>5
  <1>10. CASE DescriptorsEnd
    BY <1>10 DEF DescriptorsEnd
  <1>11. CASE UNCHANGED vars
    BY <1>11 DEF vars
  <1> HIDE DEF IInv, InPacket, TypeOK, Offsets
  <1> QED
    BY <1>1, <1>2, <1>3, <1>4, <1>5, <1>6, <1>7, <1>8, <1>9, <1>10, <1>11 DEF Next, Step

THEOREM Invariance == Spec => []IInv
  <1>1. Init => IInv
    BY InitIInv
  <1>2. IInv /\ [Next]_vars => IInv'
    BY NextIInv
  <1> QED
    BY <1>1, <1>2, PTL DEF Spec

\* The parser keeps the types of its variables: positions stay where the code
\* may use them as offsets (ts_parser.go).
THEOREM TypeCorrect == Spec => []TypeOK
  <1>1. IInv => TypeOK
    BY DEF IInv
  <1> QED
    BY <1>1, Invariance, PTL

\* Whatever a packet holds, feed() never reads beyond it, for every packet size
\* and every value of every length field.
THEOREM StaysInPacket == Spec => []ReadsInPacket
  <1>1. IInv => ReadsInPacket
    BY DEF IInv, InPacket, ReadsInPacket
  <1> QED
    BY <1>1, Invariance, PTL

-----------------------------------------------------------------------------

\* What a step inside feed() makes smaller or brings forward.
Progress ==
    pc # "idle" /\ pc' # "idle" =>
        \/ left' < left
        \/ left' = left /\ pc \in {"pat", "pmt"} /\ (pos' > pos \/ pc' = "loop")
        \/ /\ left' = left /\ pos' = pos /\ pc = "entry"
           /\ (start' > start /\ start' <= pos') \/ pc' = "pmt"

LEMMA NextProgress == IInv /\ [Next]_vars => [Progress]_vars
  <1> SUFFICES ASSUME IInv, Next PROVE Progress
    BY DEF Progress
  <1> USE TSAssumption DEF TSAssumption, Progress, IInv, InPacket, TypeOK, Offsets
  <1>1. ASSUME NEW n \in Chunks, Feed(n) PROVE Progress
    BY <1>1 DEF Feed
  <1>2. CASE Return
    BY <1>2 DEF Return
  <1>3. CASE Resync
    BY <1>3 DEF Resync
  <1>4. CASE Packet
    <2>1. left' = left - PacketSize
      BY <1>4 DEF Packet, TakePacket
    <2> QED
      BY <2>1
  <1>5. CASE PATEntry
    BY <1>5 DEF PATEntry
  <1>6. CASE PATEnd
    BY <1>6 DEF PATEnd
  <1>7. ASSUME NEW type \in StreamTypes, NEW pid \in PIDs, NEW len \in Lengths, PMTEntry(type, pid, len)
        PROVE  Progress
    <2>1. pos + 5 + len \in Int /\ pos' = Clip(pos + 5 + len, PacketSize) /\ pos + 5 <= PacketSize
      BY <1>7 DEF PMTEntry
    <2>2. pos' > pos
      BY <2>1 DEF Clip
    <2>3. pc = "pmt" /\ left' = left
      BY <1>7 DEF PMTEntry
    <2> QED
      BY <2>2, <2>3
  <1>8. CASE PMTEnd
    BY <1>8 DEF PMTEnd
  <1>9. ASSUME NEW len \in Lengths, NEW registration \in BOOLEAN, Descriptor(len, registration)
        PROVE  Progress
    <2>1. pc = "entry" /\ start + 2 <= pos /\ left' = left /\ pos' = pos
      BY <1>9 DEF Descriptor
    <2>2. DescriptorEnd(len) \in Int /\ DescriptorEnd(len) <= pos /\ DescriptorEnd(len) > start
      <3>1. start + 2 + len \in Int /\ start + 2 + len >= start + 2
        OBVIOUS
      <3> QED
        BY <2>1, <3>1 DEF DescriptorEnd, Clip
    <2>3. pc' = "pmt" \/ start' = DescriptorEnd(len)
      BY <1>9 DEF Descriptor
    <2> QED
      BY <2>1, <2>2, <2>3
  <1>10. CASE DescriptorsEnd
    BY <1>10 DEF DescriptorsEnd
  <1> HIDE DEF Progress, IInv, InPacket, TypeOK, Offsets
  <1> QED
    BY <1>1, <1>2, <1>3, <1>4, <1>5, <1>6, <1>7, <1>8, <1>9, <1>10 DEF Next, Step

\* Every turn of every loop of feed() and descriptorHasFourCC() advances, for
\* every value of every length field: none of them can go on for ever.
THEOREM AlwaysAdvances == Spec => Advances
  <1>1. IInv /\ [Next]_vars => [Progress]_vars
    BY NextProgress
  <1>2. Spec => [][Progress]_vars
    BY <1>1, Invariance, PTL DEF Spec
  <1> QED
    BY <1>2 DEF Advances, Progress

=============================================================================
