------------------------------ MODULE TSParser ------------------------------
(***************************************************************************)
(* The MPEG-TS parser of internal/relay/ts_parser.go, as a machine over    *)
(* positions: feed() walks over a chunk packet by packet, a PAT names the  *)
(* PID of the PMT, the PMT the codecs, and every table is walked over by   *)
(* lengths read from the packet itself.  A packet may hold anything, so    *)
(* what is read is chosen; where it is read is computed as in the code.    *)
(*                                                                         *)
(* The parser runs in the goroutine of a stream, which recovers from       *)
(* nothing: an index outside the packet would end the program with all its *)
(* streams, and a loop that does not advance would hold the stream for     *)
(* ever.                                                                   *)
(***************************************************************************)
EXTENDS Integers

CONSTANTS
    PacketSize,     \* tsPacketSize
    Chunks,         \* lengths of the messages fed
    Lengths,        \* values of the length fields in packets
    PIDs,           \* values of the PID fields in packets; that of PATs is 0
    StreamTypes,    \* stream types in PMTs
    Named,          \* ... those of codecNames
    Private         \* 0x06: private data, AC-3 unless a descriptor says AV01

ASSUME TSAssumption ==
    /\ PacketSize \in Nat /\ PacketSize >= 5
    /\ Chunks \subseteq Nat /\ Lengths \subseteq Nat
    /\ PIDs \subseteq Nat /\ 0 \in PIDs
    /\ Named \subseteq StreamTypes /\ Private \in Named
    /\ "AV1" \notin StreamTypes /\ "none" \notin StreamTypes

VARIABLES
    pc,         \* "idle", at the head of feed's "loop", there after a resync
                \* ("synced"), in the loop of a "pat" or "pmt", in
                \* descriptorHasFourCC for an "entry"
    left,       \* len(data)
    pos, end,   \* of the table, offsets in pkt
    start,      \* of the next descriptor of the entry, whose last is at pos
    epid,       \* elementaryPID of the entry
    pmtPID,     \* -1 before a PAT
    found,      \* the codec of each elementary PID, "none" if there is none
    touched     \* the highest offset the last step read in its packet

vars == <<pc, left, pos, end, start, epid, pmtPID, found, touched>>

Offsets == 0..PacketSize
Codecs  == Named \cup {"AV1", "none"}

TypeOK ==
    /\ pc \in {"idle", "loop", "synced", "pat", "pmt", "entry"}
    /\ left \in Nat
    /\ pos \in Nat
    /\ end \in -1..PacketSize
    /\ start \in Offsets
    /\ epid \in PIDs
    /\ pmtPID \in PIDs \cup {-1}
    /\ found \in [PIDs -> Codecs]
    /\ touched \in Int

Init ==
    /\ pc = "idle"
    /\ left = 0
    /\ pos = 0 /\ end = 0 /\ start = 0
    /\ epid = 0
    /\ pmtPID = -1
    /\ found = [p \in PIDs |-> "none"]
    /\ touched = -1

\* MUTANT: nothing is cut off.
ClipNot(i, limit) == i

\* An offset that may lie beyond what is there is cut off.
Clip(i, limit) == IF i > limit THEN limit ELSE i

-----------------------------------------------------------------------------
(* The chunk *)

Feed(n) ==
    /\ pc = "idle"
    /\ pc' = "loop"
    /\ left' = n
    /\ touched' = -1
    /\ UNCHANGED <<pos, end, start, epid, pmtPID, found>>

\* Less than a packet is left.
Return ==
    /\ pc \in {"loop", "synced"}
    /\ left < PacketSize
    /\ pc' = "idle"
    /\ touched' = -1
    /\ UNCHANGED <<left, pos, end, start, epid, pmtPID, found>>

\* data[0] is no sync byte: go to the next one, or give up.
Resync ==
    /\ pc = "loop"
    /\ left >= PacketSize
    /\ \/ pc' = "idle" /\ UNCHANGED left
       \/ \E idx \in 1..(left - 1) : left' = left - idx /\ pc' = "synced"
    /\ touched' = -1
    /\ UNCHANGED <<pos, end, start, epid, pmtPID, found>>

\* MUTANT: the pointer field is not counted.
FitsWithoutPointer(section, h) == section - 1 + h <= PacketSize

\* The header of a section, h bytes, is within the packet.
Fits(section, h) == section + h <= PacketSize

\* A section of len bytes whose entries begin at first; read is the last
\* offset looked at for that.
OpenTable(table, section, len, first, read) ==
    /\ pc' = table
    /\ pos' = first
    /\ end' = Clip(section + 3 + len - 4, PacketSize)
    /\ touched' = read

\* A packet with the sync byte; section is where a section begins in it.
TakePacket(pid, pusi, section) ==
    LET pat == pid = 0 /\ pusi /\ Fits(section, 8)
        pmt == pid # 0 /\ pid = pmtPID /\ pusi /\ Fits(section, 12)
    IN  /\ pc \in {"loop", "synced"}
        /\ left >= PacketSize
        /\ left' = left - PacketSize
        /\ \/ /\ pat
              /\ \E len \in Lengths : OpenTable("pat", section, len, section + 8, section + 2)
           \/ /\ pmt
              /\ \E len, info \in Lengths :
                    OpenTable("pmt", section, len, section + 12 + info, section + 11)
           \/ /\ ~pat /\ ~pmt
              /\ touched' = 4
              /\ pc' = "loop"
              /\ UNCHANGED <<pos, end>>
        /\ UNCHANGED <<start, epid, pmtPID, found>>

\* payloadStart, after an adaptation field if there is one, and the pointer.
Packet ==
    \E pid \in PIDs, pusi \in BOOLEAN, payload \in {4} \cup {4 + len + 1 : len \in Lengths} :
        TakePacket(pid, pusi, payload + IF pusi THEN 1 ELSE 0)

-----------------------------------------------------------------------------
(* The tables *)

\* Program 0 is the network PID; of several programs the last one counts.
PATEntry ==
    /\ pc = "pat"
    /\ pos + 4 <= end
    /\ pmtPID' \in PIDs \cup {pmtPID}
    /\ pos' = pos + 4
    /\ touched' = pos + 3
    /\ UNCHANGED <<pc, left, end, start, epid, found>>

PATEnd ==
    /\ pc = "pat"
    /\ pos + 4 > end
    /\ pc' = "loop"
    /\ touched' = -1
    /\ pos' = 0 /\ end' = 0
    /\ UNCHANGED <<left, start, epid, pmtPID, found>>

\* One elementary stream; for private data the descriptors are looked at next.
PMTEntry(type, pid, len) ==
    /\ pc = "pmt"
    /\ pos + 5 <= end
    /\ pos' = Clip(pos + 5 + len, PacketSize)
    /\ touched' = pos + 4
    /\ \/ type = Private /\ pc' = "entry" /\ start' = pos + 5 /\ epid' = pid
       \/ type # Private /\ UNCHANGED <<pc, start, epid>>
    /\ found' = IF type \in Named THEN [found EXCEPT ![pid] = type] ELSE found
    /\ UNCHANGED <<left, end, pmtPID>>

\* MUTANT: the loop ends exactly where the section does, or not at all.
PMTEndExact ==
    /\ pc = "pmt"
    /\ pos = end
    /\ pc' = "loop"
    /\ touched' = -1
    /\ pos' = 0 /\ end' = 0
    /\ UNCHANGED <<left, start, epid, pmtPID, found>>

PMTEnd ==
    /\ pc = "pmt"
    /\ pos + 5 > end
    /\ pc' = "loop"
    /\ touched' = -1
    /\ pos' = 0 /\ end' = 0
    /\ UNCHANGED <<left, start, epid, pmtPID, found>>

\* MUTANT: the tag and length bytes are not counted.
DescriptorEndWithoutHeader(len) == Clip(start + len, pos)

DescriptorEnd(len) == Clip(start + 2 + len, pos)

\* A descriptor with len bytes; if it is a registration descriptor its first
\* four bytes are compared with "AV01".
Descriptor(len, registration) ==
    LET dend    == DescriptorEnd(len)
        compare == registration /\ len >= 4 /\ start + 6 <= dend
    IN  /\ pc = "entry"
        /\ start + 2 <= pos
        /\ \/ /\ compare
              /\ pc' = "pmt"
              /\ found' = [found EXCEPT ![epid] = "AV1"]
              /\ start' = 0 /\ epid' = 0
           \/ /\ start' = dend
              /\ UNCHANGED <<pc, epid, found>>
        /\ touched' = IF compare THEN start + 5 ELSE start + 1
        /\ UNCHANGED <<left, pos, end, pmtPID>>

DescriptorsEnd ==
    /\ pc = "entry"
    /\ start + 2 > pos
    /\ pc' = "pmt"
    /\ touched' = -1
    /\ start' = 0 /\ epid' = 0
    /\ UNCHANGED <<left, pos, end, pmtPID, found>>

-----------------------------------------------------------------------------

Step ==
    \/ Return \/ Resync \/ Packet
    \/ PATEntry \/ PATEnd
    \/ \E type \in StreamTypes, pid \in PIDs, len \in Lengths : PMTEntry(type, pid, len)
    \/ PMTEnd
    \/ \E len \in Lengths, registration \in BOOLEAN : Descriptor(len, registration)
    \/ DescriptorsEnd

Next == Step \/ \E n \in Chunks : Feed(n)

Spec == Init /\ [][Next]_vars

\* feed() is a loop without a wait: it runs on while it can.
FairSpec == Spec /\ WF_vars(Step)

-----------------------------------------------------------------------------
(* Properties *)

\* Whatever lengths a packet holds, feed() reads within that packet: an index
\* beyond it would panic, in a goroutine without recover.
ReadsInPacket == touched < PacketSize

\* Every turn of every loop of feed() advances: in the chunk, else in the
\* table, else in the descriptors of an entry.  A length of zero does not hold
\* it up, nor does one that was cut off.
Advances ==
    [][pc # "idle" /\ pc' # "idle" =>
        \/ left' < left
        \/ left' = left /\ pc \in {"pat", "pmt"} /\ (pos' > pos \/ pc' = "loop")
        \/ /\ left' = left /\ pos' = pos /\ pc = "entry"
           /\ (start' > start /\ start' <= pos') \/ pc' = "pmt"]_vars

\* feed() returns from every chunk.
Returns == pc # "idle" ~> pc = "idle"

=============================================================================
