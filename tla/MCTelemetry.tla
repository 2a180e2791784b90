---------------------------- MODULE MCTelemetry ----------------------------
(* Instances of Telemetry for TLC.                                         *)
EXTENDS Telemetry, TLC

Kinds == {"ts", "efp", "plain", "raw", "noise"}
Names == {"H.264", "Opus"}

Message == [first |-> "other", size |-> 20, type |-> 0, fragments |-> 0,
            content |-> "unnamed", packed |-> 0, aligned |-> 0, pmt |-> <<>>]

Packets == {[Message EXCEPT !.first = "sync", !.type = 7, !.pmt = pmt] :
               pmt \in {<<>>, 1 :> "H.264", 2 :> "Opus", <<"AV1", "AV1">>}}

\* Fragments as a sender encodes them that packs its headers, or aligns them.
Fragments(first) ==
    {[Message EXCEPT !.first = first, !.type = type, !.fragments = 2] : type \in {1, 3}}
    \cup {[Message EXCEPT !.first = first, !.type = 4, !.size = 8]}
    \cup {[Message EXCEPT !.first = first, !.type = 2, !.size = 27 + n, !.content = c,
                          !.packed = n, !.aligned = 1] : n \in {0, 5}, c \in Names}
    \cup {[Message EXCEPT !.first = first, !.type = 2, !.size = 32 + n, !.content = c,
                          !.packed = 1, !.aligned = n] : n \in {0, 5}, c \in Names}

\* Bytes of another protocol that look like the head of a fragment.
Raw == {[Message EXCEPT !.type = t, !.size = n, !.fragments = f] : t \in 1..4, n \in {4, 40}, f \in {0, 1}}
       \cup {[Message EXCEPT !.first = "zeros", !.type = t, !.size = n] : t \in 1..3, n \in {4, 40}}

Sent == [ts    |-> Packets,
         efp   |-> Fragments("zeros"),
         plain |-> Fragments("other")
                  \cup {[Message EXCEPT !.type = 2, !.size = 32, !.packed = 5]},
         raw   |-> Raw,
         noise |-> {[Message EXCEPT !.first = "zeros", !.type = 4, !.size = 1]}]

Statistics == {[idle |-> i, loss |-> l, retrans |-> r, recv |-> n, delay |-> d] :
                  i \in BOOLEAN, l \in {0, 1, 12}, r \in {0, 1}, n \in {0, 100, 1000},
                  d \in {120, 421, 1500}}

=============================================================================
