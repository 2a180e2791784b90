--------------------------- MODULE StreamContract ---------------------------
(***************************************************************************)
(* What one relay stream promises, without goroutines: a stream is         *)
(* created, opens its two ports while its schedule is active, serves at    *)
(* most one publisher connection at a time on its ingress port, closes the *)
(* ports only between sessions, and is retired for good once it has been   *)
(* removed.  A publisher connection is served at most once.                *)
(* StreamLifecycle is shown to implement this module.                      *)
(***************************************************************************)
EXTENDS FiniteSets

CONSTANTS
    Streams,    \* stream objects that may be created
    Senders     \* publisher connections

VARIABLES
    phase,      \* phase[s]: where stream s is in its life
    session,    \* session[s]: the publisher connection s is serving, {} if none
    spent       \* connections that were served or turned away

vars == <<phase, session, spent>>

Phases == {"absent", "idle", "open", "retired"}

Init ==
    /\ phase = [s \in Streams |-> "absent"]
    /\ session = [s \in Streams |-> {}]
    /\ spent = {}

Move(s, from, to) ==
    /\ phase[s] = from
    /\ phase' = [phase EXCEPT ![s] = to]

Create(s) ==
    /\ Move(s, "absent", "idle")
    /\ UNCHANGED <<session, spent>>

Open(s) ==
    /\ Move(s, "idle", "open")
    /\ UNCHANGED <<session, spent>>

\* A publisher connection that was still waiting may be lost with the port.
Close(s) ==
    /\ Move(s, "open", "idle")
    /\ session[s] = {}
    /\ \E lost \in SUBSET (Senders \ spent) : spent' = spent \cup lost
    /\ UNCHANGED session

Retire(s) ==
    /\ Move(s, "idle", "retired")
    /\ UNCHANGED <<session, spent>>

TurnAway ==
    /\ \E lost \in SUBSET (Senders \ spent) : spent' = spent \cup lost
    /\ UNCHANGED <<phase, session>>

StartSession(s, x) ==
    /\ phase[s] = "open"
    /\ session[s] = {}
    /\ x \notin spent
    /\ session' = [session EXCEPT ![s] = {x}]
    /\ spent' = spent \cup {x}
    /\ UNCHANGED phase

EndSession(s) ==
    /\ session[s] # {}
    /\ session' = [session EXCEPT ![s] = {}]
    /\ UNCHANGED <<phase, spent>>

Next ==
    \/ TurnAway
    \/ \E s \in Streams :
        \/ Create(s) \/ Open(s) \/ Close(s) \/ Retire(s) \/ EndSession(s)
        \/ \E x \in Senders : StartSession(s, x)

Spec == Init /\ [][Next]_vars

-----------------------------------------------------------------------------

TypeOK ==
    /\ phase \in [Streams -> Phases]
    /\ session \in [Streams -> SUBSET Senders]
    /\ spent \in SUBSET Senders

=============================================================================
