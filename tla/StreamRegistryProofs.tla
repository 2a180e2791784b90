------------------------- MODULE StreamRegistryProofs -------------------------
(***************************************************************************)
(* The registry and its file are right for any number of ids, requests,    *)
(* streams and crashes: the file is current whenever nobody is writing it, *)
(* no removed stream comes back, no added one is lost but by a crash that  *)
(* hits a write, no stream is stopped twice, and with one request at a     *)
(* time no port is booked twice.                                           *)
(***************************************************************************)
EXTENDS StreamRegistry, SequenceTheorems, TLAPS

(* The invariant *)

\* A removal or a change of a schedule has still to be written.
Dirty == \E a \in Actors : pc[a] \in {"close", "await", "persist"}

Writing == \E a \in Actors : pc[a] = "write"

\* Arguments and objects are there when an operation comes to use them.
Arguments ==
    \A a \in Actors :
        /\ pc[a] \notin {"idle", "decide"} => arg[a].id \in Ids
        /\ pc[a] \in {"close", "update"} => arg[a].obj \in 1..Len(objects)

\* Which actors work in which phase of the process, and who holds r.mu.
Phases ==
    /\ pc[Loader] \in {"idle", "write"}
    /\ up # "loading" => pc[Loader] = "idle" /\ DOMAIN toLoad = {}
    /\ up # "up" => \A a \in Actors \ {Loader} : pc[a] = "idle"
    /\ up = "down" => Registered = {}
    /\ pc[Loader] = "write" => arg[Loader].id \in Registered
    /\ \A a, b \in Actors : pc[a] = "write" /\ pc[b] = "write" => a = b

\* The map holds objects under their ids, and none that is being stopped.
MapIsSound ==
    /\ \A i \in Registered : objects[streams[i]].id = i /\ streams[i] \notin stopped
    /\ \A a \in Actors : pc[a] = "close" => \A i \in Ids : streams[i] # arg[a].obj

\* What is in the file, about to be written to it, or read from it.
FileIsRight ==
    /\ Writing => /\ torn
                  /\ DOMAIN image = Registered
                  /\ Dirty \/ image = Content(streams, objects)
    /\ ~Writing /\ up = "up" =>
        Dirty \/ IF torn THEN Registered = {} ELSE file = Content(streams, objects)
    /\ ~Writing /\ up = "loading" =>
        \/ Registered = {} /\ IF torn THEN DOMAIN toLoad = {} ELSE file = toLoad
        \/ ~torn /\ file = Content(streams, objects)

\* A removed stream is not about to be loaded either.
NothingLoaded == dropped \cap DOMAIN toLoad = {}

\* Where a stream that was added is to be found.
KeptSomewhere ==
    /\ up = "up" /\ ~torn => Registered \subseteq DOMAIN file
    /\ ~hurt /\ up = "up" => kept \subseteq Registered
    /\ ~hurt /\ up = "down" => ~torn /\ kept \subseteq DOMAIN file
    /\ ~hurt /\ up = "loading" => kept \subseteq Registered \cup DOMAIN toLoad

Ports(in) == {in, EgressFor(in)}

\* No port is booked twice by the entries of f.
NoClash(f) == \A i, j \in DOMAIN f : i # j => Ports(f[i].in) \cap Ports(f[j].in) = {}

\* With one request at a time, what it has checked is still so when it adds.
ChecksHold ==
    \A h \in Handlers :
        /\ pc[h] \in {"checkOut", "add"} => ~PortClaimed(arg[h].in)
        /\ pc[h] = "add" => ~PortClaimed(EgressFor(arg[h].in))

PortsInv ==
    /\ PortsExclusive /\ ChecksHold
    /\ NoClash(file) /\ NoClash(image) /\ NoClash(toLoad)
    /\ \A i \in Registered, j \in DOMAIN toLoad :
        i # j /\ PortsOf(i) \cap Ports(toLoad[j].in) = {}

IInv ==
    /\ TypeOK /\ Arguments /\ Phases
    /\ MapIsSound /\ StoppedOnce /\ StrayOnlyIfReplaced
    /\ FileIsRight /\ NothingComesBack /\ NothingLoaded /\ KeptSomewhere
-----------------------------------------------------------------------------
(* Ports, files and objects *)

Places == {"idle", "checkIn", "checkOut", "add", "write", "delete",
           "close", "await", "persist", "get", "update", "decide"}

Entries == [in : InPorts, plan : Plans]

Objects == [id : Ids, in : InPorts, plan : Plans]

Arg == [id : Ids \cup {NoId}, in : InPorts, plan : Plans, obj : 0..Len(objects)]

LEMMA SomePort == NoPort \in InPorts
  <1>1. PortPairs # {}
    <2>1. CASE PortFile # <<>>
      <3>1. ValidEntries(PortFile)
        BY PortsAssumption DEF PortsAssumption
      <3>2. PortFile \in Seq(PortNumber \X PortNumber)
        BY <3>1, Zenon DEF ValidEntries
      <3>3. 1 \in DOMAIN PortFile
        <4>1. Len(PortFile) \in Nat \ {0}
          BY <2>1, <3>2, EmptySeq, Zenon
        <4>2. DOMAIN PortFile = 1..Len(PortFile)
          BY <3>2, LenProperties, Zenon
        <4> QED
          BY <4>1, <4>2
      <3> QED
        BY <2>1, <3>3 DEF PortPairs
    <2>2. CASE PortFile = <<>>
      <3>1. PortLow \in PortLow..PortHigh
        BY PortsAssumption DEF PortsAssumption
      <3> QED
        BY <2>2, <3>1 DEF PortPairs
    <2> QED
      BY <2>1, <2>2
  <1>2. InPorts # {}
    BY <1>1 DEF InPorts
  <1> QED
    BY <1>2 DEF NoPort

LEMMA SomeActors == /\ Scheduler \in Actors /\ Loader \in Actors /\ Handlers \subseteq Actors
                    /\ Loader # Scheduler /\ Loader \notin Handlers /\ Scheduler \notin Handlers
  BY PortsAssumption DEF PortsAssumption, Actors

LEMMA NoArgFacts == /\ NoArg \in Arg
                    /\ NoArg = [id |-> NoId, in |-> NoPort, plan |-> "stays", obj |-> 0]
                    /\ NoArg.obj = 0
  <1>1. 0 \in 0..Len(objects)
    OBVIOUS
  <1> QED
    BY <1>1, SomePort DEF NoArg, Arg, Plans

LEMMA FileFacts ==
    ASSUME NEW f \in Files
    PROVE  /\ DOMAIN f \subseteq Ids
           /\ \A i \in DOMAIN f : f[i] \in Entries /\ f[i].in \in InPorts /\ f[i].plan \in Plans
  BY DEF Files, Entries

LEMMA MadeFile ==
    ASSUME NEW D \in SUBSET Ids, NEW f \in [D -> Entries]
    PROVE  f \in Files /\ DOMAIN f = D
  BY DEF Files, Entries

LEMMA NoEntries == /\ <<>> \in Files /\ DOMAIN <<>> = {}
                   /\ \A f \in Files : DOMAIN f = {} => f = <<>>
  BY DEF Files

\* What is written is one entry for each stream of the map.
LEMMA ContentFacts ==
    ASSUME NEW obs \in Seq(Objects), NEW st \in [Ids -> 0..Len(obs)]
    PROVE  /\ Content(st, obs) \in Files
           /\ DOMAIN Content(st, obs) = {i \in Ids : st[i] # 0}
           /\ \A i \in Ids : st[i] # 0 => Content(st, obs)[i].in = obs[st[i]].in
  <1> DEFINE D == {i \in Ids : st[i] # 0}
             f == Content(st, obs)
  <1>1. f = [i \in D |-> [in |-> obs[st[i]].in, plan |-> obs[st[i]].plan]]
    BY DEF Content
  <1>2. ASSUME NEW i \in D
        PROVE  [in |-> obs[st[i]].in, plan |-> obs[st[i]].plan] \in Entries
    <2>1. st[i] \in 1..Len(obs)
      OBVIOUS
    <2>2. obs[st[i]] \in Objects
      BY <2>1, ElementOfSeq
    <2> QED
      BY <2>2 DEF Objects, Entries
  <1>3. f \in [D -> Entries]
    BY <1>1, <1>2
  <1>4. f \in Files /\ DOMAIN f = D
    BY <1>3, MadeFile
  <1> QED
    BY <1>1, <1>4

\* A map without streams is written as a file without entries.
LEMMA NoContent ==
    ASSUME NEW obs \in Seq(Objects), NEW st \in [Ids -> 0..Len(obs)],
           {i \in Ids : st[i] # 0} = {}
    PROVE  \A f \in Files : DOMAIN f = {} => f = Content(st, obs)
  <1> DEFINE c == Content(st, obs)
  <1>1. c \in Files /\ DOMAIN c = {}
    BY ContentFacts
  <1> HIDE DEF c
  <1>2. \A f \in Files : DOMAIN f = {} => f = c
    BY <1>1, NoEntries, Zenon
  <1> QED
    BY <1>2 DEF c

LEMMA Typed ==
    ASSUME TypeOK
    PROVE  /\ objects \in Seq(Objects) /\ Len(objects) \in Nat
           /\ streams \in [Ids -> 0..Len(objects)]
           /\ pc \in [Actors -> Places] /\ arg \in [Actors -> Arg]
           /\ \A o \in 1..Len(objects) : objects[o] \in Objects
  <1>1. objects \in Seq(Objects)
    BY DEF TypeOK, Objects
  <1>2. Len(objects) \in Nat /\ \A o \in 1..Len(objects) : objects[o] \in Objects
    <2>1. Len(objects) \in Nat
      BY <1>1, LenProperties, Zenon
    <2>2. \A o \in 1..Len(objects) : objects[o] \in Objects
      BY <1>1, ElementOfSeq, Zenon
    <2> QED
      BY <2>1, <2>2
  <1>3. streams \in [Ids -> 0..Len(objects)] /\ pc \in [Actors -> Places] /\ arg \in [Actors -> Arg]
    BY Zenon DEF TypeOK, Places, Arg
  <1> QED
    BY <1>1, <1>2, <1>3

-----------------------------------------------------------------------------
(* What the steps do, actor by actor and object by object *)

LEMMA GotoEffect ==
    ASSUME TypeOK, NEW a \in Actors, NEW from, NEW to \in Places, Goto(a, from, to)
    PROVE  /\ pc[a] = from /\ pc'[a] = to /\ pc' \in [Actors -> Places]
           /\ \A b \in Actors \ {a} : pc'[b] = pc[b]
  BY Typed DEF Goto

LEMMA EndEffect ==
    ASSUME TypeOK, NEW a \in Actors, NEW from, End(a, from)
    PROVE  /\ pc[a] = from /\ pc'[a] = Rest(a) /\ pc' \in [Actors -> Places]
           /\ \A b \in Actors \ {a} : pc'[b] = pc[b] /\ arg'[b] = arg[b]
           /\ arg' \in [Actors -> Arg] /\ arg'[a] = NoArg
  <1>1. Goto(a, from, Rest(a)) /\ arg' = [arg EXCEPT ![a] = NoArg]
    BY DEF End
  <1>2. Rest(a) \in Places
    BY DEF Rest, Places
  <1> QED
    BY <1>1, <1>2, GotoEffect, Typed, NoArgFacts

\* A step of an operation that neither takes or releases r.mu nor decides what
\* is saved: actor a goes from one place to another, and no more.
Silent(a) ==
    /\ up = "up" /\ a \in Actors \ {Loader}
    /\ \A b \in Actors \ {a} : pc'[b] = pc[b] /\ arg'[b] = arg[b]
    /\ pc[a] \notin {"close", "write"} /\ pc'[a] \notin {"close", "write"}
    /\ pc[a] \in {"await", "persist"} <=> pc'[a] \in {"await", "persist"}
    /\ UNCHANGED <<up, streams, objects, running, stopped, file, torn, image, toLoad,
                   crashes, kept, dropped, hurt>>
    /\ snapshot' \subseteq 1..Len(objects)
    /\ pc' \in [Actors -> Places] /\ arg' \in [Actors -> Arg]
    /\ pc'[a] \notin {"idle", "decide"} => arg'[a].id \in Ids
    /\ pc'[a] = "update" => arg'[a].obj \in 1..Len(objects)
    /\ pc'[a] = "checkOut" => ~PortClaimed(arg'[a].in)
    /\ pc'[a] = "add" =>
        pc[a] = "checkOut" /\ arg'[a] = arg[a] /\ ~PortClaimed(EgressFor(arg'[a].in))

LEMMA BeginIsSilent ==
    ASSUME TypeOK, NEW h \in Handlers, NEW at \in Places, NEW id \in Ids, NEW in \in InPorts,
           NEW plan \in Plans, Begin(h, at, id, in, plan), at \in {"checkIn", "delete", "get"}
    PROVE  Silent(h)
  <1> DEFINE e == [id |-> id, in |-> in, plan |-> plan, obj |-> 0]
  <1>1. /\ up = "up" /\ Goto(h, "idle", at) /\ arg' = [arg EXCEPT ![h] = e]
        /\ UNCHANGED <<up, memory, disk, toLoad, crashes, history>>
    BY DEF Begin
  <1>2. h \in Actors \ {Loader} /\ snapshot \subseteq 1..Len(objects)
    BY SomeActors DEF TypeOK
  <1>3. e \in Arg /\ e.id = id
    BY Typed DEF Arg
  <1> HIDE DEF e
  <1>4. /\ pc[h] = "idle" /\ pc'[h] = at /\ pc' \in [Actors -> Places]
        /\ \A b \in Actors \ {h} : pc'[b] = pc[b]
    BY <1>1, <1>2, GotoEffect
  <1>5. arg' \in [Actors -> Arg] /\ arg'[h] = e /\ \A b \in Actors \ {h} : arg'[b] = arg[b]
    BY <1>1, <1>2, <1>3, Typed
  <1> QED
    BY <1>1, <1>2, <1>3, <1>4, <1>5 DEF Silent, memory, disk, history

\* An operation that ends, or goes on with the arguments it has.
LEMMA EndIsSilent ==
    ASSUME TypeOK, Phases, NEW a \in Actors, NEW from \in {"checkIn", "checkOut", "delete", "get"},
           End(a, from), UNCHANGED <<up, memory, disk, toLoad, crashes, history>>
    PROVE  Silent(a)
  <1>1. /\ pc[a] = from /\ pc'[a] = Rest(a) /\ pc' \in [Actors -> Places]
        /\ \A b \in Actors \ {a} : pc'[b] = pc[b] /\ arg'[b] = arg[b]
        /\ arg' \in [Actors -> Arg]
    BY EndEffect
  <1>2. up = "up" /\ a # Loader /\ snapshot \subseteq 1..Len(objects)
    BY <1>1 DEF Phases, TypeOK
  <1>3. Rest(a) \in {"idle", "decide"}
    BY DEF Rest
  <1> QED
    BY <1>1, <1>2, <1>3 DEF Silent, memory, disk, history

LEMMA GoesOnSilent ==
    ASSUME TypeOK, Arguments, Phases, NEW a \in Actors, NEW from \in Places, NEW to \in Places,
           Goto(a, from, to), UNCHANGED <<up, memory, arg, disk, toLoad, crashes, history>>,
           <<from, to>> \in {<<"checkIn", "checkOut">>, <<"checkOut", "add">>, <<"await", "persist">>,
                             <<"decide", "idle">>},
           to = "checkOut" => ~PortClaimed(arg[a].in),
           to = "add" => ~PortClaimed(EgressFor(arg[a].in))
    PROVE  Silent(a)
  <1>1. /\ pc[a] = from /\ pc'[a] = to /\ pc' \in [Actors -> Places]
        /\ \A b \in Actors \ {a} : pc'[b] = pc[b]
    BY GotoEffect
  <1>2. up = "up" /\ a # Loader /\ snapshot \subseteq 1..Len(objects)
    BY <1>1 DEF Phases, TypeOK
  <1>3. arg' = arg /\ arg \in [Actors -> Arg]
    BY Typed
  <1>4. to # "idle" => arg[a].id \in Ids
    BY <1>1 DEF Arguments
  <1> QED
    BY <1>1, <1>2, <1>3, <1>4 DEF Silent, memory, disk, history

LEMMA AddEffect ==
    ASSUME TypeOK, NEW o, o = Len(objects) + 1, NEW e \in Objects, objects' = Append(objects, e)
    PROVE  /\ objects' \in Seq(Objects) /\ Len(objects') = o
           /\ \A x \in 1..Len(objects) : objects'[x] = objects[x]
           /\ objects'[o] = e
  BY Typed, AppendProperties

LEMMA RegisterEffect ==
    ASSUME TypeOK, NEW a \in Actors, NEW from, NEW id \in Ids, NEW in \in InPorts, NEW plan \in Plans,
           Goto(a, from, "write"), Register(a, id, in, plan)
    PROVE  LET o == Len(objects) + 1
           IN  /\ ~Writing
               /\ objects' \in Seq(Objects) /\ Len(objects') = o
               /\ \A x \in 1..Len(objects) : objects'[x] = objects[x]
               /\ objects'[o].id = id /\ objects'[o].in = in
               /\ streams' \in [Ids -> 0..o] /\ streams'[id] = o
               /\ \A i \in Ids \ {id} : streams'[i] = streams[i]
               /\ running' = running \cup {o}
               /\ arg' \in [Actors -> [id : Ids \cup {NoId}, in : InPorts, plan : Plans, obj : 0..o]]
               /\ arg'[a].id = id /\ arg'[a].obj = o
               /\ pc' \in [Actors -> Places] /\ pc[a] = from /\ pc'[a] = "write"
               /\ \A b \in Actors \ {a} : pc'[b] = pc[b] /\ arg'[b] = arg[b]
               /\ image' = Content(streams', objects') /\ torn' /\ file' = file
               /\ UNCHANGED <<up, stopped, snapshot, crashes>>
  <1> DEFINE o == Len(objects) + 1
             e == [id |-> id, in |-> in, plan |-> plan]
  <1>1. /\ Free /\ streams' = [streams EXCEPT ![id] = o] /\ objects' = Append(objects, e)
        /\ running' = running \cup {o}
        /\ arg' = [arg EXCEPT ![a] = [id |-> id, in |-> in, plan |-> plan, obj |-> o]]
        /\ image' = Content(streams', objects') /\ torn' = TRUE /\ file' = file
        /\ UNCHANGED <<up, stopped, snapshot, crashes>>
    BY DEF Register, BeginWrite
  <1>2. e \in Objects /\ e.id = id /\ e.in = in
    BY DEF Objects
  <1>3. /\ objects' \in Seq(Objects) /\ Len(objects') = o
        /\ \A x \in 1..Len(objects) : objects'[x] = objects[x]
        /\ objects'[o] = e
    BY <1>1, <1>2, AddEffect
  <1>4. Len(objects) \in Nat /\ o \in 0..o
    BY Typed
  <1>5. streams' \in [Ids -> 0..o] /\ streams'[id] = o /\ \A i \in Ids \ {id} : streams'[i] = streams[i]
    BY <1>1, <1>4, Typed
  <1>6. /\ arg' \in [Actors -> [id : Ids \cup {NoId}, in : InPorts, plan : Plans, obj : 0..o]]
        /\ arg'[a].id = id /\ arg'[a].obj = o
        /\ \A b \in Actors \ {a} : arg'[b] = arg[b]
    BY <1>1, <1>4, Typed DEF Arg
  <1>7. /\ pc' \in [Actors -> Places] /\ pc[a] = from /\ pc'[a] = "write"
        /\ \A b \in Actors \ {a} : pc'[b] = pc[b]
    BY GotoEffect DEF Places
  <1>8. ~Writing
    BY <1>1 DEF Free, Writing
  <1> HIDE DEF o, e
  <1>9. objects'[o].id = id /\ objects'[o].in = in
    BY <1>2, <1>3
  <1> QED
    BY <1>1, <1>3, <1>5, <1>6, <1>7, <1>8, <1>9 DEF o

\* A changed schedule leaves id and ports as they are.
LEMMA UpdateEffect ==
    ASSUME TypeOK, Arguments, NEW h \in Actors, UpdateSchedule(h)
    PROVE  /\ objects' \in Seq(Objects) /\ Len(objects') = Len(objects)
           /\ \A x \in 1..Len(objects) :
                objects'[x].id = objects[x].id /\ objects'[x].in = objects[x].in
           /\ pc' \in [Actors -> Places] /\ pc[h] = "update" /\ pc'[h] = "persist"
           /\ arg' \in [Actors -> Arg]
           /\ arg'[h].id = arg[h].id
           /\ \A b \in Actors \ {h} : pc'[b] = pc[b] /\ arg'[b] = arg[b]
           /\ UNCHANGED <<up, streams, running, stopped, snapshot, disk, toLoad, crashes, history>>
  <1> DEFINE o == arg[h].obj
             e == [objects[o] EXCEPT !.plan = arg[h].plan]
  <1>1. /\ Goto(h, "update", "persist") /\ objects' = [objects EXCEPT ![o] = e]
        /\ arg' = [arg EXCEPT ![h].obj = 0]
        /\ UNCHANGED <<up, streams, running, stopped, snapshot, disk, toLoad, crashes, history>>
    BY DEF UpdateSchedule
  <1>2. /\ pc' \in [Actors -> Places] /\ pc[h] = "update" /\ pc'[h] = "persist"
        /\ \A b \in Actors \ {h} : pc'[b] = pc[b]
    BY <1>1, GotoEffect DEF Places
  <1>3. o \in 1..Len(objects) /\ arg[h].plan \in Plans
    BY <1>2, Typed DEF Arguments, Arg
  <1>4. e \in Objects /\ e.id = objects[o].id /\ e.in = objects[o].in
    BY <1>3, Typed DEF Objects
  <1> HIDE DEF o, e
  <1>5. /\ objects' \in Seq(Objects) /\ Len(objects') = Len(objects)
        /\ \A x \in 1..Len(objects) : objects'[x] = IF x = o THEN e ELSE objects[x]
    BY <1>1, <1>3, <1>4, Typed, ExceptSeq
  <1>6. \A x \in 1..Len(objects) : objects'[x].id = objects[x].id /\ objects'[x].in = objects[x].in
    BY <1>4, <1>5
  <1>7. /\ arg' \in [Actors -> Arg] /\ arg'[h].id = arg[h].id
        /\ \A b \in Actors \ {h} : arg'[b] = arg[b]
    <2> DEFINE q == [arg[h] EXCEPT !.obj = 0]
    <2>1. arg[h] \in Arg /\ 0 \in 0..Len(objects)
      BY Typed
    <2>2. q \in Arg /\ q.id = arg[h].id
      BY <2>1 DEF Arg
    <2> HIDE DEF q
    <2>3. arg' = [arg EXCEPT ![h] = q]
      BY <1>1 DEF q
    <2> QED
      BY <2>2, <2>3, Typed
  <1> QED
    BY <1>1, <1>2, <1>5, <1>6, <1>7

LEMMA ArgWithObject ==
    ASSUME TypeOK, NEW r \in Arg, NEW o \in 1..Len(objects)
    PROVE  LET q == [r EXCEPT !.obj = o] IN q \in Arg /\ q.id = r.id /\ q.obj = o
  <1>1. o \in 0..Len(objects)
    BY Typed
  <1> QED
    BY <1>1 DEF Arg

LEMMA CheckIsSilent ==
    ASSUME TypeOK, Arguments, Phases, NEW h \in Handlers, CheckIn(h) \/ CheckOut(h)
    PROVE  Silent(h)
  <1>1. h \in Actors
    BY SomeActors
  <1>2. CASE CheckIn(h)
    <2>1. CASE Goto(h, "checkIn", "checkOut") /\ ~PortClaimed(arg[h].in) /\ UNCHANGED arg
      BY <1>1, <1>2, <2>1, GoesOnSilent DEF CheckIn, Check, Places
    <2>2. CASE End(h, "checkIn")
      BY <1>1, <1>2, <2>2, EndIsSilent DEF CheckIn, Check
    <2> QED
      BY <1>2, <2>1, <2>2 DEF CheckIn, Check
  <1>3. CASE CheckOut(h)
    <2>1. CASE Goto(h, "checkOut", "add") /\ ~PortClaimed(EgressFor(arg[h].in)) /\ UNCHANGED arg
      BY <1>1, <1>3, <2>1, GoesOnSilent DEF CheckOut, Check, Places
    <2>2. CASE End(h, "checkOut")
      BY <1>1, <1>3, <2>2, EndIsSilent DEF CheckOut, Check
    <2> QED
      BY <1>3, <2>1, <2>2 DEF CheckOut, Check
  <1> QED
    BY <1>2, <1>3

LEMMA AwaitIsSilent ==
    ASSUME TypeOK, Arguments, Phases, NEW a \in Actors, AwaitStopped(a)
    PROVE  Silent(a)
  BY GoesOnSilent DEF AwaitStopped, Places

LEMMA GetIsSilent ==
    ASSUME TypeOK, Arguments, Phases, NEW h \in Handlers, GetStream(h)
    PROVE  Silent(h)
  <1> DEFINE o == streams[arg[h].id]
  <1>1. h \in Actors \ {Loader}
    BY SomeActors
  <1>2. CASE End(h, "get")
    BY <1>1, <1>2, EndIsSilent DEF GetStream
  <1>3. CASE Goto(h, "get", "update") /\ o # 0 /\ arg' = [arg EXCEPT ![h].obj = o]
    <2> DEFINE q == [arg[h] EXCEPT !.obj = o]
    <2>1. /\ pc[h] = "get" /\ pc'[h] = "update" /\ pc' \in [Actors -> Places]
          /\ \A b \in Actors \ {h} : pc'[b] = pc[b]
      BY <1>1, <1>3, GotoEffect DEF Places
    <2>2. arg[h].id \in Ids
      BY <1>1, <2>1 DEF Arguments
    <2>3. o \in 1..Len(objects)
      BY <1>3, <2>2, Typed
    <2>4. q \in Arg /\ q.id = arg[h].id /\ q.obj = o
      BY <1>1, <2>3, Typed, ArgWithObject
    <2>5. arg' = [arg EXCEPT ![h] = q]
      BY <1>3
    <2>6. up = "up" /\ snapshot \subseteq 1..Len(objects)
      BY <1>1, <2>1 DEF Phases, TypeOK
    <2>7. UNCHANGED <<up, memory, disk, toLoad, crashes, history>>
      BY DEF GetStream
    <2> HIDE DEF o, q
    <2>8. arg' \in [Actors -> Arg] /\ arg'[h] = q /\ \A b \in Actors \ {h} : arg'[b] = arg[b]
      BY <1>1, <2>4, <2>5, Typed
    <2> QED
      BY <1>1, <2>1, <2>2, <2>3, <2>4, <2>6, <2>7, <2>8 DEF Silent, memory, disk, history
  <1> QED
    BY <1>2, <1>3 DEF GetStream

LEMMA TickIsSilent ==
    ASSUME TypeOK, Arguments, Phases, Tick
    PROVE  Silent(Scheduler)
  <1>1. Scheduler \in Actors \ {Loader}
    BY SomeActors
  <1>2. CASE TickEnds
    BY <1>1, <1>2, GoesOnSilent DEF TickEnds, Places
  <1>3. CASE TakeSnapshot
    <2>1. /\ pc[Scheduler] = "idle" /\ pc'[Scheduler] = "decide" /\ pc' \in [Actors -> Places]
          /\ \A b \in Actors \ {Scheduler} : pc'[b] = pc[b]
      BY <1>1, <1>3, GotoEffect DEF TakeSnapshot, Places
    <2>2. up = "up" /\ arg' = arg /\ arg \in [Actors -> Arg]
      BY <1>3, Typed DEF TakeSnapshot
    <2>3. snapshot' \subseteq 1..Len(objects)
      BY <1>3, Typed DEF TakeSnapshot, Registered
    <2>4. UNCHANGED <<up, streams, objects, running, stopped, disk, toLoad, crashes, history>>
      BY <1>3 DEF TakeSnapshot
    <2> QED
      BY <1>1, <2>1, <2>2, <2>3, <2>4 DEF Silent, disk, history
  <1>4. ASSUME NEW o \in snapshot, DecideToKeep(o) PROVE Silent(Scheduler)
    <2>1. /\ pc[Scheduler] = "decide" /\ pc'[Scheduler] = "decide" /\ pc' \in [Actors -> Places]
          /\ \A b \in Actors \ {Scheduler} : pc'[b] = pc[b]
      BY <1>1, <1>4, GotoEffect DEF DecideToKeep, Places
    <2>2. up = "up" /\ arg' = arg /\ arg \in [Actors -> Arg] /\ snapshot' \subseteq 1..Len(objects)
      BY <1>1, <1>4, <2>1, Typed DEF DecideToKeep, Phases, TypeOK
    <2>3. UNCHANGED <<up, streams, objects, running, stopped, disk, toLoad, crashes, history>>
      BY <1>4 DEF DecideToKeep
    <2> QED
      BY <1>1, <2>1, <2>2, <2>3 DEF Silent, disk, history
  <1>5. ASSUME NEW o \in snapshot, DecideToRemove(o) PROVE Silent(Scheduler)
    <2> DEFINE q == [arg[Scheduler] EXCEPT !.id = objects[o].id, !.obj = o]
    <2>1. /\ pc[Scheduler] = "decide" /\ pc'[Scheduler] = "delete" /\ pc' \in [Actors -> Places]
          /\ \A b \in Actors \ {Scheduler} : pc'[b] = pc[b]
      BY <1>1, <1>5, GotoEffect DEF DecideToRemove, Places
    <2>2. o \in 1..Len(objects) /\ objects[o].id \in Ids
      BY Typed DEF TypeOK, Objects
    <2>3. q \in Arg /\ q.id \in Ids
      <3> DEFINE r == [arg[Scheduler] EXCEPT !.id = objects[o].id]
      <3>1. arg[Scheduler] \in Arg
        BY <1>1, Typed
      <3>2. r \in Arg /\ r.id = objects[o].id
        BY <2>2, <3>1 DEF Arg
      <3>3. q = [r EXCEPT !.obj = o]
        BY <3>1 DEF Arg
      <3> HIDE DEF r, q
      <3> QED
        BY <2>2, <3>2, <3>3, ArgWithObject
    <2>4. arg' = [arg EXCEPT ![Scheduler] = q]
      BY <1>5 DEF DecideToRemove
    <2> HIDE DEF q
    <2>5. /\ arg' \in [Actors -> Arg] /\ arg'[Scheduler] = q
          /\ \A b \in Actors \ {Scheduler} : arg'[b] = arg[b]
      BY <1>1, <2>3, <2>4, Typed
    <2>6. up = "up" /\ snapshot' \subseteq 1..Len(objects)
      BY <1>1, <1>5, <2>1 DEF DecideToRemove, Phases, TypeOK
    <2>7. UNCHANGED <<up, streams, objects, running, stopped, disk, toLoad, crashes, history>>
      BY <1>5 DEF DecideToRemove
    <2> QED
      BY <1>1, <2>1, <2>3, <2>5, <2>6, <2>7 DEF Silent, disk, history
  <1> QED
    BY <1>2, <1>3, <1>4, <1>5 DEF Tick

-----------------------------------------------------------------------------
(* The invariant is kept, step by step *)

LEMMA MapIsTyped ==
    ASSUME TypeOK
    PROVE  /\ Registered \subseteq Ids
           /\ \A i \in Registered : streams[i] \in 1..Len(objects)
           /\ \A i \in Ids \ Registered : streams[i] = 0
           /\ DOMAIN Content(streams, objects) = Registered
           /\ Content(streams, objects) \in Files
  <1>1. \A i \in Ids : streams[i] \in 0..Len(objects)
    BY Typed
  <1>2. /\ Registered \subseteq Ids /\ \A i \in Registered : streams[i] \in 1..Len(objects)
        /\ \A i \in Ids \ Registered : streams[i] = 0
    BY <1>1, Typed DEF Registered
  <1>3. DOMAIN Content(streams, objects) = Registered /\ Content(streams, objects) \in Files
    BY Typed, ContentFacts, Zenon DEF Registered
  <1> QED
    BY <1>2, <1>3

LEMMA InitIInv == Init => IInv
  <1> SUFFICES ASSUME Init PROVE IInv
    OBVIOUS
  <1>1. /\ streams = [i \in Ids |-> 0] /\ objects = <<>> /\ running = {} /\ stopped = {}
        /\ snapshot = {} /\ pc = [a \in Actors |-> "idle"] /\ arg = [a \in Actors |-> NoArg]
        /\ up = "up" /\ file = <<>> /\ torn = FALSE /\ image = <<>> /\ toLoad = <<>>
        /\ crashes = 0 /\ kept = {} /\ dropped = {} /\ hurt = FALSE
    BY DEF Init
  <1>2. objects \in Seq(Objects) /\ Len(objects) = 0
    BY <1>1, EmptySeq
  <1>3. streams \in [Ids -> 0..Len(objects)]
    BY <1>1, <1>2
  <1>4. arg \in [Actors -> Arg]
    BY <1>1, NoArgFacts
  <1>5. file \in Files /\ image \in Files /\ toLoad \in Files /\ DOMAIN toLoad = {} /\ DOMAIN file = {}
    BY <1>1, NoEntries
  <1>6. crashes \in 0..MaxCrashes
    BY <1>1, PortsAssumption DEF PortsAssumption
  <1>7. TypeOK
    BY <1>1, <1>2, <1>3, <1>4, <1>5, <1>6 DEF TypeOK, Objects, Arg
  <1>8. Registered = {} /\ \A a \in Actors : pc[a] = "idle"
    BY <1>1 DEF Registered
  <1>9. Arguments /\ Phases
    BY <1>1, <1>5, <1>8, SomeActors DEF Arguments, Phases
  <1>10. MapIsSound /\ StoppedOnce /\ StrayOnlyIfReplaced
    BY <1>1, <1>8 DEF MapIsSound, StoppedOnce, StrayOnlyIfReplaced
  <1>11. FileIsRight
    <2>1. file = Content(streams, objects)
      BY <1>2, <1>3, <1>5, <1>8, NoContent DEF Registered
    <2> QED
      BY <1>1, <1>8, <2>1 DEF FileIsRight, Writing
  <1>12. NothingComesBack /\ NothingLoaded /\ KeptSomewhere
    BY <1>1, <1>8 DEF NothingComesBack, NothingLoaded, KeptSomewhere
  <1> QED
    BY <1>7, <1>9, <1>10, <1>11, <1>12 DEF IInv

LEMMA SilentKeeps ==
    ASSUME IInv, NEW a \in Actors, Silent(a)
    PROVE  IInv'
  <1>1. UNCHANGED <<up, streams, objects, running, stopped, file, torn, image, toLoad,
                    crashes, kept, dropped, hurt>>
    BY DEF Silent
  <1>2. TypeOK'
    BY <1>1 DEF IInv, TypeOK, Silent, Places, Arg
  <1>3. \A b \in Actors \ {a} : pc'[b] = pc[b] /\ arg'[b] = arg[b]
    BY DEF Silent
  <1>4. /\ up = "up" /\ a # Loader
        /\ pc[a] \notin {"close", "write"} /\ pc'[a] \notin {"close", "write"}
        /\ pc[a] \in {"await", "persist"} <=> pc'[a] \in {"await", "persist"}
    BY DEF Silent
  <1>5. Arguments'
    BY <1>1, <1>3, <1>4 DEF IInv, Arguments, Silent
  <1>6. Registered' = Registered
    BY <1>1 DEF Registered
  <1>7. Phases'
    BY <1>1, <1>3, <1>4, <1>6, SomeActors DEF IInv, Phases
  <1>8. MapIsSound' /\ StoppedOnce' /\ StrayOnlyIfReplaced'
    BY <1>1, <1>3, <1>4, <1>6 DEF IInv, MapIsSound, StoppedOnce, StrayOnlyIfReplaced
  <1>9. Writing' = Writing /\ Dirty' = Dirty
    BY <1>3, <1>4 DEF Writing, Dirty
  <1>10. Content(streams, objects)' = Content(streams, objects)
    BY <1>1
  <1>11. FileIsRight'
    BY <1>1, <1>6, <1>9, <1>10 DEF IInv, FileIsRight
  <1>12. NothingComesBack' /\ NothingLoaded' /\ KeptSomewhere'
    BY <1>1, <1>6 DEF IInv, NothingComesBack, NothingLoaded, KeptSomewhere
  <1> QED
    BY <1>2, <1>5, <1>7, <1>8, <1>11, <1>12 DEF IInv

\* AddStream, of a request or of LoadStreams, up to the truncation of the file.
LEMMA RegisterKeeps ==
    ASSUME IInv, NEW a \in Actors, NEW from \in {"add", "idle"}, NEW id \in Ids,
           NEW in \in InPorts, NEW plan \in Plans,
           Goto(a, from, "write"), Register(a, id, in, plan),
           kept' \subseteq Ids, dropped' \subseteq Ids, hurt' \in BOOLEAN, toLoad' \in Files
    PROVE  /\ TypeOK' /\ Arguments' /\ MapIsSound' /\ StoppedOnce' /\ StrayOnlyIfReplaced'
           /\ FileIsRight'
           /\ Registered' = Registered \cup {id}
           /\ ~Writing /\ torn' /\ file' = file /\ up' = up
           /\ pc[a] = from /\ pc'[a] = "write" /\ arg'[a].id = id
           /\ \A b \in Actors \ {a} : pc'[b] = pc[b] /\ arg'[b] = arg[b]
  <1> DEFINE o == Len(objects) + 1
  <1>1. /\ ~Writing
        /\ objects' \in Seq(Objects) /\ Len(objects') = o
        /\ \A x \in 1..Len(objects) : objects'[x] = objects[x]
        /\ objects'[o].id = id
        /\ streams' \in [Ids -> 0..o] /\ streams'[id] = o
        /\ \A i \in Ids \ {id} : streams'[i] = streams[i]
        /\ running' = running \cup {o}
        /\ arg' \in [Actors -> [id : Ids \cup {NoId}, in : InPorts, plan : Plans, obj : 0..o]]
        /\ arg'[a].id = id /\ arg'[a].obj = o
        /\ pc' \in [Actors -> Places] /\ pc[a] = from /\ pc'[a] = "write"
        /\ \A b \in Actors \ {a} : pc'[b] = pc[b] /\ arg'[b] = arg[b]
        /\ image' = Content(streams', objects') /\ torn' /\ file' = file
        /\ UNCHANGED <<up, stopped, snapshot, crashes>>
    BY RegisterEffect DEF IInv
  <1>2. TypeOK /\ Len(objects) \in Nat /\ o \in Int /\ o >= 1 /\ 1..Len(objects) \subseteq 1..o /\ o \in 1..o
        /\ o \notin 1..Len(objects)
    BY Typed DEF IInv
  <1> HIDE DEF o
  <1>3. /\ Registered \subseteq Ids /\ \A i \in Registered : streams[i] \in 1..Len(objects)
        /\ \A i \in Ids \ Registered : streams[i] = 0
    BY <1>2, MapIsTyped
  <1>4. Registered' = Registered \cup {id}
    BY <1>1, <1>2 DEF Registered
  <1>5. image' \in Files /\ DOMAIN image' = Registered'
    <2>1. streams' \in [Ids -> 0..Len(objects')]
      BY <1>1
    <2>2. image' \in Files /\ DOMAIN image' = {i \in Ids : streams'[i] # 0}
      BY <1>1, <2>1, ContentFacts, Zenon
    <2> QED
      BY <2>2 DEF Registered
  <1>6. TypeOK'
    <2>1. running' \subseteq 1..o /\ stopped' \subseteq 1..o /\ snapshot' \subseteq 1..o
      BY <1>1, <1>2 DEF TypeOK
    <2>2. torn' \in BOOLEAN /\ file' \in Files /\ crashes' \in 0..MaxCrashes /\ up' \in {"down", "loading", "up"}
      <3>1. torn' = TRUE
        BY DEF Register, BeginWrite
      <3> QED
        BY <1>1, <1>2, <3>1 DEF TypeOK
    <2> QED
      BY <1>1, <1>5, <2>1, <2>2 DEF TypeOK, Objects, Places
  <1>7. Arguments'
    BY <1>1, <1>2 DEF IInv, Arguments
  <1>8. MapIsSound'
    <2>1. stopped \subseteq 1..Len(objects)
      BY <1>2 DEF TypeOK
    <2>2. ASSUME NEW i \in Registered' PROVE (objects[streams[i]].id = i /\ streams[i] \notin stopped)'
      BY <1>1, <1>2, <1>3, <1>4, <2>1 DEF IInv, MapIsSound
    <2>3. ASSUME NEW b \in Actors, pc'[b] = "close", NEW i \in Ids PROVE streams'[i] # arg'[b].obj
      <3>1. b # a /\ pc[b] = "close" /\ arg'[b] = arg[b]
        BY <1>1, <2>3
      <3>2. arg[b].obj \in 1..Len(objects) /\ streams[i] # arg[b].obj
        BY <3>1 DEF IInv, Arguments, MapIsSound
      <3> QED
        BY <1>1, <1>2, <3>1, <3>2
    <2> QED
      BY <2>2, <2>3 DEF MapIsSound
  <1>9. StoppedOnce'
    BY <1>1 DEF IInv, StoppedOnce
  <1>10. StrayOnlyIfReplaced'
    <2> SUFFICES ASSUME NEW x \in running' \ stopped'
                 PROVE  \/ streams'[objects'[x].id] = x
                        \/ \E b \in Actors : pc'[b] = "close" /\ arg'[b].obj = x
                        \/ \E r \in (x + 1)..Len(objects') : objects'[r].id = objects'[x].id
      BY DEF StrayOnlyIfReplaced
    <2>1. CASE x = o
      BY <1>1, <2>1
    <2>2. CASE x \in running
      <3>1. x \in 1..Len(objects) /\ x \in running \ stopped /\ objects'[x] = objects[x] /\ objects[x].id \in Ids
        BY <1>1, <1>2, <2>2, Typed DEF TypeOK, Objects
      <3>2. CASE streams[objects[x].id] = x /\ objects[x].id # id
        BY <1>1, <3>1, <3>2
      <3>3. CASE objects[x].id = id
        <4>1. o \in (x + 1)..o
          BY <1>2, <3>1 DEF o
        <4> QED
          BY <1>1, <3>1, <3>3, <4>1
      <3>4. CASE \E b \in Actors : pc[b] = "close" /\ arg[b].obj = x
        BY <1>1, <3>4
      <3>5. CASE \E r \in (x + 1)..Len(objects) : objects[r].id = objects[x].id
        <4>1. PICK r \in (x + 1)..Len(objects) : objects[r].id = objects[x].id
          BY <3>5
        <4>2. r \in 1..Len(objects) /\ r \in (x + 1)..o
          BY <1>2, <3>1 DEF o
        <4> QED
          BY <1>1, <3>1, <4>1, <4>2
      <3> QED
        BY <3>1, <3>2, <3>3, <3>4, <3>5 DEF IInv, StrayOnlyIfReplaced
    <2> QED
      BY <1>1, <2>1, <2>2
  <1>11. FileIsRight'
    <2>1. Writing' /\ torn' /\ DOMAIN image' = Registered' /\ image' = Content(streams, objects)'
      BY <1>1, <1>5 DEF Writing
    <2> QED
      BY <2>1 DEF FileIsRight
  <1> QED
    BY <1>1, <1>4, <1>6, <1>7, <1>8, <1>9, <1>10, <1>11

LEMMA AddStreamKeeps ==
    ASSUME IInv, NEW h \in Handlers, AddStream(h)
    PROVE  IInv'
  <1> DEFINE id == arg[h].id
  <1>1. /\ Goto(h, "add", "write") /\ Register(h, id, arg[h].in, arg[h].plan)
        /\ kept' = kept \ {id} /\ dropped' = dropped \ {id} /\ UNCHANGED <<toLoad, hurt>>
    BY DEF AddStream
  <1>2. h \in Actors \ {Loader} /\ pc[h] = "add"
    BY <1>1, SomeActors DEF Goto
  <1>3. id \in Ids /\ arg[h].in \in InPorts /\ arg[h].plan \in Plans
    BY <1>2, Typed DEF IInv, Arguments, Arg
  <1> HIDE DEF id
  <1>4. kept' \subseteq Ids /\ dropped' \subseteq Ids /\ hurt' \in BOOLEAN /\ toLoad' \in Files
    BY <1>1 DEF IInv, TypeOK
  <1>5. /\ TypeOK' /\ Arguments' /\ MapIsSound' /\ StoppedOnce' /\ StrayOnlyIfReplaced'
        /\ FileIsRight'
        /\ Registered' = Registered \cup {id}
        /\ ~Writing /\ torn' /\ file' = file /\ up' = up
        /\ pc[h] = "add" /\ pc'[h] = "write" /\ arg'[h].id = id
        /\ \A b \in Actors \ {h} : pc'[b] = pc[b] /\ arg'[b] = arg[b]
    BY <1>1, <1>2, <1>3, <1>4, RegisterKeeps
  <1>6. up = "up" /\ DOMAIN toLoad = {} /\ pc[Loader] = "idle"
    BY <1>2 DEF IInv, Phases
  <1>7. Phases'
    BY <1>1, <1>2, <1>5, <1>6, SomeActors DEF Phases, Writing
  <1>8. NothingComesBack' /\ NothingLoaded'
    BY <1>1, <1>5, <1>6 DEF IInv, NothingComesBack, NothingLoaded
  <1>9. KeptSomewhere'
    BY <1>1, <1>5, <1>6 DEF IInv, KeptSomewhere
  <1> QED
    BY <1>5, <1>7, <1>8, <1>9 DEF IInv

LEMMA LoadNextKeeps ==
    ASSUME IInv, NEW i \in DOMAIN toLoad, LoadNext(i)
    PROVE  IInv'
  <1>1. /\ up = "loading" /\ Goto(Loader, "idle", "write")
        /\ Register(Loader, i, toLoad[i].in, toLoad[i].plan)
        /\ toLoad' = [j \in DOMAIN toLoad \ {i} |-> toLoad[j]]
        /\ UNCHANGED history
    BY DEF LoadNext
  <1>2. /\ Loader \in Actors /\ i \in Ids /\ toLoad[i].in \in InPorts /\ toLoad[i].plan \in Plans
        /\ toLoad \in Files
    BY SomeActors, FileFacts DEF IInv, TypeOK
  <1>3. toLoad' \in Files /\ DOMAIN toLoad' = DOMAIN toLoad \ {i}
    <2>1. toLoad' \in [DOMAIN toLoad \ {i} -> Entries] /\ DOMAIN toLoad \ {i} \in SUBSET Ids
      BY <1>1, <1>2, FileFacts
    <2> QED
      BY <2>1, MadeFile
  <1>4. kept' \subseteq Ids /\ dropped' \subseteq Ids /\ hurt' \in BOOLEAN
    BY <1>1 DEF IInv, TypeOK, history
  <1>5. /\ TypeOK' /\ Arguments' /\ MapIsSound' /\ StoppedOnce' /\ StrayOnlyIfReplaced'
        /\ FileIsRight'
        /\ Registered' = Registered \cup {i}
        /\ ~Writing /\ torn' /\ file' = file /\ up' = up
        /\ pc[Loader] = "idle" /\ pc'[Loader] = "write" /\ arg'[Loader].id = i
        /\ \A b \in Actors \ {Loader} : pc'[b] = pc[b] /\ arg'[b] = arg[b]
    BY <1>1, <1>2, <1>3, <1>4, RegisterKeeps
  <1>7. Phases'
    BY <1>1, <1>5, SomeActors DEF IInv, Phases, Writing
  <1>8. NothingComesBack' /\ NothingLoaded'
    BY <1>1, <1>3, <1>5 DEF IInv, NothingComesBack, NothingLoaded, history
  <1>9. KeptSomewhere'
    BY <1>1, <1>3, <1>5 DEF IInv, KeptSomewhere, history
  <1> QED
    BY <1>5, <1>7, <1>8, <1>9 DEF IInv

\* The part of the type invariant that steps of an operation leave alone.
LEMMA TypeKept ==
    ASSUME TypeOK, pc' \in [Actors -> Places], arg' \in [Actors -> Arg],
           UNCHANGED <<up, objects, snapshot, toLoad, crashes, hurt>>,
           streams' \in [Ids -> 0..Len(objects)], running' \subseteq running,
           stopped' \subseteq 1..Len(objects), file' \in Files, torn' \in BOOLEAN,
           image' \in Files, kept' \subseteq Ids, dropped' \subseteq Ids
    PROVE  TypeOK'
  BY DEF TypeOK, Places, Arg

LEMMA DeleteKeeps ==
    ASSUME IInv, NEW a \in Actors, DeleteFromMap(a)
    PROVE  IInv'
  <1> DEFINE id == arg[a].id
             o == streams[id]
             q == [arg[a] EXCEPT !.obj = o]
  <1>1. /\ Free /\ streams' = [streams EXCEPT ![id] = 0] /\ kept' = kept \ {id}
        /\ UNCHANGED <<up, objects, running, stopped, snapshot, disk, toLoad, crashes, dropped, hurt>>
        /\ \/ Goto(a, "delete", "close") /\ o # 0 /\ arg' = [arg EXCEPT ![a] = q]
           \/ End(a, "delete") /\ o = 0
    BY DEF DeleteFromMap, TakeObject
  <1>2. TypeOK /\ ~Writing
    BY <1>1 DEF IInv, Free, Writing
  <1>3. /\ pc[a] = "delete" /\ pc' \in [Actors -> Places]
        /\ \A b \in Actors \ {a} : pc'[b] = pc[b]
    BY <1>1, <1>2, GotoEffect, EndEffect DEF Places
  <1>4. a # Loader /\ up = "up" /\ id \in Ids
    BY <1>3 DEF IInv, Phases, Arguments
  <1> HIDE DEF id
  <1>5. /\ streams' \in [Ids -> 0..Len(objects)] /\ streams'[id] = 0
        /\ \A i \in Ids \ {id} : streams'[i] = streams[i]
    BY <1>1, <1>2, <1>4, Typed
  <1>6. /\ arg' \in [Actors -> Arg] /\ \A b \in Actors \ {a} : arg'[b] = arg[b]
        /\ o # 0 => pc'[a] = "close" /\ arg'[a].obj = o /\ arg'[a].id = id
        /\ o = 0 => pc'[a] \in {"idle", "decide"}
    <2>1. CASE Goto(a, "delete", "close") /\ o # 0 /\ arg' = [arg EXCEPT ![a] = q]
      <3>1. o \in 1..Len(objects)
        BY <1>2, <1>4, <2>1, Typed
      <3>2. q \in Arg /\ q.obj = o /\ q.id = id
        BY <1>2, <3>1, Typed, ArgWithObject DEF id
      <3> HIDE DEF q, o
      <3>3. pc'[a] = "close"
        BY <1>2, <2>1, GotoEffect DEF Places
      <3> QED
        BY <1>2, <2>1, <3>2, <3>3, Typed
    <2>2. CASE End(a, "delete") /\ o = 0
      BY <1>2, <2>2, EndEffect DEF Rest
    <2> QED
      BY <1>1, <2>1, <2>2
  <1>7. /\ Registered \subseteq Ids /\ \A i \in Registered : streams[i] \in 1..Len(objects)
        /\ \A i \in Ids \ Registered : streams[i] = 0
    BY <1>2, MapIsTyped
  <1>8. Registered' = Registered \ {id} /\ (o = 0 => Registered' = Registered) /\ (o # 0 => id \in Registered)
    BY <1>4, <1>5 DEF Registered
  <1> HIDE DEF o, q
  <1>9. TypeOK'
    BY <1>1, <1>2, <1>3, <1>5, <1>6, TypeKept DEF TypeOK, disk
  <1>10. o # 0 => o \in 1..Len(objects) /\ objects[o].id = id /\ o \notin stopped
    BY <1>7, <1>8 DEF o, IInv, MapIsSound
  <1>11. Arguments'
    BY <1>1, <1>3, <1>4, <1>6, <1>10 DEF IInv, Arguments
  <1>12. Phases'
    BY <1>1, <1>3, <1>4, <1>6, <1>8, SomeActors DEF IInv, Phases
  <1>13. MapIsSound'
    <2>1. ASSUME NEW i \in Registered' PROVE (objects[streams[i]].id = i /\ streams[i] \notin stopped)'
      BY <1>1, <1>5, <1>7, <1>8 DEF IInv, MapIsSound
    <2>2. ASSUME NEW b \in Actors, pc'[b] = "close", NEW i \in Ids PROVE streams'[i] # arg'[b].obj
      <3>1. CASE b = a
        <4>1. arg'[b].obj = o /\ o # 0
          BY <1>6, <2>2, <3>1
        <4>2. i # id /\ i \in Registered => objects[streams[i]].id = i /\ objects[o].id = id
          BY <1>10, <4>1 DEF IInv, MapIsSound
        <4> QED
          BY <1>5, <1>7, <4>1, <4>2
      <3>2. CASE b # a
        <4>1. pc[b] = "close" /\ arg'[b] = arg[b] /\ arg[b].obj # 0 /\ streams[i] # arg[b].obj
          BY <1>2, <1>3, <1>6, <2>2, <3>2, Typed DEF IInv, MapIsSound, Arguments
        <4> QED
          BY <1>5, <4>1
      <3> QED
        BY <3>1, <3>2
    <2> QED
      BY <2>1, <2>2 DEF MapIsSound
  <1>14. StoppedOnce'
    <2>1. ASSUME NEW b \in Actors \ {a}, pc[b] = "close"
          PROVE  arg[b].obj # o /\ arg[b].obj \notin stopped
      BY <1>4, <2>1 DEF o, IInv, MapIsSound, StoppedOnce
    <2> QED
      BY <1>1, <1>3, <1>6, <1>10, <2>1 DEF IInv, StoppedOnce
  <1>15. StrayOnlyIfReplaced'
    <2> SUFFICES ASSUME NEW x \in running \ stopped
                 PROVE  \/ streams'[objects[x].id] = x
                        \/ \E b \in Actors : pc'[b] = "close" /\ arg'[b].obj = x
                        \/ \E r \in (x + 1)..Len(objects) : objects[r].id = objects[x].id
      BY <1>1 DEF StrayOnlyIfReplaced
    <2>1. objects[x].id \in Ids /\ x # 0
      BY <1>2, Typed DEF TypeOK, Objects
    <2>2. CASE streams[objects[x].id] = x
      BY <1>5, <1>6, <2>1, <2>2 DEF o
    <2>3. CASE \E b \in Actors : pc[b] = "close" /\ arg[b].obj = x
      <3>1. PICK b \in Actors : pc[b] = "close" /\ arg[b].obj = x
        BY <2>3
      <3>2. b # a
        BY <1>3, <3>1
      <3> QED
        BY <1>3, <1>6, <3>1, <3>2
    <2> QED
      BY <2>2, <2>3 DEF IInv, StrayOnlyIfReplaced
  <1>16. ~Writing'
    BY <1>2, <1>3, <1>6 DEF Writing
  <1>17. o # 0 => Dirty'
    BY <1>6 DEF Dirty
  <1>18. o = 0 => streams' = streams /\ (Dirty => Dirty')
    <2>1. o = 0 => streams' = streams
      BY <1>2, <1>4, <1>5, Typed DEF o
    <2>2. Dirty => Dirty'
      BY <1>3 DEF Dirty
    <2> QED
      BY <2>1, <2>2
  <1>19. FileIsRight'
    <2>1. CASE o # 0
      BY <1>1, <1>4, <1>16, <1>17, <2>1 DEF FileIsRight
    <2>2. CASE o = 0
      <3>1. Content(streams, objects)' = Content(streams, objects)
        BY <1>1, <1>18, <2>2
      <3> QED
        BY <1>1, <1>2, <1>4, <1>8, <1>16, <1>18, <2>2, <3>1 DEF IInv, FileIsRight, disk
    <2> QED
      BY <2>1, <2>2
  <1>20. NothingComesBack' /\ NothingLoaded' /\ KeptSomewhere'
    BY <1>1, <1>4, <1>8 DEF IInv, NothingComesBack, NothingLoaded, KeptSomewhere, disk
  <1> QED
    BY <1>9, <1>11, <1>12, <1>13, <1>14, <1>15, <1>19, <1>20 DEF IInv

LEMMA CloseKeeps ==
    ASSUME IInv, NEW a \in Actors, CloseStopCh(a)
    PROVE  IInv'
  <1>1. /\ Goto(a, "close", "await") /\ stopped' = stopped \cup {arg[a].obj}
        /\ UNCHANGED <<up, streams, objects, running, snapshot, arg, disk, toLoad, crashes, history>>
    BY DEF CloseStopCh
  <1>2. TypeOK
    BY DEF IInv
  <1>3. /\ pc[a] = "close" /\ pc'[a] = "await" /\ pc' \in [Actors -> Places]
        /\ \A b \in Actors \ {a} : pc'[b] = pc[b]
    BY <1>1, <1>2, GotoEffect DEF Places
  <1>4. a # Loader /\ up = "up" /\ arg[a].id \in Ids /\ arg[a].obj \in 1..Len(objects)
    BY <1>3 DEF IInv, Phases, Arguments
  <1>5. TypeOK'
    <2>1. stopped' \subseteq 1..Len(objects)
      BY <1>1, <1>2, <1>4 DEF TypeOK
    <2> QED
      BY <1>1, <1>2, <1>3, <2>1, Typed, TypeKept DEF TypeOK, disk, history
  <1>6. Arguments'
    BY <1>1, <1>3, <1>4 DEF IInv, Arguments
  <1>7. Registered' = Registered
    BY <1>1 DEF Registered
  <1>8. Phases'
    BY <1>1, <1>3, <1>4, <1>7, SomeActors DEF IInv, Phases
  <1>9. MapIsSound'
    BY <1>1, <1>3, <1>7 DEF IInv, MapIsSound, Registered
  <1>10. StoppedOnce'
    BY <1>1, <1>3 DEF IInv, StoppedOnce
  <1>11. StrayOnlyIfReplaced'
    BY <1>1, <1>3 DEF IInv, StrayOnlyIfReplaced
  <1>12. Writing' = Writing /\ Dirty'
    BY <1>3 DEF Writing, Dirty
  <1>13. FileIsRight'
    BY <1>1, <1>4, <1>7, <1>12 DEF IInv, FileIsRight, disk
  <1>14. NothingComesBack' /\ NothingLoaded' /\ KeptSomewhere'
    BY <1>1, <1>4, <1>7 DEF IInv, NothingComesBack, NothingLoaded, KeptSomewhere, disk, history
  <1> QED
    BY <1>5, <1>6, <1>8, <1>9, <1>10, <1>11, <1>13, <1>14 DEF IInv

LEMMA PersistKeeps ==
    ASSUME IInv, NEW a \in Actors, Persist(a)
    PROVE  IInv'
  <1>1. /\ Free /\ Goto(a, "persist", "write")
        /\ image' = Content(streams, objects) /\ torn' = TRUE /\ file' = file
        /\ UNCHANGED <<up, memory, arg, toLoad, crashes, history>>
    BY DEF Persist, BeginWrite
  <1>2. TypeOK /\ ~Writing
    BY <1>1 DEF IInv, Free, Writing
  <1>3. /\ pc[a] = "persist" /\ pc'[a] = "write" /\ pc' \in [Actors -> Places]
        /\ \A b \in Actors \ {a} : pc'[b] = pc[b]
    BY <1>1, <1>2, GotoEffect DEF Places
  <1>4. a # Loader /\ up = "up" /\ arg[a].id \in Ids
    BY <1>3 DEF IInv, Phases, Arguments
  <1>5. TypeOK'
    BY <1>1, <1>2, <1>3, Typed, MapIsTyped, TypeKept DEF TypeOK, memory, history
  <1>6. Arguments'
    BY <1>1, <1>3, <1>4 DEF IInv, Arguments, memory
  <1>7. Registered' = Registered
    BY <1>1 DEF Registered, memory
  <1>8. Phases'
    BY <1>1, <1>2, <1>3, <1>4, <1>7, SomeActors DEF IInv, Phases, Writing
  <1>9. MapIsSound' /\ StoppedOnce' /\ StrayOnlyIfReplaced'
    BY <1>1, <1>3, <1>7 DEF IInv, MapIsSound, StoppedOnce, StrayOnlyIfReplaced, memory
  <1>10. Writing' /\ image' = Content(streams, objects)' /\ DOMAIN image' = Registered'
    BY <1>1, <1>2, <1>3, <1>7, MapIsTyped DEF Writing, memory
  <1>11. FileIsRight'
    BY <1>1, <1>10 DEF FileIsRight
  <1>12. NothingComesBack' /\ NothingLoaded' /\ KeptSomewhere'
    BY <1>1, <1>4, <1>7 DEF IInv, NothingComesBack, NothingLoaded, KeptSomewhere, history
  <1> QED
    BY <1>5, <1>6, <1>8, <1>9, <1>11, <1>12 DEF IInv

LEMMA FinishWriteKeeps ==
    ASSUME IInv, NEW a \in Actors, FinishWrite(a)
    PROVE  IInv'
  <1> DEFINE settled == {i \in Registered : streams[i] = arg[a].obj}
             gone == {i \in Ids \ Registered : i = arg[a].id /\ arg[a].obj # 0}
  <1>1. /\ End(a, "write") /\ file' = image /\ torn' = FALSE
        /\ kept' = kept \cup settled /\ dropped' = dropped \cup gone
        /\ UNCHANGED <<up, memory, image, toLoad, crashes, hurt>>
    BY DEF FinishWrite
  <1>2. TypeOK
    BY DEF IInv
  <1>3. /\ pc[a] = "write" /\ pc'[a] \in {"idle", "decide"} /\ pc' \in [Actors -> Places]
        /\ a = Loader => pc'[a] = "idle"
        /\ \A b \in Actors \ {a} : pc'[b] = pc[b] /\ arg'[b] = arg[b]
        /\ arg' \in [Actors -> Arg]
    BY <1>1, <1>2, EndEffect, SomeActors DEF Rest
  <1>4. Writing /\ ~Writing' /\ (Dirty => Dirty') /\ up # "down"
    BY <1>3 DEF IInv, Phases, Writing, Dirty
  <1>5. torn /\ DOMAIN image = Registered /\ (Dirty \/ image = Content(streams, objects))
    BY <1>4 DEF IInv, FileIsRight
  <1>6. settled \subseteq Registered /\ gone \cap Registered = {} /\ gone \subseteq Ids /\ Registered \subseteq Ids
    BY DEF Registered
  <1>7. a = Loader => gone = {}
    BY <1>3 DEF IInv, Phases
  <1>8. up = "up" \/ a = Loader
    BY <1>3, <1>4 DEF IInv, Phases, TypeOK
  <1> HIDE DEF settled, gone
  <1>9. TypeOK'
    BY <1>1, <1>2, <1>3, <1>6, Typed, TypeKept DEF TypeOK, memory
  <1>10. Arguments'
    BY <1>1, <1>3 DEF IInv, Arguments, memory
  <1>11. Registered' = Registered
    BY <1>1 DEF Registered, memory
  <1>12. Phases'
    BY <1>1, <1>3, <1>11, SomeActors DEF IInv, Phases
  <1>13. MapIsSound' /\ StoppedOnce' /\ StrayOnlyIfReplaced'
    BY <1>1, <1>3, <1>11 DEF IInv, MapIsSound, StoppedOnce, StrayOnlyIfReplaced, memory
  <1>14. Content(streams, objects)' = Content(streams, objects)
    BY <1>1 DEF memory
  <1>15. up = "loading" => ~Dirty
    BY DEF IInv, Phases, Dirty
  <1>16. FileIsRight'
    BY <1>1, <1>4, <1>5, <1>14, <1>15 DEF FileIsRight
  <1>17. NothingComesBack' /\ NothingLoaded'
    BY <1>1, <1>5, <1>6, <1>7, <1>8, <1>11 DEF IInv, Phases, NothingComesBack, NothingLoaded
  <1>18. KeptSomewhere'
    BY <1>1, <1>4, <1>5, <1>6, <1>11 DEF IInv, KeptSomewhere, TypeOK
  <1> QED
    BY <1>9, <1>10, <1>12, <1>13, <1>16, <1>17, <1>18 DEF IInv

LEMMA RunEndsKeeps ==
    ASSUME IInv, NEW o \in running, RunEnds(o)
    PROVE  IInv'
  <1>1. /\ o \in stopped /\ running' = running \ {o}
        /\ UNCHANGED <<up, streams, objects, stopped, snapshot, pc, arg, disk, toLoad, crashes, history>>
    BY DEF RunEnds
  <1>2. TypeOK'
    BY <1>1, Typed, TypeKept DEF IInv, TypeOK, disk, history
  <1>3. Registered' = Registered
    BY <1>1 DEF Registered
  <1>4. Arguments' /\ Phases'
    BY <1>1, <1>3 DEF IInv, Arguments, Phases
  <1>5. MapIsSound' /\ StoppedOnce' /\ StrayOnlyIfReplaced'
    BY <1>1, <1>3 DEF IInv, MapIsSound, StoppedOnce, StrayOnlyIfReplaced
  <1>6. FileIsRight'
    BY <1>1, <1>3 DEF IInv, FileIsRight, Writing, Dirty, disk
  <1>7. NothingComesBack' /\ NothingLoaded' /\ KeptSomewhere'
    BY <1>1, <1>3 DEF IInv, NothingComesBack, NothingLoaded, KeptSomewhere, disk, history
  <1> QED
    BY <1>2, <1>4, <1>5, <1>6, <1>7 DEF IInv

LEMMA UpdateKeeps ==
    ASSUME IInv, NEW h \in Handlers, UpdateSchedule(h)
    PROVE  IInv'
  <1>1. TypeOK /\ Arguments /\ h \in Actors \ {Loader}
    BY SomeActors DEF IInv
  <1>2. /\ objects' \in Seq(Objects) /\ Len(objects') = Len(objects)
        /\ \A x \in 1..Len(objects) :
             objects'[x].id = objects[x].id /\ objects'[x].in = objects[x].in
        /\ pc' \in [Actors -> Places] /\ pc[h] = "update" /\ pc'[h] = "persist"
        /\ arg' \in [Actors -> Arg]
        /\ arg'[h].id = arg[h].id
        /\ \A b \in Actors \ {h} : pc'[b] = pc[b] /\ arg'[b] = arg[b]
        /\ UNCHANGED <<up, streams, running, stopped, snapshot, disk, toLoad, crashes, history>>
    BY <1>1, UpdateEffect
  <1>3. up = "up" /\ arg[h].id \in Ids
    BY <1>1, <1>2 DEF IInv, Phases, Arguments
  <1>4. TypeOK'
    BY <1>1, <1>2 DEF TypeOK, Objects, Arg, Places, disk, history
  <1>5. Arguments'
    BY <1>2, <1>3 DEF IInv, Arguments
  <1>6. Registered' = Registered /\ \A i \in Registered : streams[i] \in 1..Len(objects)
    BY <1>1, <1>2, MapIsTyped DEF Registered
  <1>7. Phases'
    BY <1>1, <1>2, <1>3, <1>6, SomeActors DEF IInv, Phases
  <1>8. MapIsSound'
    BY <1>2, <1>6 DEF IInv, MapIsSound
  <1>9. StoppedOnce'
    BY <1>2 DEF IInv, StoppedOnce
  <1>10. StrayOnlyIfReplaced'
    <2> SUFFICES ASSUME NEW x \in running \ stopped
                 PROVE  \/ streams[objects'[x].id] = x
                        \/ \E b \in Actors : pc'[b] = "close" /\ arg'[b].obj = x
                        \/ \E r \in (x + 1)..Len(objects) : objects'[r].id = objects'[x].id
      BY <1>2 DEF StrayOnlyIfReplaced
    <2>1. x \in 1..Len(objects) /\ objects'[x].id = objects[x].id /\ Len(objects) \in Nat
      BY <1>1, <1>2, Typed DEF TypeOK
    <2>2. \A r \in (x + 1)..Len(objects) : objects'[r].id = objects[r].id
      BY <1>2, <2>1
    <2> QED
      BY <1>2, <2>1, <2>2 DEF IInv, StrayOnlyIfReplaced
  <1>11. Writing' = Writing /\ Dirty'
    BY <1>1, <1>2 DEF Writing, Dirty
  <1>12. FileIsRight'
    BY <1>2, <1>3, <1>6, <1>11 DEF IInv, FileIsRight, disk
  <1>13. NothingComesBack' /\ NothingLoaded' /\ KeptSomewhere'
    BY <1>2, <1>3, <1>6 DEF IInv, NothingComesBack, NothingLoaded, KeptSomewhere, disk, history
  <1> QED
    BY <1>4, <1>5, <1>7, <1>8, <1>9, <1>10, <1>12, <1>13 DEF IInv

LEMMA CrashKeeps == IInv /\ Crash => IInv'
  <1> SUFFICES ASSUME IInv, Crash PROVE IInv'
    OBVIOUS
  <1>1. /\ up # "down" /\ crashes < MaxCrashes /\ crashes' = crashes + 1 /\ up' = "down"
        /\ streams' = [i \in Ids |-> 0] /\ objects' = <<>> /\ running' = {} /\ stopped' = {}
        /\ snapshot' = {} /\ pc' = [a \in Actors |-> "idle"] /\ arg' = [a \in Actors |-> NoArg]
        /\ toLoad' = <<>> /\ image' = <<>> /\ hurt' = (hurt \/ torn \/ up = "loading")
        /\ UNCHANGED <<file, torn, kept, dropped>>
    BY DEF Crash
  <1>2. objects' \in Seq(Objects) /\ Len(objects') = 0
    BY <1>1, EmptySeq
  <1>3. toLoad' \in Files /\ image' \in Files /\ DOMAIN toLoad' = {}
    BY <1>1, NoEntries
  <1>4. streams' \in [Ids -> 0..Len(objects')] /\ Registered' = {}
    BY <1>1, <1>2 DEF Registered
  <1>5. TypeOK'
    <2>1. crashes' \in 0..MaxCrashes
      BY <1>1, PortsAssumption DEF IInv, TypeOK, PortsAssumption
    <2>2. pc' \in [Actors -> Places]
      BY <1>1 DEF Places
    <2>3. arg' \in [Actors -> [id : Ids \cup {NoId}, in : InPorts, plan : Plans, obj : 0..Len(objects')]]
      <3>1. NoArg \in [id : Ids \cup {NoId}, in : InPorts, plan : Plans, obj : 0..Len(objects')]
        BY <1>2, SomePort DEF NoArg, Plans
      <3> QED
        BY <1>1, <3>1
    <2>4. hurt' \in BOOLEAN /\ up' \in {"down", "loading", "up"} /\ torn' \in BOOLEAN /\ file' \in Files
          /\ kept' \subseteq Ids /\ dropped' \subseteq Ids
      BY <1>1 DEF IInv, TypeOK
    <2> QED
      BY <1>1, <1>2, <1>3, <1>4, <2>1, <2>2, <2>3, <2>4 DEF TypeOK, Objects, Places
  <1>6. Arguments' /\ Phases'
    BY <1>1, <1>3, <1>4, SomeActors DEF Arguments, Phases
  <1>7. MapIsSound' /\ StoppedOnce' /\ StrayOnlyIfReplaced'
    BY <1>1, <1>4 DEF MapIsSound, StoppedOnce, StrayOnlyIfReplaced
  <1>8. FileIsRight'
    BY <1>1 DEF FileIsRight, Writing
  <1>9. NothingComesBack' /\ NothingLoaded'
    BY <1>1, <1>3, <1>4 DEF IInv, NothingComesBack, NothingLoaded
  <1>10. KeptSomewhere'
    BY <1>1 DEF IInv, KeptSomewhere, TypeOK
  <1> QED
    BY <1>5, <1>6, <1>7, <1>8, <1>9, <1>10 DEF IInv

LEMMA RestartKeeps == IInv /\ Restart => IInv'
  <1> SUFFICES ASSUME IInv, Restart PROVE IInv'
    OBVIOUS
  <1>1. /\ up = "down" /\ up' = "loading" /\ toLoad' = IF torn THEN <<>> ELSE file
        /\ UNCHANGED <<memory, pc, arg, disk, crashes, history>>
    BY DEF Restart
  <1>2. /\ torn => toLoad' = <<>> /\ DOMAIN toLoad' = {}
        /\ ~torn => toLoad' = file
        /\ toLoad' \in Files
    BY <1>1, NoEntries DEF IInv, TypeOK
  <1>3. TypeOK'
    BY <1>1, <1>2 DEF IInv, TypeOK, memory, disk, history
  <1>4. Registered' = Registered /\ Registered = {}
    BY <1>1 DEF IInv, Phases, Registered, memory
  <1>5. \A a \in Actors : pc[a] = "idle" /\ pc'[a] = "idle"
    BY <1>1 DEF IInv, Phases
  <1>6. Arguments' /\ Phases'
    BY <1>1, <1>4, <1>5, SomeActors DEF Arguments, Phases
  <1>7. MapIsSound' /\ StoppedOnce' /\ StrayOnlyIfReplaced'
    BY <1>1, <1>4, <1>5 DEF IInv, MapIsSound, StoppedOnce, StrayOnlyIfReplaced, memory
  <1>8. FileIsRight'
    BY <1>1, <1>2, <1>4, <1>5 DEF FileIsRight, Writing, disk
  <1>9. NothingComesBack' /\ NothingLoaded'
    BY <1>1, <1>2, <1>4 DEF IInv, NothingComesBack, NothingLoaded, disk, history
  <1>10. KeptSomewhere'
    BY <1>1, <1>2 DEF IInv, KeptSomewhere, disk, history
  <1> QED
    BY <1>3, <1>6, <1>7, <1>8, <1>9, <1>10 DEF IInv

LEMMA LoadedKeeps == IInv /\ Loaded => IInv'
  <1> SUFFICES ASSUME IInv, Loaded PROVE IInv'
    OBVIOUS
  <1>1. /\ up = "loading" /\ pc[Loader] = "idle" /\ toLoad = <<>> /\ up' = "up"
        /\ UNCHANGED <<memory, pc, arg, disk, toLoad, crashes, history>>
    BY DEF Loaded
  <1>2. DOMAIN toLoad = {} /\ toLoad \in Files
    BY <1>1, NoEntries
  <1>3. TypeOK'
    BY <1>1 DEF IInv, TypeOK, memory, disk, history
  <1>4. Registered' = Registered
    BY <1>1 DEF Registered, memory
  <1>5. \A a \in Actors : pc[a] = "idle" /\ pc'[a] = "idle"
    BY <1>1 DEF IInv, Phases
  <1>6. ~Writing /\ ~Writing'
    BY <1>5 DEF Writing
  <1>7. Arguments' /\ Phases'
    BY <1>1, <1>2, <1>5, SomeActors DEF Arguments, Phases
  <1>8. MapIsSound' /\ StoppedOnce' /\ StrayOnlyIfReplaced'
    BY <1>1, <1>4 DEF IInv, MapIsSound, StoppedOnce, StrayOnlyIfReplaced, memory
  <1>9. IF torn THEN Registered = {} ELSE file = Content(streams, objects)
    <2>1. CASE Registered = {} /\ IF torn THEN DOMAIN toLoad = {} ELSE file = toLoad
      <3>1. ~torn => file = Content(streams, objects)
        BY <1>2, <2>1, Typed, NoContent DEF IInv, Registered
      <3> QED
        BY <2>1, <3>1
    <2>2. CASE ~torn /\ file = Content(streams, objects)
      BY <2>2
    <2> QED
      BY <1>1, <1>6, <2>1, <2>2 DEF IInv, FileIsRight
  <1>10. FileIsRight'
    <2>1. Content(streams, objects)' = Content(streams, objects)
      BY <1>1 DEF memory
    <2> QED
      BY <1>1, <1>4, <1>6, <1>9, <2>1 DEF FileIsRight, disk
  <1>11. NothingComesBack' /\ NothingLoaded'
    BY <1>1, <1>4 DEF IInv, NothingComesBack, NothingLoaded, disk, history
  <1>12. KeptSomewhere'
    <2>1. ~torn => Registered \subseteq DOMAIN file
      BY <1>9, MapIsTyped DEF IInv
    <2> QED
      BY <1>1, <1>2, <1>4, <2>1 DEF IInv, KeptSomewhere, disk, history
  <1> QED
    BY <1>3, <1>7, <1>8, <1>10, <1>11, <1>12 DEF IInv

LEMMA StutterKeeps == IInv /\ UNCHANGED vars => IInv'
  <1> SUFFICES ASSUME IInv, UNCHANGED vars PROVE IInv'
    OBVIOUS
  <1>1. UNCHANGED <<up, streams, objects, running, stopped, snapshot, pc, arg, file, torn, image,
                    toLoad, crashes, kept, dropped, hurt>>
    BY DEF vars, memory, disk, history
  <1>2. TypeOK'
    BY <1>1 DEF IInv, TypeOK
  <1>3. Arguments' /\ Phases' /\ MapIsSound' /\ StoppedOnce' /\ StrayOnlyIfReplaced'
    BY <1>1 DEF IInv, Arguments, Phases, MapIsSound, StoppedOnce, StrayOnlyIfReplaced, Registered
  <1>4. FileIsRight' /\ NothingComesBack' /\ NothingLoaded' /\ KeptSomewhere'
    BY <1>1 DEF IInv, FileIsRight, NothingComesBack, NothingLoaded, KeptSomewhere, Registered,
                Writing, Dirty
  <1> QED
    BY <1>2, <1>3, <1>4 DEF IInv

\* Every step that is not silent, by name.
LEMMA NextSteps ==
    ASSUME TypeOK, Arguments, Phases, Next
    PROVE  \/ \E a \in Actors : Silent(a)
           \/ \E h \in Handlers : AddStream(h) \/ UpdateSchedule(h)
           \/ \E a \in Actors : DeleteFromMap(a) \/ CloseStopCh(a) \/ Persist(a) \/ FinishWrite(a)
           \/ \E o \in running : RunEnds(o)
           \/ \E i \in DOMAIN toLoad : LoadNext(i)
           \/ Crash \/ Restart \/ Loaded
  <1>1. ASSUME NEW h \in Handlers, Add(h) PROVE Silent(h) \/ AddStream(h)
    <2>1. ASSUME NEW id \in Ids, NEW in \in InPorts, NEW plan \in Plans, RequestAdd(h, id, in, plan)
          PROVE  Silent(h)
      BY <2>1, BeginIsSilent DEF RequestAdd, Places
    <2> QED
      BY <1>1, <2>1, CheckIsSilent DEF Add
  <1>2. ASSUME NEW h \in Handlers, Patch(h) PROVE Silent(h) \/ UpdateSchedule(h)
    <2>1. ASSUME NEW id \in Ids, NEW plan \in Plans, RequestPatch(h, id, plan)
          PROVE  Silent(h)
      BY <2>1, BeginIsSilent, SomePort DEF RequestPatch, Places
    <2> QED
      BY <1>2, <2>1, GetIsSilent DEF Patch
  <1>3. ASSUME NEW h \in Handlers, NEW id \in Ids, RequestRemove(h, id) PROVE Silent(h)
    BY <1>3, BeginIsSilent, SomePort DEF RequestRemove, Places, Plans
  <1>4. ASSUME NEW a \in Actors, Remove(a) PROVE Silent(a) \/ DeleteFromMap(a) \/ CloseStopCh(a)
    BY <1>4, AwaitIsSilent DEF Remove
  <1>5. Tick => Silent(Scheduler)
    BY TickIsSilent
  <1> QED
    BY <1>1, <1>2, <1>3, <1>4, <1>5, SomeActors DEF Next, StartUp

LEMMA NextIInv == IInv /\ [Next]_vars => IInv'
  <1>1. ASSUME IInv, Next PROVE IInv'
    <2>1. TypeOK /\ Arguments /\ Phases
      BY <1>1 DEF IInv
    <2> QED
      BY <1>1, <2>1, NextSteps, SilentKeeps, AddStreamKeeps, UpdateKeeps, DeleteKeeps, CloseKeeps,
         PersistKeeps, FinishWriteKeeps, RunEndsKeeps, LoadNextKeeps, CrashKeeps, RestartKeeps,
         LoadedKeeps
  <1> QED
    BY <1>1, StutterKeeps

LEMMA Invariance == Spec => []IInv
  BY InitIInv, NextIInv, PTL DEF Spec

-----------------------------------------------------------------------------
(* Ports, with one request at a time *)

OneRequest == \A g, h \in Handlers : g = h

\* A table of streams books no port twice if the map it was made from does not.
LEMMA ContentNoClash ==
    ASSUME NEW obs \in Seq(Objects), NEW st \in [Ids -> 0..Len(obs)],
           \A i, j \in Ids : st[i] # 0 /\ st[j] # 0 /\ i # j =>
                Ports(obs[st[i]].in) \cap Ports(obs[st[j]].in) = {}
    PROVE  NoClash(Content(st, obs))
  <1> DEFINE f == Content(st, obs)
  <1>1. /\ DOMAIN f = {i \in Ids : st[i] # 0}
        /\ \A i \in Ids : st[i] # 0 => f[i].in = obs[st[i]].in
    BY ContentFacts
  <1> HIDE DEF f
  <1>2. NoClash(f)
    BY <1>1 DEF NoClash
  <1> QED
    BY <1>2 DEF f

LEMMA ExclusiveContent ==
    ASSUME TypeOK, PortsExclusive
    PROVE  NoClash(Content(streams, objects))
  BY Typed, ContentNoClash DEF PortsExclusive, PortsOf, Ports, Registered

LEMMA ClaimedMeans ==
    ASSUME NEW p
    PROVE  PortClaimed(p) <=> \E i \in Registered : p \in Ports(objects[streams[i]].in)
  BY DEF PortClaimed, Ports

\* Where no stream is added, no port becomes claimed.
LEMMA ClaimsShrink ==
    ASSUME Registered' \subseteq Registered,
           \A i \in Registered' : objects'[streams'[i]].in = objects[streams[i]].in,
           NEW p
    PROVE  PortClaimed(p)' => PortClaimed(p)
  BY DEF PortClaimed

LEMMA PortsKept ==
    ASSUME PortsInv, ChecksHold',
           Registered' \subseteq Registered,
           \A i \in Registered' : objects'[streams'[i]].in = objects[streams[i]].in,
           NoClash(file'), NoClash(image'), UNCHANGED toLoad
    PROVE  PortsInv'
  <1>1. \A i \in Registered' : PortsOf(i)' = PortsOf(i)
    BY DEF PortsOf
  <1>2. PortsExclusive'
    BY <1>1 DEF PortsInv, PortsExclusive
  <1>3. \A i \in Registered', j \in DOMAIN toLoad' :
            i # j /\ PortsOf(i)' \cap Ports(toLoad'[j].in) = {}
    BY <1>1 DEF PortsInv
  <1>4. NoClash(file)' /\ NoClash(image)' /\ NoClash(toLoad)'
    BY DEF PortsInv, NoClash
  <1> QED
    BY <1>2, <1>3, <1>4 DEF PortsInv, Ports

\* The checks of a handler that stays where it is.
LEMMA ChecksKept ==
    ASSUME ChecksHold,
           Registered' \subseteq Registered,
           \A i \in Registered' : objects'[streams'[i]].in = objects[streams[i]].in,
           \A h \in Handlers : pc'[h] \in {"checkOut", "add"} => pc'[h] = pc[h] /\ arg'[h] = arg[h]
    PROVE  ChecksHold'
  BY ClaimsShrink DEF ChecksHold

LEMMA SilentPorts ==
    ASSUME IInv, PortsInv, NEW a \in Actors, Silent(a)
    PROVE  PortsInv'
  <1>1. UNCHANGED <<streams, objects, file, image, toLoad>>
    BY DEF Silent
  <1>2. Registered' = Registered /\ \A p : PortClaimed(p)' = PortClaimed(p)
    BY <1>1 DEF Registered, PortClaimed
  <1>3. ChecksHold'
    <2> SUFFICES ASSUME NEW h \in Handlers
                 PROVE  /\ pc'[h] \in {"checkOut", "add"} => ~PortClaimed(arg'[h].in)
                        /\ pc'[h] = "add" => ~PortClaimed(EgressFor(arg'[h].in))
      BY <1>1 DEF ChecksHold, PortClaimed, Registered
    <2>1. CASE h = a
      BY <2>1 DEF Silent, PortsInv, ChecksHold
    <2>2. CASE h # a
      BY <2>2, SomeActors DEF Silent, PortsInv, ChecksHold
    <2> QED
      BY <2>1, <2>2
  <1> QED
    BY <1>1, <1>2, <1>3, PortsKept DEF PortsInv

\* A new stream whose ports nobody has claimed.
LEMMA RegisterPorts ==
    ASSUME IInv, PortsInv, NEW a \in Actors, NEW from, NEW id \in Ids,
           NEW in \in InPorts, NEW plan \in Plans,
           Goto(a, from, "write"), Register(a, id, in, plan),
           ~PortClaimed(in), ~PortClaimed(EgressFor(in))
    PROVE  /\ PortsExclusive' /\ NoClash(image') /\ NoClash(file')
           /\ Registered' = Registered \cup {id}
           /\ objects'[streams'[id]].in = in
           /\ \A i \in Registered \ {id} : objects'[streams'[i]].in = objects[streams[i]].in
  <1> DEFINE o == Len(objects) + 1
  <1>1. /\ objects' \in Seq(Objects) /\ Len(objects') = o
        /\ \A x \in 1..Len(objects) : objects'[x] = objects[x]
        /\ objects'[o].in = in
        /\ streams' \in [Ids -> 0..o] /\ streams'[id] = o
        /\ \A i \in Ids \ {id} : streams'[i] = streams[i]
        /\ image' = Content(streams', objects') /\ file' = file
    BY RegisterEffect DEF IInv
  <1>2. /\ Registered \subseteq Ids /\ \A i \in Registered : streams[i] \in 1..Len(objects)
        /\ o # 0
    BY Typed, MapIsTyped DEF IInv
  <1> HIDE DEF o
  <1>3. Registered' = Registered \cup {id}
    BY <1>1, <1>2 DEF Registered
  <1>4. /\ objects'[streams'[id]].in = in
        /\ \A i \in Registered \ {id} : objects'[streams'[i]].in = objects[streams[i]].in
    BY <1>1, <1>2
  <1>5. \A i \in Registered : Ports(in) \cap Ports(objects[streams[i]].in) = {}
    BY ClaimedMeans DEF Ports
  <1>6. \A i, j \in Registered : i # j => Ports(objects[streams[i]].in) \cap Ports(objects[streams[j]].in) = {}
    BY DEF PortsInv, PortsExclusive, PortsOf, Ports
  <1>7. \A i, j \in Registered' : i # j =>
            Ports(objects'[streams'[i]].in) \cap Ports(objects'[streams'[j]].in) = {}
    BY <1>3, <1>4, <1>5, <1>6
  <1>8. PortsExclusive'
    BY <1>7 DEF PortsExclusive, PortsOf, Ports
  <1>9. NoClash(image')
    <2>1. \A i, j \in Ids : streams'[i] # 0 /\ streams'[j] # 0 /\ i # j =>
                Ports(objects'[streams'[i]].in) \cap Ports(objects'[streams'[j]].in) = {}
      BY <1>7 DEF Registered
    <2>2. objects' \in Seq(Objects) /\ streams' \in [Ids -> 0..Len(objects')]
      BY <1>1
    <2>3. NoClash(Content(streams', objects'))
      BY <2>1, <2>2, ContentNoClash
    <2> QED
      BY <1>1, <2>3
  <1>10. NoClash(file')
    BY <1>1 DEF PortsInv
  <1> QED
    BY <1>3, <1>4, <1>8, <1>9, <1>10

LEMMA AddStreamPorts ==
    ASSUME OneRequest, IInv, PortsInv, NEW h \in Handlers, AddStream(h)
    PROVE  PortsInv'
  <1>1. /\ Goto(h, "add", "write") /\ Register(h, arg[h].id, arg[h].in, arg[h].plan)
        /\ UNCHANGED toLoad
    BY DEF AddStream
  <1>2. h \in Actors \ {Loader} /\ pc[h] = "add"
    BY <1>1, SomeActors DEF Goto
  <1>3. arg[h].id \in Ids /\ arg[h].in \in InPorts /\ arg[h].plan \in Plans
    BY <1>2, Typed DEF IInv, Arguments, Arg
  <1>4. ~PortClaimed(arg[h].in) /\ ~PortClaimed(EgressFor(arg[h].in))
    BY <1>2 DEF PortsInv, ChecksHold
  <1>5. PortsExclusive' /\ NoClash(image') /\ NoClash(file')
    BY <1>1, <1>2, <1>3, <1>4, RegisterPorts
  <1>6. DOMAIN toLoad = {}
    BY <1>2 DEF IInv, Phases
  <1>7. ChecksHold'
    <2>1. pc'[h] = "write"
      BY <1>1, <1>2, GotoEffect DEF IInv, Places
    <2> QED
      BY <2>1 DEF OneRequest, ChecksHold
  <1> QED
    BY <1>1, <1>5, <1>6, <1>7 DEF PortsInv, NoClash

LEMMA LoadNextPorts ==
    ASSUME IInv, PortsInv, NEW i \in DOMAIN toLoad, LoadNext(i)
    PROVE  PortsInv'
  <1>1. /\ up = "loading" /\ Goto(Loader, "idle", "write")
        /\ Register(Loader, i, toLoad[i].in, toLoad[i].plan)
        /\ toLoad' = [j \in DOMAIN toLoad \ {i} |-> toLoad[j]]
    BY DEF LoadNext
  <1>2. /\ Loader \in Actors /\ i \in Ids /\ toLoad[i].in \in InPorts /\ toLoad[i].plan \in Plans
    BY SomeActors, FileFacts DEF IInv, TypeOK
  <1>3. \A j \in Registered : Ports(objects[streams[j]].in) \cap Ports(toLoad[i].in) = {}
    BY DEF PortsInv, PortsOf, Ports
  <1>4. ~PortClaimed(toLoad[i].in) /\ ~PortClaimed(EgressFor(toLoad[i].in))
    BY <1>3, ClaimedMeans DEF Ports
  <1>5. /\ PortsExclusive' /\ NoClash(image') /\ NoClash(file')
        /\ Registered' = Registered \cup {i}
        /\ objects'[streams'[i]].in = toLoad[i].in
        /\ \A j \in Registered \ {i} : objects'[streams'[j]].in = objects[streams[j]].in
    BY <1>1, <1>2, <1>4, RegisterPorts
  <1>6. DOMAIN toLoad' = DOMAIN toLoad \ {i} /\ \A j \in DOMAIN toLoad' : toLoad'[j] = toLoad[j]
    BY <1>1
  <1>7. NoClash(toLoad')
    BY <1>6 DEF PortsInv, NoClash
  <1>8. ASSUME NEW k \in Registered', NEW j \in DOMAIN toLoad'
        PROVE  k # j /\ Ports(objects'[streams'[k]].in) \cap Ports(toLoad'[j].in) = {}
    <2>1. CASE k = i
      BY <1>5, <1>6, <2>1 DEF PortsInv, NoClash
    <2>2. CASE k # i
      BY <1>5, <1>6, <2>2 DEF PortsInv, PortsOf, Ports
    <2> QED
      BY <2>1, <2>2
  <1>9. ChecksHold'
    <2>1. \A h \in Handlers : pc'[h] = "idle"
      BY <1>1, <1>2, GotoEffect, SomeActors DEF IInv, Phases, Places
    <2> QED
      BY <2>1 DEF ChecksHold
  <1> QED
    BY <1>5, <1>7, <1>8, <1>9 DEF PortsInv, PortsOf, Ports, NoClash

\* The steps that change neither the map nor the ports of a stream in it,
\* and those that take a stream out.
LEMMA OtherPorts ==
    ASSUME IInv, PortsInv, NEW a \in Actors,
           \/ DeleteFromMap(a) \/ CloseStopCh(a) \/ Persist(a) \/ FinishWrite(a)
           \/ a \in Handlers /\ UpdateSchedule(a)
    PROVE  PortsInv'
  <1>1. TypeOK /\ Arguments
    BY DEF IInv
  <1>2. \A b \in Actors \ {a} : pc'[b] = pc[b] /\ arg'[b] = arg[b]
    <2>1. CASE DeleteFromMap(a)
      <3>1. \A b \in Actors \ {a} : pc'[b] = pc[b]
        BY <1>1, <2>1, GotoEffect, EndEffect DEF DeleteFromMap, TakeObject, Places
      <3>2. \A b \in Actors \ {a} : arg'[b] = arg[b]
        BY <1>1, <2>1, EndEffect, Typed DEF DeleteFromMap, TakeObject
      <3> QED
        BY <3>1, <3>2
    <2>2. CASE CloseStopCh(a)
      BY <1>1, <2>2, GotoEffect DEF CloseStopCh, Places
    <2>3. CASE Persist(a)
      BY <1>1, <2>3, GotoEffect DEF Persist, Places
    <2>4. CASE FinishWrite(a)
      BY <1>1, <2>4, EndEffect DEF FinishWrite
    <2>5. CASE a \in Handlers /\ UpdateSchedule(a)
      BY <1>1, <2>5, UpdateEffect
    <2> QED
      BY <2>1, <2>2, <2>3, <2>4, <2>5
  <1>3. pc'[a] \notin {"checkOut", "add"}
    <2>1. CASE DeleteFromMap(a)
      BY <1>1, <2>1, GotoEffect, EndEffect DEF DeleteFromMap, TakeObject, Places, Rest
    <2>2. CASE CloseStopCh(a)
      BY <1>1, <2>2, GotoEffect DEF CloseStopCh, Places
    <2>3. CASE Persist(a)
      BY <1>1, <2>3, GotoEffect DEF Persist, Places
    <2>4. CASE FinishWrite(a)
      BY <1>1, <2>4, EndEffect DEF FinishWrite, Rest
    <2>5. CASE a \in Handlers /\ UpdateSchedule(a)
      BY <1>1, <2>5, UpdateEffect
    <2> QED
      BY <2>1, <2>2, <2>3, <2>4, <2>5
  <1>4. /\ Registered' \subseteq Registered
        /\ \A i \in Registered' : objects'[streams'[i]].in = objects[streams[i]].in
    <2>1. CASE DeleteFromMap(a)
      <3>1. streams' = [streams EXCEPT ![arg[a].id] = 0] /\ objects' = objects
        BY <2>1 DEF DeleteFromMap
      <3> QED
        BY <1>1, <3>1, Typed DEF Registered
    <2>2. CASE CloseStopCh(a) \/ Persist(a) \/ FinishWrite(a)
      BY <2>2 DEF CloseStopCh, Persist, FinishWrite, memory, Registered
    <2>3. CASE a \in Handlers /\ UpdateSchedule(a)
      BY <1>1, <2>3, UpdateEffect, MapIsTyped DEF Registered
    <2> QED
      BY <2>1, <2>2, <2>3
  <1>5. NoClash(file') /\ NoClash(image') /\ toLoad' = toLoad
    <2>1. CASE DeleteFromMap(a) \/ CloseStopCh(a) \/ UpdateSchedule(a)
      BY <2>1 DEF DeleteFromMap, CloseStopCh, UpdateSchedule, disk, PortsInv
    <2>2. CASE Persist(a)
      BY <1>1, <2>2, ExclusiveContent DEF Persist, BeginWrite, PortsInv
    <2>3. CASE FinishWrite(a)
      BY <2>3 DEF FinishWrite, PortsInv
    <2> QED
      BY <2>1, <2>2, <2>3
  <1>6. ChecksHold'
    BY <1>2, <1>3, <1>4, ChecksKept, SomeActors DEF PortsInv
  <1> QED
    BY <1>4, <1>5, <1>6, PortsKept

LEMMA ProcessPorts ==
    ASSUME IInv, PortsInv,
           Crash \/ Restart \/ Loaded \/ UNCHANGED vars \/ \E o \in running : RunEnds(o)
    PROVE  PortsInv'
  <1>1. CASE Crash
    <2>1. Registered' = {}
      BY <1>1 DEF Crash, Registered
    <2>2. NoClash(file') /\ NoClash(image') /\ DOMAIN toLoad' = {}
      BY <1>1, NoEntries DEF Crash, PortsInv, NoClash
    <2>3. ChecksHold'
      BY <1>1, SomeActors DEF Crash, ChecksHold
    <2> QED
      BY <2>1, <2>2, <2>3 DEF PortsInv, PortsExclusive, NoClash
  <1>2. CASE Restart
    <2>1. Registered = {} /\ Registered' = {}
      BY <1>2 DEF Restart, memory, IInv, Phases, Registered
    <2>2. NoClash(file') /\ NoClash(image') /\ NoClash(toLoad')
      BY <1>2, NoEntries DEF Restart, disk, PortsInv, NoClash
    <2>3. ChecksHold'
      BY <1>2, <2>1 DEF Restart, ChecksHold, PortClaimed
    <2> QED
      BY <2>1, <2>2, <2>3 DEF PortsInv, PortsExclusive, NoClash
  <1>3. CASE Loaded \/ UNCHANGED vars \/ \E o \in running : RunEnds(o)
    <2>1. UNCHANGED <<streams, objects, pc, arg, file, image, toLoad>>
      BY <1>3 DEF Loaded, vars, RunEnds, memory, disk
    <2>2. Registered' = Registered
      BY <2>1 DEF Registered
    <2>3. ChecksHold'
      BY <2>1, <2>2 DEF PortsInv, ChecksHold, PortClaimed
    <2> QED
      BY <2>1, <2>2, <2>3, PortsKept DEF PortsInv
  <1> QED
    BY <1>1, <1>2, <1>3

LEMMA PortsInvariance ==
    ASSUME OneRequest
    PROVE  Spec => []PortsInv
  <1>1. Init => PortsInv
    <2> SUFFICES ASSUME Init PROVE PortsInv
      OBVIOUS
    <2>1. Registered = {} /\ DOMAIN toLoad = {} /\ DOMAIN file = {} /\ DOMAIN image = {}
      BY NoEntries DEF Init, Registered
    <2>2. \A h \in Handlers : pc[h] = "idle"
      BY SomeActors DEF Init
    <2> QED
      BY <2>1, <2>2 DEF PortsInv, PortsExclusive, ChecksHold, NoClash
  <1>2. IInv /\ PortsInv /\ [Next]_vars => PortsInv'
    <2>1. ASSUME IInv, PortsInv, Next PROVE PortsInv'
      <3>1. TypeOK /\ Arguments /\ Phases
        BY <2>1 DEF IInv
      <3> QED
        BY <2>1, <3>1, NextSteps, SilentPorts, AddStreamPorts, LoadNextPorts, OtherPorts,
           ProcessPorts, SomeActors
    <2> QED
      BY <2>1, ProcessPorts
  <1> QED
    BY <1>1, <1>2, Invariance, PTL DEF Spec

-----------------------------------------------------------------------------
(* What a restart restores *)

\* No stream is both there and still to be loaded.
LoadedOnce == up = "loading" => Registered \cap DOMAIN toLoad = {}

\* Steps that are taken while the process is not up, but crashes.
LEMMA StartUpSteps ==
    ASSUME IInv, [Next]_vars, up # "up", ~Crash
    PROVE  \/ up' = up /\ UNCHANGED <<streams, objects, file, torn, toLoad>>
           \/ up = "loading" /\ FinishWrite(Loader)
           \/ up = "loading" /\ \E i \in DOMAIN toLoad : LoadNext(i)
           \/ Restart \/ Loaded
  <1>1. TypeOK /\ Arguments /\ Phases
    BY DEF IInv
  <1>2. CASE UNCHANGED vars
    BY <1>2 DEF vars, memory, disk
  <1>3. CASE Next
    <2>1. \A a \in Actors \ {Loader} : pc[a] = "idle"
      BY <1>1 DEF Phases
    <2>2. pc[Loader] \in {"idle", "write"}
      BY <1>1 DEF Phases
    <2>3. ASSUME NEW a \in Actors
          PROVE  ~Silent(a)
      BY DEF Silent
    <2>4. ASSUME NEW h \in Handlers
          PROVE  ~AddStream(h) /\ ~UpdateSchedule(h)
      BY <2>1, SomeActors DEF AddStream, UpdateSchedule, Goto
    <2>5. ASSUME NEW a \in Actors
          PROVE  ~DeleteFromMap(a) /\ ~CloseStopCh(a) /\ ~Persist(a)
      BY <2>1, <2>2 DEF DeleteFromMap, TakeObject, CloseStopCh, Persist, Goto, End
    <2>6. ASSUME NEW a \in Actors, FinishWrite(a)
          PROVE  a = Loader /\ up = "loading"
      <3>1. pc[a] = "write"
        BY <2>6 DEF FinishWrite, End, Goto
      <3> QED
        BY <1>1, <2>1, <3>1 DEF Phases
    <2>7. ASSUME NEW o \in running, RunEnds(o)
          PROVE  up' = up /\ UNCHANGED <<streams, objects, file, torn, toLoad>>
      BY <2>7 DEF RunEnds, disk
    <2>8. ASSUME NEW i \in DOMAIN toLoad, LoadNext(i)
          PROVE  up = "loading"
      BY <2>8 DEF LoadNext
    <2> QED
      BY <1>1, <1>3, <2>3, <2>4, <2>5, <2>6, <2>7, <2>8, NextSteps
  <1> QED
    BY <1>2, <1>3

LEMMA NewObject ==
    ASSUME TypeOK, NEW a \in Actors, NEW id \in Ids, NEW in \in InPorts, NEW plan \in Plans,
           Register(a, id, in, plan)
    PROVE  objects'[Len(objects) + 1] = [id |-> id, in |-> in, plan |-> plan]
  <1> DEFINE e == [id |-> id, in |-> in, plan |-> plan]
  <1>1. objects' = Append(objects, e)
    BY DEF Register
  <1>2. e \in Objects
    BY DEF Objects
  <1> HIDE DEF e
  <1>3. objects'[Len(objects) + 1] = e
    BY <1>1, <1>2, AddEffect
  <1> QED
    BY <1>3 DEF e

LEMMA FileIsFunction ==
    ASSUME NEW f \in Files
    PROVE  f = [i \in DOMAIN f |-> f[i]]
  BY DEF Files

LEMMA SameConfigured ==
    ASSUME UNCHANGED <<up, streams, objects, file, torn, toLoad>>
    PROVE  Configured' = Configured
  <1>1. Content(streams, objects)' = Content(streams, objects) /\ Registered' = Registered
    BY DEF Registered
  <1> QED
    BY <1>1 DEF Configured

LEMMA ConfiguredLoading ==
    /\ up = "loading" => Configured =
         [i \in Registered \cup DOMAIN toLoad |->
             IF i \in Registered THEN Content(streams, objects)[i] ELSE toLoad[i]]
    /\ up' = "loading" => Configured' =
         [i \in Registered' \cup DOMAIN toLoad' |->
             IF i \in Registered' THEN Content(streams', objects')[i] ELSE toLoad'[i]]
  <1>1. Content(streams, objects)' = Content(streams', objects')
    OBVIOUS
  <1> QED
    BY <1>1 DEF Configured

\* What LoadNext does to the map, to what is left to load and to the objects.
LEMMA LoadNextEffect ==
    ASSUME IInv, NEW i \in DOMAIN toLoad, LoadNext(i)
    PROVE  /\ up = "loading" /\ up' = up
           /\ DOMAIN toLoad' = DOMAIN toLoad \ {i}
           /\ \A j \in DOMAIN toLoad' : toLoad'[j] = toLoad[j]
           /\ i \in Ids /\ Registered' = Registered \cup {i}
           /\ \A j \in Registered \ {i} : /\ streams'[j] = streams[j]
                                          /\ objects'[streams'[j]] = objects[streams[j]]
           /\ streams'[i] # 0
           /\ objects'[streams'[i]] = [id |-> i, in |-> toLoad[i].in, plan |-> toLoad[i].plan]
  <1> DEFINE o == Len(objects) + 1
  <1>1. /\ up = "loading" /\ Goto(Loader, "idle", "write")
        /\ Register(Loader, i, toLoad[i].in, toLoad[i].plan)
        /\ toLoad' = [j \in DOMAIN toLoad \ {i} |-> toLoad[j]]
    BY DEF LoadNext
  <1>2. /\ Loader \in Actors /\ i \in Ids /\ toLoad[i].in \in InPorts /\ toLoad[i].plan \in Plans
        /\ TypeOK
    BY SomeActors, FileFacts DEF IInv, TypeOK
  <1>3. /\ \A x \in 1..Len(objects) : objects'[x] = objects[x]
        /\ objects'[o] = [id |-> i, in |-> toLoad[i].in, plan |-> toLoad[i].plan]
        /\ streams' \in [Ids -> 0..o] /\ streams'[i] = o
        /\ \A j \in Ids \ {i} : streams'[j] = streams[j]
        /\ up' = up
    <2>1. objects'[o] = [id |-> i, in |-> toLoad[i].in, plan |-> toLoad[i].plan]
      BY <1>1, <1>2, NewObject
    <2> QED
      BY <1>1, <1>2, <2>1, RegisterEffect
  <1>4. Len(objects) \in Nat /\ o # 0
    BY <1>2, Typed
  <1> HIDE DEF o
  <1>5. Registered \subseteq Ids /\ \A j \in Registered : streams[j] \in 1..Len(objects)
    BY <1>2, MapIsTyped
  <1>6. Registered' = Registered \cup {i}
    BY <1>2, <1>3, <1>4 DEF Registered
  <1> QED
    BY <1>1, <1>2, <1>3, <1>4, <1>5, <1>6

LEMMA NextLoadedOnce == IInv /\ LoadedOnce /\ [Next]_vars => LoadedOnce'
  <1> SUFFICES ASSUME IInv, LoadedOnce, [Next]_vars, up' = "loading"
               PROVE  Registered' \cap DOMAIN toLoad' = {}
    BY DEF LoadedOnce
  <1>1. ~Crash
    BY DEF Crash
  <1>2. CASE up = "up"
    <2>1. up' # "loading"
      <3>1. CASE UNCHANGED vars
        BY <1>2, <3>1 DEF vars
      <3>2. CASE Next
        <4>1. TypeOK /\ Arguments /\ Phases
          BY DEF IInv
        <4> QED
          BY <1>2, <3>2, <4>1, NextSteps DEF Silent, AddStream, UpdateSchedule, Register,
             DeleteFromMap, CloseStopCh, Persist, FinishWrite, RunEnds, LoadNext, Crash,
             Restart, Loaded
      <3> QED
        BY <3>1, <3>2
    <2> QED
      BY <2>1
  <1>3. CASE up # "up"
    <2>1. CASE up' = up /\ UNCHANGED <<streams, objects, file, torn, toLoad>>
      BY <2>1 DEF LoadedOnce, Registered
    <2>2. CASE up = "loading" /\ FinishWrite(Loader)
      BY <2>2 DEF FinishWrite, memory, LoadedOnce, Registered
    <2>3. ASSUME NEW i \in DOMAIN toLoad, LoadNext(i)
          PROVE  Registered' \cap DOMAIN toLoad' = {}
      BY <2>3, LoadNextEffect DEF LoadedOnce
    <2>4. CASE Restart
      BY <2>4 DEF Restart, memory, IInv, Phases, Registered
    <2>5. CASE Loaded
      BY <2>5 DEF Loaded
    <2> QED
      BY <1>1, <1>3, <2>1, <2>2, <2>3, <2>4, <2>5, StartUpSteps
  <1> QED
    BY <1>2, <1>3

\* An entry that is loaded is saved again as it was.
LEMMA LoadNextConfigured ==
    ASSUME IInv, LoadedOnce, NEW i \in DOMAIN toLoad, LoadNext(i)
    PROVE  Configured' = Configured
  <1>1. /\ up = "loading" /\ up' = up
        /\ DOMAIN toLoad' = DOMAIN toLoad \ {i}
        /\ \A j \in DOMAIN toLoad' : toLoad'[j] = toLoad[j]
        /\ i \in Ids /\ Registered' = Registered \cup {i}
        /\ \A j \in Registered \ {i} : /\ streams'[j] = streams[j]
                                       /\ objects'[streams'[j]] = objects[streams[j]]
        /\ streams'[i] # 0
        /\ objects'[streams'[i]] = [id |-> i, in |-> toLoad[i].in, plan |-> toLoad[i].plan]
    BY LoadNextEffect
  <1>2. i \notin Registered
    BY <1>1 DEF LoadedOnce
  <1>3. toLoad[i] = [in |-> toLoad[i].in, plan |-> toLoad[i].plan]
    <2>1. toLoad[i] \in Entries
      BY FileFacts DEF IInv, TypeOK
    <2> QED
      BY <2>1 DEF Entries
  <1>4. \A j \in Registered : Content(streams, objects)[j] =
             [in |-> objects[streams[j]].in, plan |-> objects[streams[j]].plan]
    BY DEF Content, Registered
  <1>5. \A j \in Registered' : Content(streams', objects')[j] =
             [in |-> objects'[streams'[j]].in, plan |-> objects'[streams'[j]].plan]
    BY DEF Content, Registered
  <1>6. ASSUME NEW j \in Registered
        PROVE  Content(streams', objects')[j] = Content(streams, objects)[j]
    <2>1. j \in Registered' /\ objects'[streams'[j]] = objects[streams[j]]
      BY <1>1, <1>2
    <2> QED
      BY <1>4, <1>5, <2>1
  <1>7. Content(streams', objects')[i] = toLoad[i]
    BY <1>1, <1>3, <1>5
  <1> DEFINE D == Registered \cup DOMAIN toLoad
             now(j) == IF j \in Registered THEN Content(streams, objects)[j] ELSE toLoad[j]
             next(j) == IF j \in Registered' THEN Content(streams', objects')[j] ELSE toLoad'[j]
  <1>8. \A j \in D : next(j) = now(j)
    BY <1>1, <1>2, <1>6, <1>7
  <1>9. Registered' \cup DOMAIN toLoad' = D
    BY <1>1
  <1>10. Configured = [j \in D |-> now(j)]
    BY <1>1, ConfiguredLoading
  <1>11. Configured' = [j \in D |-> next(j)]
    BY <1>1, <1>9, ConfiguredLoading
  <1> HIDE DEF D, now, next
  <1> QED
    BY <1>8, <1>10, <1>11

LEMMA StepsKeepConfigured ==
    ASSUME IInv, LoadedOnce, [Next]_vars
    PROVE  StartUpKeeps
  <1>1. CASE up # "up" /\ ~Crash
    <2> SUFFICES Configured' = Configured
      BY DEF StartUpKeeps
    <2>1. CASE up' = up /\ UNCHANGED <<streams, objects, file, torn, toLoad>>
      BY <2>1, SameConfigured
    <2>2. CASE up = "loading" /\ FinishWrite(Loader)
      <3>1. UNCHANGED <<up, streams, objects, toLoad>> /\ up = "loading"
        BY <2>2 DEF FinishWrite, memory
      <3>2. Content(streams, objects)' = Content(streams, objects) /\ Registered' = Registered
        BY <3>1 DEF Registered
      <3> QED
        BY <3>1, <3>2 DEF Configured
    <2>3. ASSUME NEW i \in DOMAIN toLoad, LoadNext(i)
          PROVE  Configured' = Configured
      BY <2>3, LoadNextConfigured
    <2>4. CASE Restart
      <3>1. /\ up = "down" /\ up' = "loading" /\ toLoad' = Configured
            /\ streams' = streams
        BY <2>4 DEF Restart, memory, Configured
      <3>2. Registered' = {}
        BY <3>1 DEF IInv, Phases, Registered
      <3>3. toLoad' \in Files
        BY <3>1, NoEntries DEF IInv, TypeOK, Configured
      <3>4. Configured' = [i \in DOMAIN toLoad' |-> toLoad'[i]]
        BY <3>1, <3>2 DEF Configured
      <3> QED
        BY <3>1, <3>3, <3>4, FileIsFunction
    <2>5. CASE Loaded
      <3>1. /\ up = "loading" /\ up' = "up" /\ toLoad = <<>>
            /\ UNCHANGED <<streams, objects>>
        BY <2>5 DEF Loaded, memory
      <3>2. Configured' = Content(streams, objects)
        <4>1. Content(streams, objects)' = Content(streams, objects)
          BY <3>1
        <4> QED
          BY <3>1, <4>1 DEF Configured
      <3>3. DOMAIN toLoad = {}
        BY <3>1, NoEntries
      <3>4. Configured = [i \in Registered |-> Content(streams, objects)[i]]
        BY <3>1, <3>3 DEF Configured
      <3>5. DOMAIN Content(streams, objects) = Registered /\ Content(streams, objects) \in Files
        BY MapIsTyped DEF IInv
      <3> QED
        BY <3>2, <3>4, <3>5, FileIsFunction
    <2> QED
      BY <1>1, <2>1, <2>2, <2>3, <2>4, <2>5, StartUpSteps
  <1>2. CASE Crash /\ up = "up" /\ Settled
    <2>1. Configured = Content(streams, objects)
      BY <1>2 DEF Configured
    <2>2. Configured' = IF torn THEN <<>> ELSE file
      BY <1>2 DEF Configured, Crash
    <2>3. ~Writing /\ ~Dirty
      BY <1>2 DEF Settled, Writing, Dirty
    <2>4. IF torn THEN Registered = {} ELSE file = Content(streams, objects)
      BY <1>2, <2>3 DEF IInv, FileIsRight
    <2>5. Registered = {} => <<>> = Content(streams, objects)
      BY Typed, NoContent, NoEntries DEF IInv, Registered
    <2>6. Configured' = Configured
      BY <2>1, <2>2, <2>4, <2>5
    <2> QED
      BY <2>6 DEF StartUpKeeps
  <1> QED
    BY <1>1, <1>2 DEF StartUpKeeps

-----------------------------------------------------------------------------
(* Theorems *)

\* Every variable keeps its type, through crashes and restarts.
THEOREM TypeCorrect == Spec => []TypeOK
  <1>1. IInv => TypeOK
    BY DEF IInv
  <1> QED
    BY <1>1, Invariance, PTL

\* Whenever nobody is at it, the streams file is what the map would be saved as.
THEOREM FileCurrent == Spec => []SettledFileIsCurrent
  <1>1. IInv => SettledFileIsCurrent
    <2> SUFFICES ASSUME IInv, up = "up", Settled
                 PROVE  IF torn THEN Registered = {} ELSE file = Content(streams, objects)
      BY DEF SettledFileIsCurrent
    <2>1. ~Writing /\ ~Dirty
      BY DEF Settled, Writing, Dirty
    <2> QED
      BY <2>1 DEF IInv, FileIsRight
  <1> QED
    BY <1>1, Invariance, PTL

\* Whoever is about to close a stopCh is the only one, and the first.
THEOREM ClosedOnce == Spec => []StoppedOnce
  <1>1. IInv => StoppedOnce
    BY DEF IInv
  <1> QED
    BY <1>1, Invariance, PTL

\* A stream whose removal has returned stays away, whatever crashes follow.
THEOREM RemovedStaysAway == Spec => []NothingComesBack
  <1>1. IInv => NothingComesBack
    BY DEF IInv
  <1> QED
    BY <1>1, Invariance, PTL

\* Only a stream that another one took the id of runs on unseen.
THEOREM OnlyReplacedStray == Spec => []StrayOnlyIfReplaced
  <1>1. IInv => StrayOnlyIfReplaced
    BY DEF IInv
  <1> QED
    BY <1>1, Invariance, PTL

\* What was added and left alone survives every crash outside of a write.
THEOREM KeptUnlessHurt == Spec => []LostOnlyInWrite
  <1>1. IInv => LostOnlyInWrite
    BY DEF IInv, KeptSomewhere, LostOnlyInWrite
  <1> QED
    BY <1>1, Invariance, PTL

\* With one request at a time no port is booked twice, whatever the scheduler
\* removes, crashes undo and LoadStreams brings back, and however the ingress
\* and egress ports of the pairs cross.
THEOREM PortsBookedOnce ==
    ASSUME OneRequest
    PROVE  Spec => []PortsExclusive
  <1>1. PortsInv => PortsExclusive
    BY DEF PortsInv
  <1> QED
    BY <1>1, PortsInvariance, PTL

\* A restart brings back every stream, with its ports and its schedule, and no
\* other, unless the crash before it hit a change that was not yet written.
THEOREM Restored == Spec => RestartRestores
  <1>1. Init => LoadedOnce
    BY DEF Init, LoadedOnce
  <1>2. IInv /\ LoadedOnce /\ [Next]_vars => StartUpKeeps
    BY StepsKeepConfigured
  <1> QED
    BY <1>1, <1>2, NextLoadedOnce, Invariance, PTL DEF Spec, RestartRestores

=============================================================================
