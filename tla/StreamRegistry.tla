--------------------------- MODULE StreamRegistry ---------------------------
(***************************************************************************)
(* The registry of streams and its file: internal/relay/relay.go,          *)
(* persist.go, the tick of scheduler.go and the stream handlers of         *)
(* server.go.  HTTP requests, the scheduler and, at start-up, LoadStreams  *)
(* work on one map from ids to stream objects; every change of the map is  *)
(* followed by a rewrite of the streams file, in place.                    *)
(*                                                                         *)
(* A step is one critical section of r.mu or s.mu, except that the section *)
(* that writes the file has two: truncation and the rest.  What a stream   *)
(* does while it runs is StreamLifecycle's; here it holds its ports until  *)
(* its goroutine ends.                                                     *)
(***************************************************************************)
EXTENDS Naturals, Sequences, FiniteSets

CONSTANTS
    Ids,            \* what generateStreamID makes of names: several names may share one
    PortLow, PortHigh, EgressOffset,
    PortFile,       \* entries of the file of port pairs, <<>> without one
    Handlers,       \* goroutines of HTTP requests
    Scheduler,      \* the scheduler's goroutine
    Loader,         \* main(), in LoadStreams
    MaxObjects,     \* bound: streams created in one run of the process
    MaxCrashes      \* bound

PortNumber == 1..65535

\* loadPortPairs: what it does not return an error for.
ValidEntries(entries) ==
    /\ entries \in Seq(PortNumber \X PortNumber)
    /\ \A i, j \in DOMAIN entries : i # j => entries[i][1] # entries[j][1]

ASSUME PortsAssumption ==
    /\ PortLow \in Nat /\ PortHigh \in PortLow..65535 /\ EgressOffset \in Nat \ {0}
    /\ ValidEntries(PortFile)
    /\ MaxObjects \in Nat /\ MaxCrashes \in Nat
    /\ Scheduler \notin Handlers /\ Loader \notin Handlers /\ Scheduler # Loader

Actors == Handlers \cup {Scheduler, Loader}

\* A schedule, as far as the registry is concerned: whether tick() may decide
\* to remove the stream.
Plans == {"stays", "expires"}

VARIABLES
    up,         \* the process is "down", "loading" or "up"
    streams,    \* Relay.streams: the object of each id, 0 if there is none
    objects,    \* every object made by AddStream: id, ingress port, schedule
    running,    \* objects whose goroutine has not ended
    stopped,    \* objects whose stopCh is closed
    pc,         \* where each actor is in the operation it performs
    arg,        \* ... and its arguments and local variables
    snapshot,   \* what is left of the list of streams taken by tick()
    file,       \* the streams file: from ids to what is saved of them
    torn,       \* it is truncated
    image,      \* what the actor in the write is about to write
    toLoad,     \* what LoadStreams has read and not added yet, as in file
    crashes,    \* number of crashes
    hurt,       \* history: one of them hit a write, or LoadStreams
    kept,       \* history: ids whose AddStream returned, not touched since
    dropped     \* history: ids whose RemoveStream returned, not added since

memory  == <<streams, objects, running, stopped, snapshot>>
disk    == <<file, torn, image>>
history == <<kept, dropped, hurt>>
vars    == <<up, memory, pc, arg, disk, toLoad, crashes, history>>

\* portCandidates, with ingress and egress; egressFor.
PortPairs == IF PortFile # <<>> THEN {PortFile[i] : i \in DOMAIN PortFile}
             ELSE {<<p, p + EgressOffset>> : p \in PortLow..PortHigh}

InPorts == {pair[1] : pair \in PortPairs}

EgressFor(in) == (CHOOSE pair \in PortPairs : pair[1] = in)[2]

\* The id of an actor that is at no operation.
NoId == "no id"
NoPort == CHOOSE in \in InPorts : TRUE
NoArg == [id |-> NoId, in |-> NoPort, plan |-> "stays", obj |-> 0]

Registered == {i \in Ids : streams[i] # 0}

\* Possible contents of the streams file.
Files == UNION {[D -> [in : InPorts, plan : Plans]] : D \in SUBSET Ids}

\* MUTANT: streams about to expire are not worth saving.
ContentThatStays(st, obs) ==
    [i \in {j \in Ids : st[j] # 0 /\ obs[st[j]].plan = "stays"} |->
        [in |-> obs[st[i]].in, plan |-> obs[st[i]].plan]]

\* What persistLocked writes for the map st of objects obs.
Content(st, obs) ==
    [i \in {j \in Ids : st[j] # 0} |->
        [in |-> obs[st[i]].in, plan |-> obs[st[i]].plan]]

TypeOK ==
    /\ up \in {"down", "loading", "up"}
    /\ streams \in [Ids -> 0..Len(objects)]
    /\ objects \in Seq([id : Ids, in : InPorts, plan : Plans])
    /\ running \subseteq 1..Len(objects)
    /\ stopped \subseteq 1..Len(objects)
    /\ pc \in [Actors -> {"idle", "checkIn", "checkOut", "add", "write", "delete",
                          "close", "await", "persist", "get", "update", "decide"}]
    /\ arg \in [Actors -> [id : Ids \cup {NoId}, in : InPorts, plan : Plans, obj : 0..Len(objects)]]
    /\ snapshot \subseteq 1..Len(objects)
    /\ file \in Files
    /\ torn \in BOOLEAN
    /\ image \in Files
    /\ toLoad \in Files
    /\ crashes \in 0..MaxCrashes
    /\ kept \subseteq Ids
    /\ dropped \subseteq Ids
    /\ hurt \in BOOLEAN

Init ==
    /\ streams = [i \in Ids |-> 0]
    /\ objects = <<>>
    /\ running = {}
    /\ stopped = {}
    /\ snapshot = {}
    /\ pc = [a \in Actors |-> "idle"]
    /\ arg = [a \in Actors |-> NoArg]
    /\ up = "up"
    /\ file = <<>>
    /\ torn = FALSE
    /\ image = <<>>
    /\ toLoad = <<>>
    /\ crashes = 0
    /\ kept = {}
    /\ dropped = {}
    /\ hurt = FALSE

-----------------------------------------------------------------------------
(* Steps of an operation *)

\* r.mu is free: nobody is writing the file.
Free == \A a \in Actors : pc[a] # "write"

Goto(a, from, to) ==
    /\ pc[a] = from
    /\ pc' = [pc EXCEPT ![a] = to]

\* Where an actor goes when its operation is over.
Rest(a) == IF a = Scheduler THEN "decide" ELSE "idle"

End(a, from) ==
    /\ Goto(a, from, Rest(a))
    /\ arg' = [arg EXCEPT ![a] = NoArg]

\* MUTANT: what the file holds of other streams is kept.
BeginWriteMerges(st, obs) ==
    LET new == Content(st, obs) IN
    /\ image' = [i \in DOMAIN new \cup DOMAIN file |->
                    IF i \in DOMAIN new THEN new[i] ELSE file[i]]
    /\ torn' = TRUE
    /\ UNCHANGED file

\* persistLocked, up to the truncation.
BeginWrite(st, obs) ==
    /\ image' = Content(st, obs)
    /\ torn' = TRUE
    /\ UNCHANGED file

\* ... and the rest of it, until r.mu is released and the operation is over.
FinishWrite(a) ==
    /\ End(a, "write")
    /\ file' = image
    /\ torn' = FALSE
    /\ kept' = kept \cup {i \in Registered : streams[i] = arg[a].obj}
    /\ dropped' = dropped \cup {i \in Ids \ Registered : i = arg[a].id /\ arg[a].obj # 0}
    /\ UNCHANGED <<up, memory, image, toLoad, crashes, hurt>>

\* The critical section of AddStream(): it replaces whatever the id stands for.
Register(a, id, in, plan) ==
    LET o   == Len(objects) + 1
        st  == [streams EXCEPT ![id] = o]
        obs == Append(objects, [id |-> id, in |-> in, plan |-> plan])
    IN /\ Free
       /\ streams' = st
       /\ objects' = obs
       /\ running' = running \cup {o}
       /\ arg' = [arg EXCEPT ![a] = [id |-> id, in |-> in, plan |-> plan, obj |-> o]]
       /\ BeginWrite(st, obs)
       /\ UNCHANGED <<up, stopped, snapshot, crashes>>

-----------------------------------------------------------------------------
(* handleAddStream *)

Begin(h, at, id, in, plan) ==
    /\ up = "up"
    /\ Goto(h, "idle", at)
    /\ arg' = [arg EXCEPT ![h] = [id |-> id, in |-> in, plan |-> plan, obj |-> 0]]
    /\ UNCHANGED <<up, memory, disk, toLoad, crashes, history>>

RequestAdd(h, id, in, plan) ==
    /\ Len(objects) < MaxObjects
    /\ Begin(h, "checkIn", id, in, plan)

PortClaimed(port) ==
    \E i \in Registered : LET in == objects[streams[i]].in
                          IN port \in {in, EgressFor(in)}

\* One call of PortClaimed; the request is refused if the answer is yes.
Check(h, from, to, port) ==
    /\ Free
    /\ \/ Goto(h, from, to) /\ ~PortClaimed(port) /\ UNCHANGED arg
       \/ End(h, from) /\ PortClaimed(port)
    /\ UNCHANGED <<up, memory, disk, toLoad, crashes, history>>

CheckIn(h) == Check(h, "checkIn", "checkOut", arg[h].in)

\* MUTANT: only the ingress port is checked.
CheckOutSkipped(h) ==
    /\ Goto(h, "checkOut", "add")
    /\ UNCHANGED <<up, memory, arg, disk, toLoad, crashes, history>>

CheckOut(h) == Check(h, "checkOut", "add", EgressFor(arg[h].in))

AddStream(h) ==
    /\ Len(objects) < MaxObjects
    /\ Goto(h, "add", "write")
    /\ Register(h, arg[h].id, arg[h].in, arg[h].plan)
    /\ kept' = kept \ {arg[h].id}
    /\ dropped' = dropped \ {arg[h].id}
    /\ UNCHANGED <<toLoad, hurt>>

-----------------------------------------------------------------------------
(* RemoveStream, for handleRemoveStream and tick *)

RequestRemove(h, id) == Begin(h, "delete", id, NoPort, "stays")

\* The object the id stands for; without one, RemoveStream returns.
TakeObject(a) ==
    LET o == streams[arg[a].id] IN
    \/ Goto(a, "delete", "close") /\ o # 0 /\ arg' = [arg EXCEPT ![a].obj = o]
    \/ End(a, "delete") /\ o = 0

\* MUTANT: the object is looked up, but stays in the map until it has stopped.
RemoveWithoutDelete(a) ==
    LET id == arg[a].id IN
    /\ Free
    /\ TakeObject(a)
    /\ kept' = kept \ {id}
    /\ UNCHANGED <<up, memory, disk, toLoad, crashes, dropped, hurt>>

\* The critical section: whatever object the id stands for now is taken out.
DeleteFromMap(a) ==
    LET id == arg[a].id IN
    /\ Free
    /\ TakeObject(a)
    /\ streams' = [streams EXCEPT ![id] = 0]
    /\ kept' = kept \ {id}
    /\ UNCHANGED <<up, objects, running, stopped, snapshot, disk, toLoad, crashes, dropped, hurt>>

\* MUTANT: the object is out of the map, and that is that.
CloseStopChForgotten(a) ==
    /\ Goto(a, "close", "persist")
    /\ UNCHANGED <<up, memory, arg, disk, toLoad, crashes, history>>

CloseStopCh(a) ==
    /\ Goto(a, "close", "await")
    /\ stopped' = stopped \cup {arg[a].obj}
    /\ UNCHANGED <<up, streams, objects, running, snapshot, arg, disk, toLoad, crashes, history>>

AwaitStopped(a) ==
    /\ arg[a].obj \notin running
    /\ Goto(a, "await", "persist")
    /\ UNCHANGED <<up, memory, arg, disk, toLoad, crashes, history>>

\* persist(), the last call of RemoveStream and of handlePatchStream.
Persist(a) ==
    /\ Free
    /\ Goto(a, "persist", "write")
    /\ BeginWrite(streams, objects)
    /\ UNCHANGED <<up, memory, arg, toLoad, crashes, history>>

\* run() of a stream whose stopCh is closed ends.
RunEnds(o) ==
    /\ o \in running \cap stopped
    /\ running' = running \ {o}
    /\ UNCHANGED <<up, streams, objects, stopped, snapshot, pc, arg, disk, toLoad, crashes, history>>

-----------------------------------------------------------------------------
(* handlePatchStream *)

RequestPatch(h, id, plan) == Begin(h, "get", id, NoPort, plan)

GetStream(h) ==
    LET o == streams[arg[h].id] IN
    /\ Free
    /\ \/ Goto(h, "get", "update") /\ o # 0 /\ arg' = [arg EXCEPT ![h].obj = o]
       \/ End(h, "get") /\ o = 0
    /\ UNCHANGED <<up, memory, disk, toLoad, crashes, history>>

\* MUTANT: the change is not saved.
UpdateScheduleUnsaved(h) ==
    /\ End(h, "update")
    /\ objects' = [objects EXCEPT ![arg[h].obj].plan = arg[h].plan]
    /\ UNCHANGED <<up, streams, running, stopped, snapshot, disk, toLoad, crashes, history>>

\* The object may no longer be the one the id stands for, or be removed.
UpdateSchedule(h) ==
    /\ Goto(h, "update", "persist")
    /\ objects' = [objects EXCEPT ![arg[h].obj].plan = arg[h].plan]
    /\ arg' = [arg EXCEPT ![h].obj = 0]
    /\ UNCHANGED <<up, streams, running, stopped, snapshot, disk, toLoad, crashes, history>>

-----------------------------------------------------------------------------
(* tick *)

TakeSnapshot ==
    /\ up = "up"
    /\ Free
    /\ Goto(Scheduler, "idle", "decide")
    /\ snapshot' = {streams[i] : i \in Registered}
    /\ UNCHANGED <<up, streams, objects, running, stopped, arg, disk, toLoad, crashes, history>>

\* The look at one stream; the id is what RemoveStream is called with.
DecideToKeep(o) ==
    /\ o \in snapshot
    /\ Goto(Scheduler, "decide", "decide")
    /\ snapshot' = snapshot \ {o}
    /\ UNCHANGED <<up, streams, objects, running, stopped, arg, disk, toLoad, crashes, history>>

DecideToRemove(o) ==
    /\ o \in snapshot
    /\ objects[o].plan = "expires"
    /\ Goto(Scheduler, "decide", "delete")
    /\ snapshot' = snapshot \ {o}
    /\ arg' = [arg EXCEPT ![Scheduler].id = objects[o].id, ![Scheduler].obj = o]
    /\ UNCHANGED <<up, streams, objects, running, stopped, disk, toLoad, crashes, history>>

TickEnds ==
    /\ snapshot = {}
    /\ Goto(Scheduler, "decide", "idle")
    /\ UNCHANGED <<up, memory, arg, disk, toLoad, crashes, history>>

-----------------------------------------------------------------------------
(* Crash and start-up *)

Crash ==
    /\ up # "down"
    /\ crashes < MaxCrashes
    /\ crashes' = crashes + 1
    /\ up' = "down"
    /\ streams' = [i \in Ids |-> 0]
    /\ objects' = <<>>
    /\ running' = {}
    /\ stopped' = {}
    /\ snapshot' = {}
    /\ pc' = [a \in Actors |-> "idle"]
    /\ arg' = [a \in Actors |-> NoArg]
    /\ toLoad' = <<>>
    /\ image' = <<>>
    /\ hurt' = (hurt \/ torn \/ up = "loading")
    /\ UNCHANGED <<file, torn, kept, dropped>>

\* LoadStreams reads the file; a torn one cannot be parsed, which is a warning.
Restart ==
    /\ up = "down"
    /\ up' = "loading"
    /\ toLoad' = IF torn THEN <<>> ELSE file
    /\ UNCHANGED <<memory, pc, arg, disk, crashes, history>>

\* MUTANT: the schedule in the file is not passed on.
LoadNextWithoutPlan(i) ==
    /\ up = "loading"
    /\ Goto(Loader, "idle", "write")
    /\ Register(Loader, i, toLoad[i].in, "stays")
    /\ toLoad' = [j \in DOMAIN toLoad \ {i} |-> toLoad[j]]
    /\ UNCHANGED history

\* AddStream of one entry.
LoadNext(i) ==
    /\ up = "loading"
    /\ Goto(Loader, "idle", "write")
    /\ Register(Loader, i, toLoad[i].in, toLoad[i].plan)
    /\ toLoad' = [j \in DOMAIN toLoad \ {i} |-> toLoad[j]]
    /\ UNCHANGED history

\* The scheduler and the web server start.
Loaded ==
    /\ up = "loading"
    /\ pc[Loader] = "idle"
    /\ toLoad = <<>>
    /\ up' = "up"
    /\ UNCHANGED <<memory, pc, arg, disk, toLoad, crashes, history>>

-----------------------------------------------------------------------------

Add(h) == \/ \E id \in Ids, in \in InPorts, plan \in Plans : RequestAdd(h, id, in, plan)
          \/ CheckIn(h) \/ CheckOut(h) \/ AddStream(h)

Remove(a) == DeleteFromMap(a) \/ CloseStopCh(a) \/ AwaitStopped(a)

Patch(h) == \/ \E id \in Ids, plan \in Plans : RequestPatch(h, id, plan)
            \/ GetStream(h) \/ UpdateSchedule(h)

Tick == TakeSnapshot \/ TickEnds
          \/ \E o \in snapshot : DecideToKeep(o) \/ DecideToRemove(o)

StartUp == Restart \/ Loaded \/ \E i \in DOMAIN toLoad : LoadNext(i)

Next ==
    \/ \E h \in Handlers : Add(h) \/ Patch(h) \/ \E id \in Ids : RequestRemove(h, id)
    \/ \E a \in Actors : Remove(a) \/ Persist(a) \/ FinishWrite(a)
    \/ Tick
    \/ \E o \in running : RunEnds(o)
    \/ Crash \/ StartUp

Spec == Init /\ [][Next]_vars

-----------------------------------------------------------------------------
(* Properties *)

PortsOf(i) == LET in == objects[streams[i]].in IN {in, EgressFor(in)}

\* No port is booked twice, also where the egress port of one pair is the
\* ingress port of another, and also after a restart.
PortsExclusive ==
    \A i, j \in Registered : i # j => PortsOf(i) \cap PortsOf(j) = {}

\* Nobody is between a change of the streams and the end of the write after it.
Settled == \A a \in Actors : pc[a] \notin {"close", "await", "persist", "write"}

\* Whatever handlers and scheduler do at the same time, the file is current
\* whenever none of them is at it: later writes never carry older contents.
\* (A torn file is left as it is by a start without streams.)
SettledFileIsCurrent ==
    up = "up" /\ Settled =>
        IF torn THEN Registered = {} ELSE file = Content(streams, objects)

\* Two actors never stop the same stream: the second close(stopCh) would panic.
StoppedOnce ==
    \A a \in Actors : pc[a] = "close" =>
        /\ arg[a].obj \notin stopped
        /\ \A b \in Actors \ {a} : pc[b] = "close" => arg[b].obj # arg[a].obj

\* A stream whose removal has returned is neither listed nor saved, so that no
\* crash brings it back, unless it was added again.
NothingComesBack ==
    dropped \cap (Registered \cup IF torn THEN {} ELSE DOMAIN file) = {}

\* A stream that nobody stopped can be stopped: it is the one its id stands
\* for, or whoever took it out of the map is about to, or another one was added
\* under the same id, which takes the place of the first and lets it run on.
StrayOnlyIfReplaced ==
    \A o \in running \ stopped :
        \/ streams[objects[o].id] = o
        \/ \E a \in Actors : pc[a] = "close" /\ arg[a].obj = o
        \/ \E r \in (o + 1)..Len(objects) : objects[r].id = objects[o].id

\* What was added, and not touched since, is there after a restart, unless a
\* crash hit a write of the file or LoadStreams, which rewrites the file from
\* its first entry on.
LostOnlyInWrite == up = "up" /\ ~hurt => kept \subseteq Registered

\* No stream is running under an id whose removal has returned.
RemoveStopsAll ==
    \A i \in dropped : \A o \in running : objects[o].id # i

\* A stream whose AddStream has returned is still there after a restart,
\* unless a removal or replacement of it was begun.
KeptSurvives == up = "up" => kept \subseteq Registered

\* What LoadStreams has not restored yet is still in the file.
LoadKeepsFile == up = "loading" /\ ~torn => DOMAIN toLoad \subseteq DOMAIN file

\* The scheduler removes the stream it looked at, or none.
TickRemovesDecided ==
    [][DeleteFromMap(Scheduler) =>
        arg'[Scheduler].obj \in {arg[Scheduler].obj, 0}]_vars

\* The streams there are, or will be when LoadStreams is done.
Configured ==
    CASE up = "up"      -> Content(streams, objects)
      [] up = "down"    -> IF torn THEN <<>> ELSE file
      [] up = "loading" -> [i \in Registered \cup DOMAIN toLoad |->
                               IF i \in Registered THEN Content(streams, objects)[i]
                               ELSE toLoad[i]]

\* A restart changes nothing: no step of start-up, and no crash that finds every
\* change saved, adds or loses a stream, a port or a schedule.
StartUpKeeps ==
    (IF Crash THEN up = "up" /\ Settled ELSE up # "up") => Configured' = Configured

RestartRestores == [][StartUpKeeps]_vars

=============================================================================
