# A verification project for srt-relay-dashboard

The program relays live SRT video: each *stream* owns an ingress port, where one
publisher sends, and an egress port, where any number of readers receive. A web
dashboard creates, schedules and removes streams and shows a light for each.
These TLA+ modules model its concurrent core, TLC checks them on small
instances, and TLAPS proves every invariant and action property they check, for any
number of streams, requests and connections.  The program promises, in short: every publisher of an
active stream reaches all its readers and nobody else's, a stream that is
stopped or removed gives everything back, streams follow their schedules, and
what was configured survives a restart.

## The system

| Component | Code | State it keeps | Operations | Hard because |
|---|---|---|---|---|
| Stream lifecycle | `internal/relay/pump.go`, `relay.go`, `scheduler.go` | per stream: active flag, state and lights, listeners, fanout of readers, stop channel | `run`, `handleIngress`, `startRelay`, `pump`, `openEgress`/`closeEgress`, `acceptReaders`, `RemoveStream`, `tick`, `UpdateSchedule` | two goroutines per stream plus actors, flags polled by several goroutines, publishers routed across streams, blocking reads |
| Registry and ports | `relay.go`, `server.go`, `main.go` | map id -> stream object, port pairs | `AddStream`, `RemoveStream`, `PortClaimed`, `handleAddStream`, `handlePatchStream`, tick's snapshot | check-then-act, ids against objects |
| Schedules | `relay.go`, `scheduler.go` | start, stop, recurrence, auto-remove, last activity | `isActiveNowLocked`, `latestOccurrence`, the removal decisions of `tick` | calendar arithmetic, a grace period that means the opposite for recurring schedules, zero values |
| Persistence | `persist.go` | the streams file | `persistLocked`, `LoadStreams` | crashes between and inside writes |
| Dashboard | `server.go`, `web/index.html` | WebSocket clients, the list each browser shows | `broadcast`, `broadcastRemove`, `handleWS` | order of updates, snapshots and removals |
| Payload sniffing | `sniffer.go`, `ts_parser.go` | counts of what was seen, payload type, codecs | `feed`, `tryEFP`, `descriptorHasFourCC` | offsets computed from the packet, late content, a classification that is final |
| Health | `health.go` | none | `evaluateHealth` | counts of zero, two thresholds, delays against the latency |
| Accounts | `auth.go` | users, sessions, users file | log in and out, add, remove, set password | file against memory, requests in two critical sections |

What makes each of them correct:

- *Stream lifecycle*: a light stands for a running pump and stays on under it; a
  pump writes to the fanout its readers are in; a stream that is not serving holds
  nothing; stop and deactivation take effect; each stream is told to stop once;
  readers are accepted while the stream is active.
- *Registry and ports*: no port twice; no stream stopped twice; what is removed
  is what was meant, and stops; every running stream can be removed.
- *Schedules*: occurrences are computed right around days and weeks; the flag
  follows the schedule within a tick; a stream is removed when, and only when,
  it is over.
- *Persistence*: the file is current when nobody is changing it; a crash loses
  no stream and brings none back.
- *Dashboard*: every page ends with the list the server has; no goroutine is
  stuck behind a page.
- *Payload sniffing*: whatever a packet holds, the parser reads within it and
  comes to an end; a sender is told from its messages; a stream shows what was
  found, and of this publisher only.
- *Health*: a link that gets worse never looks better.
- *Accounts*: somebody can always log in; no session outlives its user; memory,
  file and answers agree; the program does not refuse a file it has written.

How they interact: HTTP handlers and the scheduler goroutine (*actors* below)
call the registry under `r.mu`, flip a stream's `active` flag under `s.mu` and
close its `stopCh`; the stream's own goroutine `run` polls both and owns the
listeners; `acceptReaders`, started by `openEgress`, polls them as well and adds
readers to the fanout that `pump` writes to; every change of state calls back to
the dashboard, which broadcasts it.

## Modules

| Module | Models |
|---|---|
| `StreamContract` | what one stream promises: created, opened, closed, retired; one session at a time, each connection at most once |
| `StreamLifecycle` | the goroutines of all streams, the actors and the connections |
| `MCStreamLifecycle` | instances for TLC |
| `StreamLifecycleProofs` | theorems about `StreamLifecycle` |
| `StreamContractProofs` | that `StreamLifecycle` implements `StreamContract` |
| `Schedule` | the schedule of one stream over time: `isActiveNowLocked`, `latestOccurrence`, the decisions of `tick` |
| `MCSchedule` | instances for TLC |
| `ScheduleProofs` | theorems about `Schedule` |
| `StreamRegistry` | the stream map, its file, the stream handlers, `tick`'s removals, crash and start-up |
| `MCStreamRegistry` | instances for TLC |
| `StreamRegistryProofs` | theorems about `StreamRegistry` |
| `Dashboard` | the server's broadcasts, its connections, and the list a page keeps |
| `MCDashboard` | instances for TLC |
| `DashboardProofs` | theorems about `Dashboard` |
| `TSParser` | the walk of the MPEG-TS parser over packets, tables and descriptors |
| `MCTSParser` | instances for TLC |
| `TSParserProofs` | theorems about `TSParser` |
| `Telemetry` | what a stream shows of its session: payload type, codecs, health |
| `MCTelemetry` | instances for TLC |
| `TelemetryProofs` | theorems about `Telemetry` |
| `Accounts` | users, their file, sessions, and the requests about them |
| `MCAccounts` | instances for TLC |
| `AccountsProofs` | theorems about `Accounts` |

The first three models meet at narrow interfaces. `Schedule` says when the active flag
changes; `StreamLifecycle` lets it change at any time. `StreamLifecycle` says
what a stream object does between `AddStream` and the end of `run`;
`StreamRegistry` only knows that it ends some time after `stopCh` is closed (and,
as `stop_completes` shows, not always). `StreamRegistry` says which object an id
stands for; in `StreamLifecycle` a stream is an object. `Dashboard` takes from
both that a stream appears, changes and is removed; `Telemetry` is what `pump`
does with the bytes `StreamLifecycle` only counts as read, for one publisher at a
time, and takes from `TSParser` that a packet with a PMT adds codecs by PID.
`Accounts` shares nothing with the rest but the process and its crashes.

### StreamLifecycle

Steps are critical sections, channel operations and SRT calls; `pc[s]` is where
`run` of stream `s` is:

| `pc` | Code |
|---|---|
| `top`, `sched` | the select on `stopCh` and the look at `active` at the head of `run` |
| `park` | `setState(StateScheduled)` of an inactive stream (the 2 s pause that follows ends in `top`) |
| `waiting`, `bind`, `open` | `setState(StateWaiting)`, the ingress `newListener`, `openEgress` |
| `loop`, `gate`, `wait` | the accept loop: select, look at `active`, `Accept` with its 500 ms deadline |
| `route`, `start` | `handleIngress`, the first critical section of `startRelay` |
| `pump`, `read`, `write`, `flag` | the loop of `pump`: select, `in.Read`, `readers.write`, the update of `EgressConnected` |
| `reset` | the end of `startRelay` |
| `detach` ... `join` | `closeEgress`; `after[s]` is the point of `run` that called it |

`rd[s]` is the same for `acceptReaders`. `tgt[s]` and `pfan[s]` are the target
and the fanout that `handleIngress` captured; `socks[s]` lists every fanout the
stream ever made, the last one being the one `openEgress` installed. Sockets are
where they are held: in a listener's backlog (`inQueue`, `outQueue`), by a
goroutine (`inSock`, `conn`) or in a fanout. `announcing`, `closing` and
`awaiting` are the actors between two steps of `tick`/`UpdateSchedule` and of
`RemoveStream`. `registered` are the streams in the map. A new stream may take the
id of one that is there (`r.streams[id] = s`), which is then out of the map with its
`stopCh` open and nobody to close it; the history variable `replaced` keeps these.
`StopHandshake` says of every stream which of the four it is: in the map, about to be
told, told, or replaced and never told.

`pump` is a method of the target, so that it looks at the `stopCh` and the `active`
flag of the stream a publisher was routed to and not at those of the stream whose
goroutine it keeps. `StopTakesEffect` and `DeactivationTakesEffect` therefore except,
next to a `Read` that never returns (`HeldByRead`), a publisher of a stream that goes
on (`HeldByTarget`); without either exception TLC refutes them. `PublisherKept` says when
the publisher light may go off: when the last pump of its stream ends, or one of
several. The second is what the code gets wrong (`PublisherShown`), the first what no
routing, schedule change, removal or teardown gets in the way of.

Schedules and the clock appear as a flag that an actor may flip at any time; a
streamid is the choice of the stream it names. A pause that only waits or sees
`stopCh` is merged with the check of `stopCh` that follows it. A publisher that
leaves is one whose buffered data has been read.

### Schedule

One stream, a clock that advances unit by unit, a scheduler that runs at least
every `TickPeriod`, and a user who may replace the schedule at any moment.
`latestOccurrence`, `isActiveOnce` and `isActiveRecurring` follow the code;
`Repeats` and `Due` say, without arithmetic on days and weekdays, what they
should compute: a stream is due if there has been no stop since its latest start, or
the stop was less than the grace period ago, as the comment at relay.go:52-55 has it
for every schedule; a schedule without a start has started (README.md:271 of the
program). For recurring schedules the code does the opposite, it takes the grace period
off: the tail after a stop is cut, and a start within the period after a stop does
not count. `CutOff` names exactly these two, and `FlagFollowsSchedule` compares the
flag with `Due` but for them: the flag is never on when the stream is not due, and off
when it is due only where it is cut off. That the code and the comment disagree is
shown by `grace_kept`, `TailKept` being what the comment says. `quiet` is the age of `lastActivity` (counted no further than
the comparison needs) and `age` that of the schedule. A week has seven days as
in the code, a day in the runs has four units. Time zones, daylight saving and
fractions of seconds are left out, and so is a `tick` that is held up by
`RemoveStream`.

### StreamRegistry

An *actor* is a request, the scheduler or `main` while it loads; `pc[a]` is the
critical section it is about to enter and `arg[a]` its local variables. An
object is the number of an `AddStream` call; `streams` maps ids to objects as
`Relay.streams` does. The section of `r.mu` that writes the file has two steps,
the truncation (with the marshalled contents in `image`) and the rest, between
which nobody else gets `r.mu` but the process may end. The program handles no
signal, so every end of the process is a `Crash`. Ids, not names: two names may
give one id. `kept` and `dropped` are history for the properties.
`persistLocked` reads schedules without `s.mu`; a torn read of a schedule being
changed is not modelled (the change is followed by a write of its own).

### Dashboard

A stream is the number of its changes, and a message that number or 0 for
"removed". `pc[g]` says where a goroutine is that changes streams: `run` of the
stream itself, or a *worker* (a PATCH handler, `tick`, a pump whose publisher was
routed to it). `sending` is the server's mutex with the broadcast of its holder;
`WriteTo` is one write inside `broadcast`, and waits when the connection is open
and full. `at[c]` is where `handleWS` of a connection is, `todo` and `hand` what is
left of its snapshot, `wire[c]` what is on the way. The page (`current`, `shown`,
`asked`) is that of `web/index.html`: one connection after another, a list that a
message changes entry by entry and an answer of `refresh()` replaces. `stale` is
history: which of four races went against the page.

### TSParser and Telemetry

`TSParser` keeps the positions of the parser (`left`, `pos`, `end`, `start`)
exactly and lets the packet hold anything: PIDs, lengths and stream types are
chosen, `touched` is the highest offset a step read. `Telemetry` keeps the
decisions (an empty payload type or colour is `"none"`): `EFP` is `tryEFP` over the
fields it looks at, `Classify` the classification, `Feed` one message with what `pump`
then writes to the stream, `EvaluateHealth` the thresholds multiplied out to integers.
`sample` is history.

### Accounts

Steps are the critical sections of `authManager`; the one that writes the file has
two, between which the process may be killed or the write may fail. A login and
"add a user who exists" have two sections as in the code, and a request is
authorised before its handler runs. `disk` is the file: whole, torn, or `"alien"`, one
a person wrote that is no JSON; `Load` is `newAuthManager`, and `LoadFails` its error
returns: content that cannot be parsed, a password that cannot be hashed, and, whatever
the file holds, a read or write that fails. Of these `StartsUnlessHurt` leaves open what
comes from outside: `hurt` records that a read or write failed or that a crash cut one
short. What it excludes is that a sequence of requests, saves and restarts alone ends
with a file the program refuses. `acked`, `unsaved`,
`hurt` and `slipped` are history. Users are unique in the table; a file in which a
person listed one twice is left out, as are entries without a password.

## Runs

| Run | Instance | Shows |
|---|---|---|
| `one_stream` | 1 stream, 2 publishers, 2 readers, 2 actors, 2 flips | the egress light, teardown, one place for each reader, fanout identity, the contract |
| `two_streams` | 2 streams, 2 publishers routed freely, 2 actors, 1 flip | lights stand for a pump, also of another stream's port, and stay on until one ends; each stream is told to stop once, or was replaced |
| `two_streams_live` | 2 streams, 1 publisher routed freely, 1 actor, 1 flip, fairness | stop and deactivation take effect, unless the pump stays in `Read` or serves a stream that goes on |
| `stop_completes` | 1 stream, 1 publisher, fairness | **violated**: a silent publisher keeps a removed stream alive |
| `schedule` | 3 instants for start and stop, all recurrences, a week and a day | occurrences and removals are right, and so is the flag but where `CutOff` holds |
| `registry` | 2 ids, 3 pairs of a port file that cross, 1 request at a time, 3 streams, 1 crash | ports, file and removals across a restart, which brings back what was configured; a stream nobody can stop was replaced; what is lost was lost to a crash in a write or in `LoadStreams` |
| `double_booked` | 2 requests | **violated**: both find the port free |
| `ts_parser` | packets of 32 bytes, chunks around one and two packets, lengths around every edge, fairness | reads stay in the packet, every turn advances, `feed` returns |
| `telemetry` | 5 kinds of senders, 2 sessions, classification after 4 messages, 108 samples | what is shown is what was found; senders are told; the colour follows the link |
| `dashboard` | 1 stream with 2 changes, 1 worker, 1 page with 2 connections of 1 message | the page is right unless one of four races went against it; nothing else hides a stream |
| `dashboard_live` | the same with 1 connection, fairness | every update returns if connections have room again and again |
| `accounts` | 2 users, 3 passwords, 2 clients, 2 sessions, 1 crash, 6 files to start from | somebody can log in, sessions have users, memory, file and answers agree |

Each violated run checks one statement of a comment or of the README of the
program; the findings in `PROJECT.json` quote it.

The properties below are stated in the modules and refuted as well; each has a
`.cfg` of its own, kept out of the list of runs, for whoever repairs the code:

| Configuration | Module | Property | What TLC finds |
|---|---|---|---|
| `reader_left` | `MCStreamLifecycle` | `NoReaderLeft` | a reader accepted between `closeAll()` and the end of `acceptReaders` is never closed |
| `publisher_shown` | `MCStreamLifecycle` | `PublisherShown` | with two publishers routed to one stream, the first to leave turns the light off |
| `relaying_shown` | `MCStreamLifecycle` | `RelayingShown` | a late `setState(StateScheduled)` hides a running relay |
| `acceptor_stays` | `MCStreamLifecycle` | `ActiveAcceptsReaders` | off and on again leaves a stream without `acceptReaders` |
| `cross_pump` | `MCStreamLifecycle` | `PumpFeedsReaders` | a routed publisher writes to a fanout its target has closed and replaced |
| `recurring_starts` | `MCSchedule` | `StartsAtItsTime` | a start within the grace period after a stop never happens |
| `idle_removed` | `MCSchedule` | `IdleIsRemoved` | a stream no publisher ever connected to is never idle |
| `grace_kept` | `MCSchedule` | `TailKept` | relay.go:52-55 spares the tail of a broadcast; that of a recurring one is cut off at the stop time |
| `remove_stops_all` | `MCStreamRegistry` | `RemoveStopsAll` | a stream replaced by one of the same id runs for ever |
| `kept_survives` | `MCStreamRegistry` | `KeptSurvives` | a crash in the write of the file loses every stream |
| `load_keeps_file` | `MCStreamRegistry` | `LoadKeepsFile` | start-up cuts the file down to the streams restored so far |
| `tick_removes_decided` | `MCStreamRegistry` | `TickRemovesDecided` | the scheduler removes a newer stream of the id it decided about |
| `page_shows_status` | `MCDashboard` | `PageShowsStatus` | the four races of `PageIsRight` each leave a wrong list |
| `updates_anyway` | `MCDashboard` | `UpdatesReturnAnyway` | a page that does not read holds the server's mutex, and every pump behind it |
| `delay_is_red` | `MCTelemetry` | `DelayIsRed` | README.md:381 calls a buffer delay above 1000 ms red; the code takes the latency off first |
| `tails_are_told` | `MCTelemetry` | `TailsAreTold` | EFP without length prefixes stays unknown if the first messages hold no tail fragment |
| `noise_is_told` | `MCTelemetry` | `NoiseIsTold` | five random bytes may pass for a last fragment |
| `can_sign_out` | `MCAccounts` | `CanSignOut` | README.md:350 says logging out is public; its route asks for a session |

`registry_concurrent.cfg` repeats `registry` with two requests at a time (2 ids, 2
port pairs, 2 streams) for the properties that survive it, `SettledFileIsCurrent`,
`StoppedOnce` and `NothingComesBack`: it passes. So does `one_stream_live.cfg`, the
liveness properties of `two_streams_live` for a single stream with a reader, which is
added, removed and opened again by two flips.

Bounds: two publishers are enough for two sessions in sequence, for two pumps on
one stream and for one waiting while another is served; two readers for one that
leaves while another stays; two actors for a removal during a flip, a late
`setState` or another removal; two flips for off and on again. Two streams are enough
for a publisher on the port of the wrong stream, for two pumps on one target and for an
id that is taken over.
`two_streams` and `two_streams_live` have no readers, so that `acceptReaders` only
polls; both of its looks at the flags are taken at once (`NextPolled`), since one
that comes late is to everybody else an `Accept` that takes longer.
`two_streams_live` begins with both streams added and active, as start-up leaves
them (`AllAdded`), since the order in which they are added is covered by the other
runs and multiplies the state space of a liveness check.
Connections are never reused, so
every run is finite. A horizon of eight days of four units makes every weekly
occurrence fall once before and once after the clock, with both wrap-arounds; the
grace period is one unit, the tick period two, so that ticks miss instants. The
port pairs cross (the egress port of one is the ingress port of the next, and two
share theirs), which is what `PortClaimed` has to see. Three streams allow one to
be replaced and another to be added; one crash is one at every step, start-up
included. In `ts_parser` a packet is 32 bytes, enough for a PMT with two
entries and descriptors, and the lengths end a table or descriptor before, at and
beyond the end of the packet; the proofs say the same of every size. In
`telemetry` every kind of fragment is in a message of its own, and classification
ends after four messages, two more than a sender of one kind needs. In `dashboard`
one stream is enough because messages of different streams do not touch each
other's entries, and every one of the races needs one; two connections are one
that is lost and one made after it; a connection that takes one message is full
after the first. In `accounts` the second client is the one whose login or request
is overtaken. Deadlock is not checked: when all streams are removed, or all
connections made, nothing is left to do. Symmetry is used where only safety is
checked.

Fairness: the Go scheduler runs every goroutine that can run (`WF` on `Run`,
`AcceptReaders` and `Finish`), and the select at the head of `pump`, which Go
resolves at random among its ready branches, takes the stop channel or the stats
ticker in the end if it is reached again and again with that branch ready (`SF`
on `PumpStopped` and `PumpTick`). Nobody has to connect, send, leave, or issue a
request. In `TSParser` the loop of `feed` runs on while it can (`WF` on `Step`),
which needs nothing but a CPU. In `Dashboard` the server's mutex goes in the end to
whoever waits for it (`SF` on `Broadcast` and `BroadcastRemove`): Go's `sync.Mutex`
hands itself to a waiter that has waited for a millisecond. That a page reads is
not assumed there but is the hypothesis `Reading` of `UpdatesReturn`, as nothing in
the code makes it so.

## Proofs

`StreamLifecycleProofs` proves, for any streams, connections, actors and
`MaxFlips \in Nat`, `TypeOK`, `QuietHoldsNothing`, `OwnPumpFeedsReaders`,
`NoPhantomPublisher`, `PublisherKept`, `StopHandshake`, `ReaderHasOneHome` and
`QuietFanoutsAreSealed`. The inductive invariant `IInv`
adds to the types what each point of `run` and `acceptReaders` holds (`Ports`) and
which fanout a pump of its own stream has (`OwnFanout`): `QuietHoldsNothing` is
about a few points only, and says nothing about the points a step comes from.
`NoPhantomPublisher` needs no strengthening: only `startRelay` puts a light on,
and only its end ends a pump. `QuietFanoutsAreSealed` follows from `Ports`: where
`run` is quiet there is neither a pump of the stream nor an acceptor, and a pump
of another stream only takes readers out.

`ReaderShown` and `PublisherShown` are false when publishers are routed to streams of
other ports (`cross_pump`, `publisher_shown`), so their theorems say what it takes:
`ReadersShown` that every pump writes to the fanout its target's readers join,
`PublishersShown` that no stream is pumped by two goroutines, both for any number of
streams and as a condition on the behaviour (`Spec /\ []PumpFeedsReaders => ...`). TLC
checked each on two streams as well. `OwnPortsShown` derives both conditions from one on
the publishers, that each connects to the port of the stream it names (`AtOwnPort`), by the
invariant; `OneStreamShown` is the single stream, where the condition always holds.

`RelaysShown` is the same for the state word, `RelayingShown`, which `relaying_shown` refutes:
with publishers at their own ports it takes a schedule change announced while the stream is
pumped (`OnTime` rules it out), and nothing else, to show a pumped stream otherwise.

`PublishersKept` proves `PublisherKept` for any number of streams and any routing, without a
condition: only `EndRelay` puts the light out, that of its target, and it ends a pump of it.

`ToldOnce` proves `StopHandshake`, by which a stream is in the map, or one `RemoveStream` is
about to close its `stopCh`, or it is closed, or another stream took its id and it never will
be. What makes it inductive (`Handshake`) is about the
way out of `run`: the `closeEgress()` that ends in a return was entered because `stopCh` is
closed, and a stream that was never added is in nobody's hands. `RunsAsTold` is the one fact
about `run` the proof needs, and all its steps share the lemma that gives it (`GoesAsTold`).
`ExitedForGood` adds that the return is final: no step, of any goroutine or connection, leads
out of `exited`, so that what `QuietHoldsNothing` says there stays so, and no reader joins a
fanout of the stream any more. It does not say that the fanouts are empty, which is false
(`reader_left`): a reader that `acceptReaders` adds while `closeEgress` is under way stays.
`ReadersHaveOneHome` proves `ReaderHasOneHome` from one more fact, that whoever has a socket
somewhere has dialled: only `ReaderConnects`, `AcceptReader` and `AddReader` put a reader where
it was not, the first a new one, the others one whose only place they know (`Moved`); everything
else takes readers away or leaves them (`Kept`).

`StreamContractProofs` proves `Spec => ImplementsContract`, in the shape of a
refinement proof: initial states map to initial states, and every action maps to
one action of the contract or to a stutter. Its invariant adds that a connection
waits at one port at most and only after it was made (`Backlogs`), without which a
session could be started for a connection already spent. Binding the ingress
port opens the contract's stream, the last of the steps that give up its ports
closes it, and what the egress, the readers and the actors do is invisible.

`ScheduleProofs` proves `LatestIsLatest` for every length of the day, every base
and every instant: `latestOccurrence` differs from its base by whole periods
(`DailyCandidate`, `WeeklyCandidate`, `SameWeekDay`) and is less than a period
before `now`, and only one instant does both (`OneRepeat`). It also proves `TypeOK` (which no run
repeats), `FlagFollowsSchedule`, `OverIsRemoved` and the action property `RemovedIsOver`, for every
grace period and tick period. `FlagInTime` is two lemmas about a single instant, that a stream
that is active is due (`ActiveIsDue`) and that one that is due is active unless cut off
(`DueIsActive`), and the instant at which the flag was computed last. What is inductive says what the last evaluation of the
schedule did, not what holds now: no tick is overdue (`Ticking`), the flag is that of the
last tick or of the last change of the schedule (`FlagIsOf`), and a tick that found the
stream over has removed it (`NotMissed`).

`StreamRegistryProofs` proves every invariant of the run `registry` for any ids, requests,
streams and crashes, any port range and any port file `loadPortPairs` accepts, and `TypeOK`,
which no run repeats. They are
not inductive as they stand. `SettledFileIsCurrent` speaks of the moments when nobody is
at the file, so `FileIsRight` says what is true at the others: what a write in progress
has marshalled, that a removal that has left the map is still to be written, and what of
the file `LoadStreams` has not come to. `NothingComesBack` needs that no removed stream
waits to be loaded (`NothingLoaded`), `StoppedOnce` that an object being stopped has left
the map (`MapIsSound`), and `LostOnlyInWrite` where a kept stream is in each phase of the
process (`KeptSomewhere`). `PortsExclusive` has the hypothesis `OneRequest`, that there is
one request handler: two of them do book a port twice, which is the run `double_booked`.
Its invariant (`PortsInv`) carries what a request has checked (`ChecksHold`) and that no
file, written or being loaded, holds a clash. `Restored` proves the action property
`RestartRestores`: `Configured` is the map, the file or, during start-up, the part of the map
that is back and the part of the file that is not, and no step of start-up changes it, nor does
a crash that finds every change written. It needs that no stream is both loaded and still to be
loaded (`LoadedOnce`), else `LoadNext` would replace a stream by what the file says of it.

`TSParserProofs` proves `TypeOK`, `ReadsInPacket` and `Advances` for every packet
size, every set of chunks and every value of the length fields. `ReadsInPacket` is
not inductive: its strengthening `IInv` says where each loop stands, that the
table or entry it walks over ends within the packet. `Advances` then is one step
per loop. Together they say that the parser neither panics nor stands still; that
`feed` therefore returns (`Returns`) needs fairness and stays with TLC.

`TelemetryProofs` proves `TypeOK` (which no run repeats), `ShownIsDetected` and
`HealthFollowsLink` for any senders, messages, statistics and latency. `ShownIsDetected`
is not inductive: a message that is no news leaves the stream as it is, which is right
only because `lastCodecs` is what the parser has found and codecs are found in MPEG-TS
only (`Reported`); that the counts stay within `MaxMsgs` needs that none is reached
before the payload is classified (`Counts`). `HealthFollowsLink` is `ExceedsMore`, each
threshold being passed by the worse sample when it is by the better, for the colour
of the last sample (`Coloured`). `KindsAreTold` proves `SendersAreTold` under the
hypothesis `Kinds`, which says what the senders the property names send: packets that
begin with a sync byte, fragments after a length, and messages that are neither. It has to
be one, as the module lets a sender send anything. The invariant is the tally of a
session: every message of such a sender counted, and all alike.

`AccountsProofs` proves every invariant of the run `accounts` for any users, passwords,
clients, files to start from and bounds, and `StoredHashed` (the file holds no plaintext
while the server is up), which no run repeats. What the properties say of memory, file
and answers holds step by step only together, and not without what each point of a
request has found out. `IInv` therefore adds: what runs at all while the process is down
or loading (`Phases`), that there is somebody and everybody is hashed once users are
loaded (`Somebody`), that a login under way is one of a user or of one removed meanwhile
(`Logins`), and what memory and file owe to the answers, what a request at the file has
put in force, and how the file can be torn (`File`). `RefusesOnlyHurt` is as strong as
`StartsUnlessHurt`: errors of the file system and files written by hand are its exceptions. Adding, setting and removing share
one lemma (`ReplaceKeeps`), as the code shares `saveLocked`.

`DashboardProofs` proves `PageIsRight` and `NothingHidden` for any streams, workers,
connections and room of a connection. Both speak of a page at rest, so the invariant
follows each stream along its way there: what the page has or has been answered (`Base`),
then the messages of its connection, then the one `handleWS` holds, then the one being
broadcast. `WillShow` is what the page will have when all of these have arrived;
`HereIsRight` says that this is the stream as it is, unless somebody will report it again
or the snapshot has not come to it (`Pending`), and `GoneIsRight` that it is nothing, unless
the removal is being written to a connection that is closed (`WillBeMissed`). At rest
nothing is pending, and these become the properties. `HereIsShown` is the same for
`NothingHidden`, which excuses one race instead of four. The rest of the invariant says
what each goroutine has in hand (`Runs`, `Works`), that a message is the last word on its
stream (`Messaging`), and which connections are registered (`Connected`).

Assumed are only the named `ASSUME`s on constants, and where a theorem says so
`OneRequest`, `Kinds`, or the conditions on routed publishers and late announcements. What stays with TLC: liveness (`StopTakesEffect`, `DeactivationTakesEffect`,
`UpdatesReturn`, `Returns`, and every refutation).

## Plan

All components of the program's own code that keep state are modelled. What would
come next, in this order:

1. What a PATCH request is answered against what is in force afterwards.
2. The SRT library as the program sees it, with writes that wait.

## Not modelled

The vendored SRT library (`third_party/srtgo`, and libsrt, which is not part of the
repository): `SenderConnects`, `ReaderConnects`, `PeerLeaves` and `Dial` are how the
program sees it, and `fanout.write` returns. A receiver that cannot take data while
`pump` holds the fanout is listed under the hazards.

Reads without a lock: `json.Marshal` in `broadcast` and `persistLocked` read fields
other goroutines write. Every such change is followed by an update or write of its
own; a single field read half-way is left out.

`Telemetry` has one session at a time on a stream; that two pumps may show
themselves on one stream is in `StreamLifecycle` (`publisher_shown`). Byte counts and
rates are left out, and so are time zones and daylight saving in `Schedule`.

The rest of the HTTP and HTML layer (dispatch and rendering, free ports,
configuration, metrics), command-line flags, stream id parsing (one prefix; its
result is the choice of `Names` in `StreamLifecycle`), the build, and `Relay.Stop`,
which nothing calls.
