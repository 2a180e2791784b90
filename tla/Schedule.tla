------------------------------ MODULE Schedule ------------------------------
(***************************************************************************)
(* The schedule of one stream: isActiveNowLocked and latestOccurrence in   *)
(* internal/relay/relay.go, and what the scheduler's tick decides from     *)
(* them.  StreamLifecycle takes the resulting active flag as one that may  *)
(* flip at any time; this module says when it does.                        *)
(*                                                                         *)
(* Time is counted in units of the server's local wall clock, Day of them  *)
(* a day; time zones and the two irregular days of daylight saving are     *)
(* left out, and so is the time a blocked RemoveStream may hold a tick.    *)
(***************************************************************************)
EXTENDS Integers

CONSTANTS
    Day,            \* units of time in a day
    Grace,          \* scheduleStopGrace
    TickPeriod,     \* the scheduler's ticker
    IdleMin,        \* --idle-remove-min, 0 if disabled
    Horizon,        \* bound: the last instant
    Instants,       \* start and stop times a user may choose
    Recurrences,    \* subset of {"none", "daily", "weekly"}; "none" is the empty string
    Unset           \* the nil time pointer, and the zero lastActivity

ASSUME ClockAssumption ==
    /\ Day \in Nat \ {0} /\ Grace \in Nat /\ TickPeriod \in Nat \ {0}
    /\ IdleMin \in Nat /\ Horizon \in Nat
    /\ Instants \subseteq Int
    /\ Recurrences \subseteq {"none", "daily", "weekly"}
    /\ Unset \notin Int

VARIABLES
    now,            \* the clock
    lastTick,       \* when the scheduler last ran
    schedule,       \* StartAt, StopAt, Recurrence and AutoRemove of the stream
    active,         \* Stream.active
    quiet,          \* now - Stream.lastActivity, or IdleMin + 1 if it is more
    registered,     \* the stream has not been removed
    age             \* history: how long the schedule is set, up to TickPeriod + 1

vars == <<now, lastTick, schedule, active, quiet, registered, age>>

Schedules == [startAt : Instants \cup {Unset}, stopAt : Instants \cup {Unset},
              recurrence : Recurrences, autoRemove : BOOLEAN]

TypeOK ==
    /\ now \in 0..Horizon
    /\ lastTick \in 0..Horizon
    /\ schedule \in Schedules
    /\ active \in BOOLEAN
    /\ quiet \in 0..(IdleMin + 1) \cup {Unset}
    /\ registered \in BOOLEAN
    /\ age \in 0..(TickPeriod + 1)

-----------------------------------------------------------------------------
(* isActiveNowLocked *)

Week == 7 * Day
WeekDay(t) == (t \div Day) % 7

\* MUTANT: a candidate later than t is not moved back.
latestOccurrenceWithoutWrap(base, weekly, t) ==
    LET today == (t - (t % Day)) + (base % Day)
        delta == (WeekDay(t) - WeekDay(base) + 7) % 7
    IN IF weekly THEN today - delta * Day ELSE today

\* The clock time of base on the day of t, moved back to its weekday, and once
\* more if that is still to come.
latestOccurrence(base, weekly, t) ==
    LET today == (t - (t % Day)) + (base % Day)
        delta == (WeekDay(t) - WeekDay(base) + 7) % 7
        cand  == IF weekly THEN today - delta * Day ELSE today
    IN IF cand > t THEN cand - (IF weekly THEN Week ELSE Day) ELSE cand

isActiveOnce(c, t) ==
    /\ c.startAt # Unset => c.startAt <= t
    /\ c.stopAt # Unset => t < c.stopAt + Grace

\* Without a stop time stopB is the zero time, before everything.
isActiveRecurring(c, t) ==
    LET latest(base) == latestOccurrence(base, c.recurrence = "weekly", t)
        startB == IF c.startAt # Unset THEN latest(c.startAt) ELSE t
    IN c.stopAt # Unset => startB > latest(c.stopAt) + Grace

isActiveNow(c, t) ==
    IF c.recurrence = "none" THEN isActiveOnce(c, t) ELSE isActiveRecurring(c, t)

-----------------------------------------------------------------------------

Init ==
    /\ now = 0
    /\ lastTick = 0
    /\ schedule \in Schedules
    /\ active = isActiveNow(schedule, now)
    /\ quiet = Unset
    /\ registered = TRUE
    /\ age = 0

\* A stream that is recurring never ends.
AutoRemoveDue ==
    /\ schedule.autoRemove
    /\ schedule.recurrence = "none"
    /\ schedule.stopAt # Unset
    /\ now >= schedule.stopAt + Grace

Manual(c) == c.startAt = Unset /\ c.stopAt = Unset /\ c.recurrence = "none"

IdleDue ==
    /\ IdleMin > 0
    /\ Manual(schedule)
    /\ quiet # Unset
    /\ quiet > IdleMin

\* MUTANT: recurring streams are removed, too.
TickRemovesRecurring ==
    /\ registered
    /\ now > lastTick
    /\ lastTick' = now
    /\ active' = isActiveNow(schedule, now)
    /\ registered' = ~(\/ /\ schedule.autoRemove /\ schedule.stopAt # Unset
                          /\ now >= schedule.stopAt + Grace
                       \/ IdleDue)
    /\ UNCHANGED <<now, schedule, quiet, age>>

\* MUTANT: a stream is removed only by the tick that deactivates it.
TickRemovesOnChange ==
    /\ registered
    /\ now > lastTick
    /\ lastTick' = now
    /\ active' = isActiveNow(schedule, now)
    /\ registered' = ~(active # active' /\ (AutoRemoveDue \/ IdleDue))
    /\ UNCHANGED <<now, schedule, quiet, age>>

\* tick(), for this stream.
Tick ==
    /\ registered
    /\ now > lastTick
    /\ lastTick' = now
    /\ active' = isActiveNow(schedule, now)
    /\ registered' = ~(AutoRemoveDue \/ IdleDue)
    /\ UNCHANGED <<now, schedule, quiet, age>>

\* MUTANT: the active flag is left to the next tick.
UpdateScheduleOnly(c) ==
    /\ registered
    /\ schedule' = c
    /\ age' = 0
    /\ UNCHANGED <<now, lastTick, active, quiet, registered>>

UpdateSchedule(c) ==
    /\ registered
    /\ schedule' = c
    /\ active' = isActiveNow(c, now)
    /\ age' = 0
    /\ UNCHANGED <<now, lastTick, quiet, registered>>

\* A publisher is accepted or sends.
touch ==
    /\ registered
    /\ active
    /\ quiet' = 0
    /\ UNCHANGED <<now, lastTick, schedule, active, registered, age>>

Older(n, limit) == IF n < limit THEN n + 1 ELSE n

\* Time does not pass the next tick before the scheduler has run.
Pass ==
    /\ registered
    /\ now < Horizon
    /\ now - lastTick < TickPeriod
    /\ now' = now + 1
    /\ quiet' = IF quiet = Unset THEN Unset ELSE Older(quiet, IdleMin + 1)
    /\ age' = Older(age, TickPeriod + 1)
    /\ UNCHANGED <<lastTick, schedule, active, registered>>

Next == Tick \/ touch \/ Pass \/ \E c \in Schedules : UpdateSchedule(c)

Spec == Init /\ [][Next]_vars

-----------------------------------------------------------------------------
(* What a schedule means *)

Period(c) == IF c.recurrence = "weekly" THEN Week ELSE Day

\* Every repetition of base that is at or before t and less than a period ago.
Repeats(base, period, t) == {o \in (t - period + 1)..t : (o - base) % period = 0}

\* The latest start and stop of a recurring schedule.  Without a start it starts
\* at any time (README.md:271: "the stream starts immediately"), and without a
\* stop it never stops.
Starts(c, t) == IF c.startAt = Unset THEN {t} ELSE Repeats(c.startAt, Period(c), t)
Stops(c, t) == IF c.stopAt = Unset THEN {} ELSE Repeats(c.stopAt, Period(c), t)

\* On the air: since a start there has been no stop, or the grace period after
\* it is not over.  relay.go:52-55 gives that period to every stop, that of a
\* recurring schedule too; isActiveNowLocked does not (see CutOff).
Due(c, t) ==
    IF c.recurrence = "none" THEN isActiveOnce(c, t)
    ELSE \E o \in Starts(c, t) : \A p \in Stops(c, t) : o < p => t < p + Grace

\* Where isActiveNowLocked leaves a recurring schedule: it subtracts the grace
\* period where the comment adds it.  The tail after a stop is cut off, and a
\* start that comes within the period after a stop does not count.
CutOff(c, t) ==
    /\ c.recurrence # "none"
    /\ \E p \in Stops(c, t) :
         t < p + Grace \/ \E o \in Starts(c, t) : o \in p..(p + Grace)

LaterOf(a, b) == IF a > b THEN a ELSE b

\* When the schedule was set, if that is no more than a tick ago.
Since == now - age

\* How long no publisher has been there, since the stream was added at 0.
Silent == IF quiet = Unset THEN now ELSE quiet

-----------------------------------------------------------------------------
(* Properties *)

\* latestOccurrence is the latest repetition of its base, whatever the days
\* and weekdays of the two instants.
LatestIsLatest ==
    \A base \in Instants, weekly \in BOOLEAN :
        LET period == IF weekly THEN Week ELSE Day
        IN Repeats(base, period, now) = {latestOccurrence(base, weekly, now)}

\* The instants since the last tick period began or, if it was set later, since
\* the schedule is as it is.
Recent == LaterOf(Since, now - TickPeriod)..now

\* The active flag follows the schedule with at most a tick of delay: if the
\* schedule has said the same at all recent instants, so does the flag.  It is
\* never on when the stream is not due; it is off when the stream is due only
\* where isActiveNowLocked cuts a recurring schedule off.
FlagFollowsSchedule ==
    registered =>
        /\ (\A t \in Recent : ~Due(schedule, t)) => ~active
        /\ (\A t \in Recent : Due(schedule, t)) => active \/ \E t \in Recent : CutOff(schedule, t)

\* A scheduled stream is removed by a tick only when it is over: it would never
\* be on the air again.
RemovedIsOver ==
    [][registered /\ ~registered' =>
        Manual(schedule) \/ \A t \in now..(now + 2 * Week) : ~Due(schedule, t)]_vars

\* ... and then within a tick of its end, or of the change that ended it.
OverIsRemoved ==
    registered /\ schedule.autoRemove /\ schedule.recurrence = "none"
               /\ schedule.stopAt # Unset =>
        now <= LaterOf(Since, schedule.stopAt + Grace) + TickPeriod

\* The tail of a broadcast is not cut off (relay.go:52-55): a tick takes a
\* stream off the air only when it is no longer due.
TailKept == [][Tick /\ active /\ ~active' => ~Due(schedule, now)]_vars

\* A recurring stream starts at its start time, whenever that of its stop is.
StartsAtItsTime ==
    [][Tick /\ schedule.recurrence # "none" /\ schedule.startAt # Unset
            /\ now \in Repeats(schedule.startAt, Period(schedule), now)
            /\ (schedule.stopAt # Unset =>
                    now \notin Repeats(schedule.stopAt, Period(schedule), now))
        => active']_vars

\* With idle clean-up on, a tick removes a manual stream that has had no
\* publisher for longer than IdleMin.
IdleIsRemoved ==
    [][Tick /\ IdleMin > 0 /\ Manual(schedule) /\ Silent > IdleMin => ~registered']_vars

=============================================================================
