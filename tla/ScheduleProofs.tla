--------------------------- MODULE ScheduleProofs ---------------------------
(***************************************************************************)
(* For every length of the day, grace period and tick period: latestOccur- *)
(* rence returns the latest repetition of its base at or before t, daily or *)
(* weekly, the active flag follows the schedule within a tick, and a stream *)
(* is removed when, and only when, it is over.                             *)
(***************************************************************************)
EXTENDS Schedule, TLAPS

\* Division with remainder.
LEMMA DivMod ==
    ASSUME NEW t \in Int, NEW d \in Nat \ {0}
    PROVE  /\ t = d * (t \div d) + (t % d)
           /\ t \div d \in Int /\ t % d \in 0..(d - 1)
  OBVIOUS

LEMMA ModUnique ==
    ASSUME NEW d \in Nat \ {0}, NEW q \in Int, NEW r \in 0..(d - 1)
    PROVE  (d * q + r) % d = r
  OBVIOUS

\* A multiple of d that is less than d away from 0 is 0.
LEMMA SmallMultiple ==
    ASSUME NEW d \in Nat \ {0}, NEW q \in Int, -d < d * q, d * q < d
    PROVE  q = 0
  <1>1. q >= 1 => d * q >= d
    OBVIOUS
  <1>2. q <= -1 => d * q <= -d
    OBVIOUS
  <1> QED
    BY <1>1, <1>2

\* A repetition of base less than a period before t is the only one.
LEMMA OneRepeat ==
    ASSUME NEW d \in Nat \ {0}, NEW base \in Int, NEW t \in Int, NEW k \in Int,
           base + d * k <= t, t < base + d * k + d
    PROVE  Repeats(base, d, t) = {base + d * k}
  <1> DEFINE c == base + d * k
  <1>1. c \in (t - d + 1)..t
    OBVIOUS
  <1>2. (c - base) % d = 0
    <2>1. c - base = d * k + 0
      OBVIOUS
    <2> QED
      BY <2>1, ModUnique
  <1>3. ASSUME NEW o \in (t - d + 1)..t, (o - base) % d = 0
        PROVE  o = c
    <2> DEFINE q == (o - base) \div d
    <2>1. q \in Int /\ o - base = d * q
      BY <1>3, DivMod
    <2>2. o - c = d * (q - k)
      BY <2>1
    <2>3. -d < o - c /\ o - c < d
      OBVIOUS
    <2>4. q - k = 0
      BY <2>1, <2>2, <2>3, SmallMultiple
    <2> QED
      BY <2>2, <2>4
  <1> QED
    BY <1>1, <1>2, <1>3 DEF Repeats

\* latestOccurrence with today as a name, daily and weekly.
LEMMA DailyCandidate ==
    ASSUME NEW base, NEW t, NEW today, today = (t - (t % Day)) + (base % Day)
    PROVE  latestOccurrence(base, FALSE, t) = IF today > t THEN today - Day ELSE today
  BY Zenon DEF latestOccurrence

LEMMA WeeklyCandidate ==
    ASSUME NEW base, NEW t, NEW cand,
           cand = ((t - (t % Day)) + (base % Day))
                    - (((WeekDay(t) - WeekDay(base) + 7) % 7) * Day)
    PROVE  latestOccurrence(base, TRUE, t) = IF cand > t THEN cand - Week ELSE cand
  BY Zenon DEF latestOccurrence

LEMMA LatestDaily ==
    ASSUME Day \in Nat \ {0}, NEW base \in Int, NEW t \in Int
    PROVE  Repeats(base, Day, t) = {latestOccurrence(base, FALSE, t)}
  <1> DEFINE today == (t - (t % Day)) + (base % Day)
             m == t \div Day
             n == base \div Day
             k == IF today > t THEN (m - n) - 1 ELSE m - n
  <1>1. today = (t - (t % Day)) + (base % Day) /\ m = t \div Day /\ n = base \div Day
    OBVIOUS
  <1> HIDE DEF today, m, n
  <1>2. /\ m \in Int /\ n \in Int /\ today \in Int
        /\ today = base + Day * (m - n)
        /\ t - Day < today /\ today < t + Day
    BY <1>1, DivMod
  <1>3. latestOccurrence(base, FALSE, t) = IF today > t THEN today - Day ELSE today
    BY <1>1, DailyCandidate, Zenon
  <1>4. k \in Int /\ latestOccurrence(base, FALSE, t) = base + Day * k
    <2>1. base + Day * ((m - n) - 1) = (base + Day * (m - n)) - Day
      BY <1>2
    <2>2. k \in Int
      BY <1>2
    <2> QED
      BY <1>2, <1>3, <2>1, <2>2, Zenon
  <1>5. base + Day * k <= t /\ t < (base + Day * k) + Day
    BY <1>2
  <1> HIDE DEF k
  <1>6. Repeats(base, Day, t) = {base + Day * k}
    BY <1>4, <1>5, OneRepeat, Zenon
  <1> QED
    BY <1>4, <1>6, Zenon

\* Going delta days back reaches the weekday of base.
LEMMA SameWeekDay ==
    ASSUME NEW m \in Int, NEW n \in Int
    PROVE  LET delta == ((m % 7) - (n % 7) + 7) % 7
           IN delta \in 0..6 /\ \E w \in Int : m - delta = n + 7 * w
  <1> DEFINE delta == ((m % 7) - (n % 7) + 7) % 7
             w == (m - delta - n) \div 7
  <1>1. delta \in 0..6 /\ w \in Int /\ m - delta = n + 7 * w
    OBVIOUS
  <1> QED
    BY <1>1

LEMMA LatestWeekly ==
    ASSUME Day \in Nat \ {0}, NEW base \in Int, NEW t \in Int
    PROVE  Repeats(base, Week, t) = {latestOccurrence(base, TRUE, t)}
  <1> DEFINE today == (t - (t % Day)) + (base % Day)
             m == t \div Day
             n == base \div Day
             delta == ((m % 7) - (n % 7) + 7) % 7
             cand == today - delta * Day
  <1>1. today = (t - (t % Day)) + (base % Day) /\ m = t \div Day /\ n = base \div Day
    OBVIOUS
  <1>2. cand = ((t - (t % Day)) + (base % Day))
                  - (((WeekDay(t) - WeekDay(base) + 7) % 7) * Day)
    BY Zenon DEF WeekDay
  <1> HIDE DEF today, m, n
  <1>3. /\ m \in Int /\ n \in Int /\ today \in Int
        /\ today = base + Day * (m - n)
        /\ t - Day < today /\ today < t + Day
    BY <1>1, DivMod
  <1>4. delta \in 0..6 /\ \E w \in Int : m - delta = n + 7 * w
    BY <1>3, SameWeekDay, Zenon
  <1> HIDE DEF delta
  <1>5. PICK w \in Int : m - delta = n + 7 * w
    BY <1>4
  <1>6. Week = 7 * Day
    BY DEF Week
  <1>0. Week \in Nat \ {0}
    BY <1>6
  <1>7. cand = base + Week * w
    <2>1. cand = base + Day * ((m - delta) - n)
      BY <1>3, <1>4
    <2>2. (m - delta) - n = 7 * w
      BY <1>3, <1>4, <1>5
    <2>3. Day * (7 * w) = Week * w
      BY <1>6
    <2> QED
      BY <2>1, <2>2, <2>3
  <1>8. t - Week < cand /\ cand < t + Week
    BY <1>3, <1>4, <1>6
  <1> HIDE DEF cand
  <1>9. latestOccurrence(base, TRUE, t) = IF cand > t THEN cand - Week ELSE cand
    BY <1>2, WeeklyCandidate, Zenon
  <1> DEFINE k == IF cand > t THEN w - 1 ELSE w
  <1>10. k \in Int /\ latestOccurrence(base, TRUE, t) = base + Week * k
    <2>1. base + Week * (w - 1) = (base + Week * w) - Week
      BY <1>0
    <2>2. k \in Int
      OBVIOUS
    <2> QED
      BY <1>7, <1>9, <2>1, <2>2, Zenon
  <1>11. base + Week * k <= t /\ t < (base + Week * k) + Week
    BY <1>0, <1>7, <1>8
  <1> HIDE DEF k
  <1>12. Repeats(base, Week, t) = {base + Week * k}
    BY <1>0, <1>10, <1>11, OneRepeat, Zenon
  <1> QED
    BY <1>10, <1>12, Zenon

-----------------------------------------------------------------------------

(* The flag and the removals *)

LEMMA Parameters ==
    /\ Day \in Nat /\ Day >= 1 /\ Grace \in Nat /\ TickPeriod \in Nat /\ TickPeriod >= 1
    /\ IdleMin \in Nat /\ Horizon \in Nat
    /\ \A i \in Instants : i \in Int /\ i # Unset
  BY ClockAssumption DEF ClockAssumption

LEMMA ScheduleFacts ==
    ASSUME NEW c \in Schedules
    PROVE  /\ c.startAt # Unset => c.startAt \in Int
           /\ c.stopAt # Unset => c.stopAt \in Int
           /\ c.recurrence \in {"none", "daily", "weekly"}
           /\ c.autoRemove \in BOOLEAN
  BY Parameters, ClockAssumption DEF Schedules, ClockAssumption

\* The instants at which the flag may have been computed last, by the tick or
\* when the schedule was set.
Evaluated == LaterOf(lastTick, Since)

\* The scheduler has run within its period.
Ticking == lastTick <= now /\ now - lastTick <= TickPeriod

\* The flag is what the schedule said at that instant.
FlagIsOf == registered => active = isActiveNow(schedule, Evaluated)

\* A tick that found the stream over has removed it.
NotMissed ==
    registered /\ schedule.autoRemove /\ schedule.recurrence = "none" /\ schedule.stopAt # Unset =>
        lastTick <= LaterOf(Since, schedule.stopAt + Grace)

IInv == TypeOK /\ Ticking /\ FlagIsOf /\ NotMissed

LEMMA FlagIsBoolean ==
    ASSUME NEW c, NEW t
    PROVE  isActiveNow(c, t) \in BOOLEAN
  BY DEF isActiveNow, isActiveOnce, isActiveRecurring

LEMMA InitIInv == Init => IInv
  <1> SUFFICES ASSUME Init PROVE IInv
    OBVIOUS
  <1>1. TypeOK
    BY Parameters, FlagIsBoolean DEF Init, TypeOK
  <1>2. Ticking /\ Since = 0 /\ lastTick = 0 /\ now = 0
    BY Parameters DEF Init, Ticking, Since
  <1>3. FlagIsOf
    BY <1>2 DEF Init, FlagIsOf, Evaluated, LaterOf
  <1>4. NotMissed
    BY <1>1, <1>2, Parameters, ScheduleFacts DEF TypeOK, NotMissed, LaterOf
  <1> QED
    BY <1>1, <1>2, <1>3, <1>4 DEF IInv

\* What a step at an instant where the flag is computed leaves behind.
LEMMA TickKeeps == IInv /\ Tick => IInv'
  <1> SUFFICES ASSUME IInv, Tick PROVE IInv'
    OBVIOUS
  <1>1. /\ lastTick' = now /\ active' = isActiveNow(schedule, now)
        /\ registered' = ~(AutoRemoveDue \/ IdleDue)
        /\ UNCHANGED <<now, schedule, quiet, age>>
    BY DEF Tick
  <1>2. TypeOK'
    <2>1. active' \in BOOLEAN
      BY <1>1, FlagIsBoolean
    <2>2. registered' \in BOOLEAN
      BY <1>1
    <2> QED
      BY <1>1, <2>1, <2>2 DEF IInv, TypeOK
  <1>3. /\ now \in Int /\ now >= 0 /\ Since' \in Int /\ Since' <= now
    BY <1>1, Parameters DEF IInv, TypeOK, Since
  <1>4. Ticking'
    BY <1>1, <1>3, Parameters DEF Ticking
  <1>5. Evaluated' = now
    BY <1>1, <1>3 DEF Evaluated, LaterOf
  <1>6. FlagIsOf'
    BY <1>1, <1>5 DEF FlagIsOf
  <1>7. NotMissed'
    <2> SUFFICES ASSUME registered', schedule.autoRemove, schedule.recurrence = "none", schedule.stopAt # Unset
                 PROVE  now <= LaterOf(Since, schedule.stopAt + Grace)'
      BY <1>1 DEF NotMissed, LaterOf
    <2>1. schedule.stopAt \in Int /\ Grace \in Nat
      BY ScheduleFacts, Parameters DEF IInv, TypeOK
    <2>2. ~AutoRemoveDue
      BY <1>1, Zenon
    <2>3. ~(now >= schedule.stopAt + Grace)
      BY <2>2, Zenon DEF AutoRemoveDue
    <2> QED
      BY <1>1, <1>3, <2>1, <2>3 DEF LaterOf
  <1> QED
    BY <1>2, <1>4, <1>6, <1>7 DEF IInv

LEMMA UpdateScheduleKeeps ==
    ASSUME IInv, NEW c \in Schedules, UpdateSchedule(c)
    PROVE  IInv'
  <1>1. /\ schedule' = c /\ active' = isActiveNow(c, now) /\ age' = 0
        /\ UNCHANGED <<now, lastTick, quiet, registered>>
    BY DEF UpdateSchedule
  <1>2. TypeOK'
    <2>1. active' \in BOOLEAN
      BY <1>1, FlagIsBoolean
    <2> QED
      BY <1>1, <2>1, Parameters DEF IInv, TypeOK
  <1>3. Since' = now /\ now \in Int /\ lastTick \in Int /\ lastTick <= now
    BY <1>1 DEF IInv, TypeOK, Since, Ticking
  <1>4. Ticking'
    BY <1>1 DEF IInv, Ticking
  <1>5. Evaluated' = now
    BY <1>1, <1>3 DEF Evaluated, LaterOf
  <1>6. FlagIsOf'
    BY <1>1, <1>5 DEF FlagIsOf
  <1>7. NotMissed'
    <2>1. schedule'.stopAt # Unset => schedule'.stopAt \in Int
      BY <1>1, ScheduleFacts
    <2> QED
      BY <1>1, <1>3, <2>1, Parameters DEF NotMissed, LaterOf
  <1> QED
    BY <1>2, <1>4, <1>6, <1>7 DEF IInv

LEMMA PassKeeps == IInv /\ Pass => IInv'
  <1> SUFFICES ASSUME IInv, Pass PROVE IInv'
    OBVIOUS
  <1>1. /\ now < Horizon /\ now - lastTick < TickPeriod /\ now' = now + 1
        /\ age' = Older(age, TickPeriod + 1)
        /\ quiet' = IF quiet = Unset THEN Unset ELSE Older(quiet, IdleMin + 1)
        /\ UNCHANGED <<lastTick, schedule, active, registered>>
    BY DEF Pass
  <1>2. now \in Nat /\ lastTick \in Nat /\ lastTick <= now /\ age \in 0..(TickPeriod + 1)
    BY Parameters DEF IInv, TypeOK, Ticking
  <1>3. TypeOK'
    <2>1. now' \in 0..Horizon /\ age' \in 0..(TickPeriod + 1)
      BY <1>1, <1>2, Parameters DEF Older
    <2>2. quiet' \in 0..(IdleMin + 1) \cup {Unset}
      BY <1>1, Parameters DEF IInv, TypeOK, Older
    <2> QED
      BY <1>1, <2>1, <2>2 DEF IInv, TypeOK
  <1>4. Ticking'
    BY <1>1, <1>2, Parameters DEF Ticking
  <1>5. Since \in Int /\ Since' \in Int /\ Since' >= Since /\ (Since' # Since => Since' < lastTick /\ Since < lastTick)
    BY <1>1, <1>2, Parameters DEF Since, Older
  <1>6. Evaluated' = Evaluated
    BY <1>1, <1>2, <1>5 DEF Evaluated, LaterOf
  <1>7. FlagIsOf'
    BY <1>1, <1>6 DEF IInv, FlagIsOf
  <1>8. NotMissed'
    <2>1. schedule.stopAt # Unset => schedule.stopAt \in Int
      BY ScheduleFacts DEF IInv, TypeOK
    <2> QED
      BY <1>1, <1>2, <1>5, <2>1, Parameters DEF IInv, NotMissed, LaterOf
  <1> QED
    BY <1>3, <1>4, <1>7, <1>8 DEF IInv

LEMMA NextIInv == IInv /\ [Next]_vars => IInv'
  <1> SUFFICES ASSUME IInv, [Next]_vars PROVE IInv'
    OBVIOUS
  <1>1. CASE touch
    <2>1. quiet' = 0 /\ UNCHANGED <<now, lastTick, schedule, active, registered, age>>
      BY <1>1 DEF touch
    <2>2. TypeOK'
      BY <2>1, Parameters DEF IInv, TypeOK
    <2>3. Ticking' /\ NotMissed' /\ FlagIsOf'
      BY <2>1 DEF IInv, Ticking, FlagIsOf, NotMissed, Evaluated, LaterOf, Since
    <2> QED
      BY <2>2, <2>3 DEF IInv
  <1>2. CASE UNCHANGED vars
    BY <1>2 DEF vars, IInv, TypeOK, Ticking, FlagIsOf, NotMissed, Evaluated, LaterOf, Since
  <1> QED
    BY <1>1, <1>2, TickKeeps, PassKeeps, UpdateScheduleKeeps DEF Next

LEMMA Invariance == Spec => []IInv
  BY InitIInv, NextIInv, PTL DEF Spec

-----------------------------------------------------------------------------
(* What the flag means *)

LEMMA PeriodFacts ==
    ASSUME NEW c
    PROVE  /\ Period(c) \in Nat \ {0}
           /\ Period(c) = IF c.recurrence = "weekly" THEN Week ELSE Day
  BY Parameters DEF Period, Week

\* latestOccurrence as a recurring schedule takes it.
LatestOf(c, base, t) ==
    IF c.recurrence = "weekly" THEN latestOccurrence(base, TRUE, t) ELSE latestOccurrence(base, FALSE, t)

\* The one repetition within a period.
LEMMA LatestRepeat ==
    ASSUME NEW c, NEW base \in Int, NEW t \in Int
    PROVE  Repeats(base, Period(c), t) = {LatestOf(c, base, t)}
  <1>1. Day \in Nat \ {0}
    BY Parameters
  <1>2. Repeats(base, Week, t) = {latestOccurrence(base, TRUE, t)}
    BY <1>1, LatestWeekly
  <1>3. Repeats(base, Day, t) = {latestOccurrence(base, FALSE, t)}
    BY <1>1, LatestDaily
  <1> QED
    BY <1>2, <1>3, Zenon DEF Period, LatestOf

\* It is a number, whatever it is called.
LEMMA RepeatIsInt ==
    ASSUME NEW c, NEW base, NEW t \in Int, NEW o, Repeats(base, Period(c), t) = {o}
    PROVE  o \in Int
  <1>1. o \in Repeats(base, Period(c), t)
    OBVIOUS
  <1>2. o \in (t - Period(c) + 1)..t
    BY <1>1 DEF Repeats
  <1> QED
    BY <1>2, PeriodFacts

\* It is the latest start, or the latest stop, of a recurring schedule.
LEMMA LatestStart ==
    ASSUME NEW c, c.startAt # Unset, c.startAt \in Int, NEW t \in Int
    PROVE  LET o == latestOccurrence(c.startAt, c.recurrence = "weekly", t)
           IN  o \in Int /\ Starts(c, t) = {o} /\ o \in Starts(c, t)
  <1> PICK o : o = latestOccurrence(c.startAt, c.recurrence = "weekly", t)
    OBVIOUS
  <1>1. o = LatestOf(c, c.startAt, t)
    BY DEF LatestOf, latestOccurrence
  <1>2. Repeats(c.startAt, Period(c), t) = {o}
    BY <1>1, LatestRepeat
  <1>3. o \in Int
    BY <1>2, RepeatIsInt
  <1>4. Starts(c, t) = {o}
    BY <1>2 DEF Starts
  <1>5. o \in Starts(c, t)
    BY <1>4
  <1> QED
    BY <1>3, <1>4, <1>5, Zenon

LEMMA LatestStop ==
    ASSUME NEW c, c.stopAt # Unset, c.stopAt \in Int, NEW t \in Int
    PROVE  LET p == latestOccurrence(c.stopAt, c.recurrence = "weekly", t)
           IN  p \in Int /\ Stops(c, t) = {p}
  <1> PICK p : p = latestOccurrence(c.stopAt, c.recurrence = "weekly", t)
    OBVIOUS
  <1>1. p = LatestOf(c, c.stopAt, t)
    BY DEF LatestOf, latestOccurrence
  <1>2. Repeats(c.stopAt, Period(c), t) = {p}
    BY <1>1, LatestRepeat
  <1>3. p \in Int
    BY <1>2, RepeatIsInt
  <1>4. Stops(c, t) = {p}
    BY <1>2 DEF Stops
  <1> QED
    BY <1>3, <1>4, Zenon

\* A stream that is active is due: isActiveNowLocked never errs on that side.
LEMMA ActiveIsDue ==
    ASSUME NEW c \in Schedules, NEW t \in Int, isActiveNow(c, t)
    PROVE  Due(c, t)
  <1>1. CASE c.recurrence = "none"
    BY <1>1 DEF isActiveNow, Due
  <1>2. CASE c.recurrence # "none"
    <2> DEFINE weekly == c.recurrence = "weekly"
               o == IF c.startAt # Unset THEN latestOccurrence(c.startAt, weekly, t) ELSE t
    <2>1. c.stopAt # Unset => o > latestOccurrence(c.stopAt, weekly, t) + Grace
      BY <1>2 DEF isActiveNow, isActiveRecurring
    <2>2. o \in Int /\ o \in Starts(c, t)
      <3>1. CASE c.startAt = Unset
        BY <3>1 DEF Starts
      <3>2. CASE c.startAt # Unset
        BY <3>2, ScheduleFacts, LatestStart, Zenon
      <3> QED
        BY <3>1, <3>2
    <2> HIDE DEF o
    <2>3. ASSUME NEW p \in Stops(c, t)
          PROVE  ~(o < p)
      <3>1. c.stopAt # Unset /\ c.stopAt \in Int
        BY <2>3, ScheduleFacts DEF Stops
      <3>2. p = latestOccurrence(c.stopAt, weekly, t) /\ p \in Int
        BY <2>3, <3>1, LatestStop
      <3> QED
        BY <2>1, <2>2, <3>1, <3>2, Parameters
    <2> QED
      BY <1>2, <2>2, <2>3 DEF Due
  <1> QED
    BY <1>1, <1>2

\* A stream that is due is active, where isActiveNowLocked does not cut it off.
LEMMA DueIsActive ==
    ASSUME NEW c \in Schedules, NEW t \in Int, Due(c, t), ~CutOff(c, t)
    PROVE  isActiveNow(c, t)
  <1>1. CASE c.recurrence = "none"
    BY <1>1 DEF isActiveNow, Due
  <1>2. CASE c.recurrence # "none" /\ c.stopAt = Unset
    BY <1>2 DEF isActiveNow, isActiveRecurring
  <1>3. CASE c.recurrence # "none" /\ c.stopAt # Unset
    <2> DEFINE weekly == c.recurrence = "weekly"
               o == IF c.startAt # Unset THEN latestOccurrence(c.startAt, weekly, t) ELSE t
               p == latestOccurrence(c.stopAt, weekly, t)
    <2>1. isActiveNow(c, t) <=> o > p + Grace
      BY <1>3 DEF isActiveNow, isActiveRecurring
    <2>2. o \in Int /\ Starts(c, t) = {o}
      <3>1. CASE c.startAt = Unset
        BY <3>1 DEF Starts
      <3>2. CASE c.startAt # Unset
        BY <3>2, ScheduleFacts, LatestStart, Zenon
      <3> QED
        BY <3>1, <3>2
    <2>3. p \in Int /\ Stops(c, t) = {p}
      BY <1>3, ScheduleFacts, LatestStop, Zenon
    <2> HIDE DEF o, p
    <2>4. o < p => t < p + Grace
      BY <1>3, <2>2, <2>3 DEF Due
    <2>5. ~(t < p + Grace) /\ o \notin p..(p + Grace)
      BY <1>3, <2>2, <2>3 DEF CutOff
    <2> QED
      <3>1. o > p + Grace
        BY <2>2, <2>3, <2>4, <2>5, Parameters
      <3> QED
        BY <2>1, <3>1, Zenon
  <1> QED
    BY <1>1, <1>2, <1>3

-----------------------------------------------------------------------------
(* Theorems *)

\* Every variable keeps its type: the clock, the flag, how long nobody was there.
THEOREM TypeCorrect == Spec => []TypeOK
  <1>1. IInv => TypeOK
    BY DEF IInv
  <1> QED
    BY <1>1, Invariance, PTL

\* isActiveNowLocked compares the true latest start with the true latest stop:
\* no wrap-around of days or weekdays makes latestOccurrence miss one.
THEOREM LatestOccurrenceCorrect == Spec => []LatestIsLatest
  <1>1. IInv => LatestIsLatest
    <2> SUFFICES ASSUME IInv, NEW base \in Instants, NEW weekly \in BOOLEAN
                 PROVE  Repeats(base, IF weekly THEN Week ELSE Day, now)
                            = {latestOccurrence(base, weekly, now)}
      BY Zenon DEF LatestIsLatest
    <2>1. now \in Int /\ base \in Int /\ Day \in Nat \ {0}
      BY Parameters DEF IInv, TypeOK
    <2>2. CASE weekly = TRUE
      BY <2>1, <2>2, LatestWeekly, Zenon
    <2>3. CASE weekly = FALSE
      BY <2>1, <2>3, LatestDaily, Zenon
    <2> QED
      BY <2>2, <2>3
  <1> QED
    BY <1>1, Invariance, PTL

\* For every schedule, length of the day, grace period and tick period: a tick
\* after the stream is no longer due the flag is off, and a tick after it is due
\* the flag is on, but for a recurring schedule that isActiveNowLocked cuts off.
THEOREM FlagInTime == Spec => []FlagFollowsSchedule
  <1>1. ASSUME IInv, registered
        PROVE  /\ (\A t \in Recent : ~Due(schedule, t)) => ~active
               /\ (\A t \in Recent : Due(schedule, t)) =>
                     active \/ \E t \in Recent : CutOff(schedule, t)
    <2>1. /\ now \in Int /\ lastTick \in Int /\ Since \in Int /\ Since <= now
          /\ lastTick <= now /\ now - TickPeriod <= lastTick
      BY <1>1, Parameters DEF IInv, TypeOK, Ticking, Since
    <2>2. Evaluated \in Recent
      BY <2>1, Parameters DEF Evaluated, LaterOf, Recent
    <2>3. Evaluated \in Int /\ schedule \in Schedules
      BY <1>1, <2>1 DEF Evaluated, LaterOf, IInv, TypeOK
    <2>4. active = isActiveNow(schedule, Evaluated)
      BY <1>1 DEF IInv, FlagIsOf
    <2> QED
      BY <2>2, <2>3, <2>4, ActiveIsDue, DueIsActive
  <1>2. IInv => FlagFollowsSchedule
    BY <1>1 DEF FlagFollowsSchedule
  <1> QED
    BY <1>2, Invariance, PTL

\* A stream that is over is removed within a tick of its end.
THEOREM RemovedInTime == Spec => []OverIsRemoved
  <1>1. IInv => OverIsRemoved
    <2> SUFFICES ASSUME IInv, registered, schedule.autoRemove, schedule.recurrence = "none",
                        schedule.stopAt # Unset
                 PROVE  now <= LaterOf(Since, schedule.stopAt + Grace) + TickPeriod
      BY DEF OverIsRemoved
    <2>1. now \in Int /\ lastTick \in Int /\ Since \in Int /\ schedule.stopAt \in Int
      BY Parameters, ScheduleFacts DEF IInv, TypeOK, Since
    <2> QED
      BY <2>1, Parameters DEF IInv, Ticking, NotMissed, LaterOf
  <1> QED
    BY <1>1, Invariance, PTL

\* A scheduled stream that a tick removes would never be on the air again.
THEOREM RemovedForGood == Spec => RemovedIsOver
  <1>1. ASSUME IInv, [Next]_vars, registered, ~registered', ~Manual(schedule),
               NEW t \in now..(now + 2 * Week)
        PROVE  ~Due(schedule, t)
    <2>1. Tick
      BY <1>1 DEF Next, vars, touch, Pass, UpdateSchedule
    <2>2. AutoRemoveDue
      BY <1>1, <2>1 DEF Tick, IdleDue
    <2>3. /\ schedule.stopAt \in Int /\ schedule.stopAt # Unset /\ schedule.recurrence = "none"
          /\ schedule.stopAt + Grace <= now
      BY <1>1, <2>2, Parameters, ScheduleFacts DEF AutoRemoveDue, IInv, TypeOK
    <2>4. t \in Int /\ now \in Int /\ now <= t
      BY <1>1, Parameters DEF IInv, TypeOK, Week
    <2> QED
      BY <2>3, <2>4, Parameters DEF Due, isActiveOnce
  <1>2. IInv /\ [Next]_vars =>
          [registered /\ ~registered' =>
             Manual(schedule) \/ \A t \in now..(now + 2 * Week) : ~Due(schedule, t)]_vars
    BY <1>1
  <1> QED
    BY <1>2, Invariance, PTL DEF Spec, RemovedIsOver

=============================================================================
