------------------------------- MODULE Throttle -------------------------------
(***************************************************************************)
(* How one task spends its time: measure_hashrate (miner/mod.rs), which    *)
(* finds the hashrate the channels advertise, and the loop of mine_job     *)
(* (miner/standard.rs, and the same text in miner/extended.rs), which      *)
(* spends it.  Both work for cpu_usage_percent of every throttle window,   *)
(* sleep for the rest, and never hash one header twice.                    *)
(*                                                                         *)
(* Time is counted in ticks: hashing a header takes one, other tasks run   *)
(* whenever this one yields, and a sleep may last longer than it was meant *)
(* to.  A percentage is a number of ticks of the window, as the code takes *)
(* it for a number of milliseconds.  What becomes of a header's hash is    *)
(* not modelled here (see ChannelMiner).                                   *)
(*                                                                         *)
(* A definition named after another with a suffix, and introduced as a     *)
(* slip, is no part of the model.                                          *)
(***************************************************************************)
EXTENDS Integers, FiniteSets

CONSTANTS
  CPU_THROTTLE_WINDOW_MS,  \* ticks of a throttle window
  Percents,    \* the values of cpu_usage_percent to consider
  U64,         \* the modulus of the sleep's length: 2^64 in the code
  Duration,    \* ticks of the measurement: one second in the code
  Second,      \* ticks in which ntime advances by one
  MaxNonce,    \* the largest nonce: 2^32 - 1 in the code
  MaxNtime,    \* the largest ntime, likewise
  MinNtimes,   \* the values of a job's min_ntime to consider
  MaxDelay,    \* the longest time other tasks keep this one waiting
  MaxTime      \* bound: mining is cancelled by then

\* The nonces last for a second: no CPU hashes four billion headers in one.
ASSUME ThrottleAssumption ==
  /\ {CPU_THROTTLE_WINDOW_MS, Duration, Second} \subseteq Nat \ {0}
  /\ {MaxNonce, MaxNtime, MaxDelay, MaxTime} \subseteq Nat
  /\ Percents \subseteq Nat
  /\ MinNtimes \subseteq 0 .. MaxNtime
  /\ U64 \in Nat /\ U64 > CPU_THROTTLE_WINDOW_MS
  /\ \A percent \in Percents : percent < U64
  /\ MaxNonce + 1 >= Second

VARIABLES
  task,               \* "measure" or "mine"
  cpu_usage_percent,
  overflow_checks,    \* was this built with arithmetic checks, as for debugging?
  job_min_ntime,
  pc,
  now,                \* ticks since the start, when the job was activated
  window_start,
  nonce,
  ntime,              \* of measure_hashrate; of the last header, when mining
  hash_count,         \* headers hashed
  headers,            \* which ones
  windows,            \* sleeps that ended
  slept,              \* ticks spent in them
  cancelled_at        \* when the task was cancelled, or Never

parameters == <<task, cpu_usage_percent, overflow_checks, job_min_ntime>>
search == <<nonce, ntime, hash_count, headers>>
naps == <<window_start, windows, slept>>
vars == <<parameters, pc, now, search, naps, cancelled_at>>

Never == -1

cancelled == cancelled_at # Never

Init ==
  /\ task \in {"measure", "mine"}
  /\ cpu_usage_percent \in Percents
  /\ overflow_checks \in BOOLEAN
  /\ job_min_ntime \in IF task = "mine" THEN MinNtimes ELSE {0}
  /\ pc = "start"
  /\ now = 0
  /\ window_start = 0
  /\ nonce = 0
  /\ ntime = job_min_ntime
  /\ hash_count = 0
  /\ headers = {}
  /\ windows = 0
  /\ slept = 0
  /\ cancelled_at = Never

-----------------------------------------------------------------------------
(* The throttle, which the two loops share *)

work_duration_ms == cpu_usage_percent

\* A percentage above 100 is subtracted from the window all the same.
sleep_duration_ms == (CPU_THROTTLE_WINDOW_MS - cpu_usage_percent) % U64

Start ==
  /\ pc = "start"
  /\ pc' = IF cpu_usage_percent > CPU_THROTTLE_WINDOW_MS /\ overflow_checks
           THEN "panicked"
           ELSE "top"
  /\ UNCHANGED <<parameters, now, search, naps, cancelled_at>>

work_is_done(time) ==
  /\ cpu_usage_percent < CPU_THROTTLE_WINDOW_MS
  /\ time - window_start >= work_duration_ms

\* At time, sleep or go on to the next header.
Throttle(time) == pc' = IF work_is_done(time) THEN "asleep" ELSE "hash"

\* Slip: the window goes on where it was.
Wake_in_window(delay) ==
  /\ pc = "asleep"
  /\ now' = now + sleep_duration_ms + delay
  /\ slept' = slept + sleep_duration_ms + delay
  /\ windows' = windows + 1
  /\ pc' = "hash"
  /\ UNCHANGED <<parameters, window_start, search, cancelled_at>>

\* The sleep is over; neither loop looks at anything else before the next header.
Wake(delay) ==
  /\ pc = "asleep"
  /\ now' = now + sleep_duration_ms + delay
  /\ window_start' = now'
  /\ slept' = slept + sleep_duration_ms + delay
  /\ windows' = windows + 1
  /\ pc' = "hash"
  /\ UNCHANGED <<parameters, search, cancelled_at>>

\* Hash the header of this nonce and time.
HashHeader(time) ==
  /\ pc = "hash"
  /\ now' = now + 1
  /\ hash_count' = hash_count + 1
  /\ headers' = headers \cup {<<time, nonce>>}

-----------------------------------------------------------------------------
(* measure_hashrate *)

\* Slip: the clock is looked at only where the work of a window ends.
measure_is_over_at_windows == now >= Duration /\ work_is_done(now)

measure_is_over == now >= Duration

MeasureTop ==
  /\ task = "measure" /\ pc = "top"
  /\ \/ /\ measure_is_over
        /\ pc' = "done"
     \/ /\ ~measure_is_over
        /\ Throttle(now)
  /\ UNCHANGED <<parameters, now, search, naps, cancelled_at>>

\* Slip: the nonce wraps, and ntime stays.
MeasureHash_wrapping ==
  /\ task = "measure"
  /\ HashHeader(ntime)
  /\ nonce' = (nonce + 1) % (MaxNonce + 1)
  /\ pc' = "yielded"
  /\ UNCHANGED <<parameters, ntime, naps, cancelled_at>>

\* The next nonce, or nonce 0 of the next ntime; with both used up, the end.
MeasureHash ==
  /\ task = "measure"
  /\ HashHeader(ntime)
  /\ \/ /\ nonce < MaxNonce
        /\ nonce' = nonce + 1
        /\ pc' = "yielded"
        /\ UNCHANGED ntime
     \/ /\ nonce = MaxNonce /\ ntime < MaxNtime
        /\ nonce' = 0 /\ ntime' = ntime + 1
        /\ pc' = "yielded"
     \/ /\ nonce = MaxNonce /\ ntime = MaxNtime
        /\ pc' = "done"
        /\ UNCHANGED <<nonce, ntime>>
  /\ UNCHANGED <<parameters, naps, cancelled_at>>

MeasureYield(delay) ==
  /\ task = "measure" /\ pc = "yielded"
  /\ now' = now + delay
  /\ pc' = "top"
  /\ UNCHANGED <<parameters, search, naps, cancelled_at>>

-----------------------------------------------------------------------------
(* The loop of mine_job *)

\* The bound: past it nothing happens but the end.
InTime == now < MaxTime \/ cancelled

\* Slip: the branch of the token continues, instead of breaking out.
MinePoll_continuing ==
  /\ task = "mine" /\ pc = "top" /\ InTime
  /\ pc' = IF cancelled THEN "top" ELSE "yielded"
  /\ UNCHANGED <<parameters, now, search, naps, cancelled_at>>

\* The select is entered: a token that is cancelled already wins, since yield_now
\* is never ready at once.
MinePoll ==
  /\ task = "mine" /\ pc = "top" /\ InTime
  /\ pc' = IF cancelled THEN "done" ELSE "yielded"
  /\ UNCHANGED <<parameters, now, search, naps, cancelled_at>>

\* The select is polled again.  yield_now is ready; when a token is cancelled as
\* well, either branch may be taken.
MineResume(delay) ==
  /\ task = "mine" /\ pc = "yielded"
  /\ now' = now + delay
  /\ \/ cancelled /\ pc' = "done"
     \/ Throttle(now')
  /\ UNCHANGED <<parameters, search, naps, cancelled_at>>

\* Slip: ntime grows past its width.
ntime_at_growing(time) == job_min_ntime + time \div Second

\* job_min_ntime advanced by the seconds that passed, saturating.
ntime_at(time) ==
  LET later == job_min_ntime + time \div Second
  IN  IF later > MaxNtime THEN MaxNtime ELSE later

\* Slip: after a header the task goes on without looking at its tokens.
MineHash_unpolled ==
  /\ task = "mine"
  /\ HashHeader(ntime_at(now))
  /\ ntime' = ntime_at(now)
  /\ nonce' = (nonce + 1) % (MaxNonce + 1)
  /\ Throttle(now')
  /\ UNCHANGED <<parameters, naps, cancelled_at>>

\* The nonce wraps: ntime is what keeps the headers new.
MineHash ==
  /\ task = "mine"
  /\ HashHeader(ntime_at(now))
  /\ ntime' = ntime_at(now)
  /\ nonce' = (nonce + 1) % (MaxNonce + 1)
  /\ pc' = "top"
  /\ UNCHANGED <<parameters, naps, cancelled_at>>

\* The job is replaced, the channel closed or the program shut down.
Cancel ==
  /\ task = "mine" /\ ~cancelled
  /\ pc \notin {"done", "panicked"}
  /\ cancelled_at' = now
  /\ UNCHANGED <<parameters, pc, now, search, naps>>

Stopped ==
  /\ pc \in {"done", "panicked"}
  /\ UNCHANGED vars

-----------------------------------------------------------------------------

Delays == 0 .. MaxDelay

Run ==
  \/ Start
  \/ MeasureTop \/ MeasureHash \/ \E delay \in Delays : MeasureYield(delay)
  \/ MinePoll \/ MineHash \/ \E delay \in Delays : MineResume(delay)
  \/ \E delay \in Delays : Wake(delay)

Next == Run \/ Cancel \/ Stopped

Spec == Init /\ [][Next]_vars

\* The runtime polls the task whenever it can go on, and the clock moves.
FairSpec == Spec /\ WF_vars(Run)

-----------------------------------------------------------------------------
(* Invariants *)

TypeOK ==
  /\ task \in {"measure", "mine"}
  /\ cpu_usage_percent \in Percents
  /\ overflow_checks \in BOOLEAN
  /\ job_min_ntime \in MinNtimes \cup {0}
  /\ pc \in {"start", "top", "asleep", "hash", "yielded", "done", "panicked"}
  /\ {now, hash_count, windows, slept} \subseteq Nat
  /\ window_start \in 0 .. now
  /\ nonce \in 0 .. MaxNonce
  /\ ntime \in 0 .. MaxNtime
  /\ headers \subseteq (0 .. MaxNtime) \X (0 .. MaxNonce)
  /\ cancelled_at \in {Never} \cup 0 .. now

\* "Works for cpu_usage_percent of every throttle window and sleeps for the rest":
\* over any number of windows the task hashes no more than its share and one header
\* of each, it sleeps no less than the rest, and it never sleeps before the task has
\* been awake for the share.  A task with all of the CPU, or more, never sleeps.
KeepsItsShare ==
  IF cpu_usage_percent >= CPU_THROTTLE_WINDOW_MS
  THEN windows = 0 /\ pc # "asleep"
  ELSE /\ hash_count <= (windows + 1) * (cpu_usage_percent + 1)
       /\ slept >= windows * (CPU_THROTTLE_WINDOW_MS - cpu_usage_percent)
       /\ now - slept >= windows * cpu_usage_percent

\* No header is hashed twice, in the measurement as in a job: the hashrate counts
\* different headers, and no share is found twice.  Only a job whose ntime can grow
\* no more starts over.
HeadersAreNew ==
  Cardinality(headers) = hash_count \/ (task = "mine" /\ ntime = MaxNtime)

\* The measurement of a second, whose clock is looked at only before a header,
\* takes no more than one sleep and one header longer.
MeasurementIsShort ==
  task = "measure" =>
    \/ now < Duration + 1 + 2 * MaxDelay
    \/ /\ cpu_usage_percent < CPU_THROTTLE_WINDOW_MS
       /\ now < Duration + 1 + 2 * MaxDelay
                + CPU_THROTTLE_WINDOW_MS - cpu_usage_percent

\* A cancelled task is gone after the header it was on, even when it was asleep,
\* where it cannot be reached.
CancelledTaskIsGoneSoon ==
  cancelled /\ pc \notin {"done", "panicked"} =>
    now <= cancelled_at + 1 + 2 * MaxDelay
           + (IF cpu_usage_percent < CPU_THROTTLE_WINDOW_MS
              THEN CPU_THROTTLE_WINDOW_MS - cpu_usage_percent
              ELSE 0)

-----------------------------------------------------------------------------
(* Liveness *)

\* The measurement, which new() waits for and nothing can cancel, ends; and so does
\* a task once it is cancelled.
TasksEnd == (task = "measure" \/ cancelled) ~> pc \in {"done", "panicked"}

=============================================================================
