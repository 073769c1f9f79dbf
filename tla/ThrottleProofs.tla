---------------------------- MODULE ThrottleProofs ----------------------------
(***************************************************************************)
(* Theorems about Throttle, for every window, percentage, duration, delay  *)
(* and width: its state is well formed, it keeps its share of the CPU, it  *)
(* hashes no header twice, and neither the measurement nor a cancelled     *)
(* task outstays its time.                                                 *)
(*                                                                         *)
(* The share and the lateness are inductive only with what holds at each   *)
(* place of the loop: how much of the window is used, and how late it is.  *)
(* That headers are new takes the tick at which each of them was hashed.   *)
(***************************************************************************)
EXTENDS Throttle, TLAPS, FiniteSetTheorems

USE DEF Never

-----------------------------------------------------------------------------
(* The state is well formed *)

Pcs == {"start", "top", "asleep", "hash", "yielded", "done", "panicked"}

\* Everything of TypeOK but the search, whose bounds need more.
Times ==
  /\ task \in {"measure", "mine"}
  /\ cpu_usage_percent \in Percents
  /\ pc \in Pcs
  /\ now \in Nat /\ hash_count \in Nat /\ windows \in Nat /\ slept \in Nat
  /\ window_start \in 0 .. now
  /\ cancelled_at \in {Never} \cup 0 .. now

Search ==
  /\ overflow_checks \in BOOLEAN
  /\ job_min_ntime \in MinNtimes \cup {0}
  /\ now \in Nat
  /\ nonce \in 0 .. MaxNonce
  /\ ntime \in 0 .. MaxNtime
  /\ headers \subseteq (0 .. MaxNtime) \X (0 .. MaxNonce)

\* A sleep is never longer than the window, and exactly the rest of it where the
\* throttle sends a task to sleep.
LEMMA SleepIsTheRest ==
  ASSUME cpu_usage_percent \in Percents
  PROVE  /\ sleep_duration_ms \in Nat
         /\ cpu_usage_percent < CPU_THROTTLE_WINDOW_MS =>
              sleep_duration_ms = CPU_THROTTLE_WINDOW_MS - cpu_usage_percent
<1>1. cpu_usage_percent \in Nat /\ CPU_THROTTLE_WINDOW_MS \in Nat /\ U64 \in Nat /\ U64 > 0
      /\ U64 > CPU_THROTTLE_WINDOW_MS
  BY ThrottleAssumption
<1>2. ASSUME NEW a \in Int, NEW m \in Nat, m > 0  PROVE a % m \in Nat
  BY <1>2
<1>3. ASSUME NEW a \in Nat, NEW m \in Nat, a < m  PROVE a % m = a
  BY <1>3
<1>4. sleep_duration_ms \in Nat
  BY <1>1, <1>2 DEF sleep_duration_ms
<1>5. ASSUME cpu_usage_percent < CPU_THROTTLE_WINDOW_MS
      PROVE  sleep_duration_ms = CPU_THROTTLE_WINDOW_MS - cpu_usage_percent
  <2>1. /\ CPU_THROTTLE_WINDOW_MS - cpu_usage_percent \in Nat
        /\ CPU_THROTTLE_WINDOW_MS - cpu_usage_percent < U64
    BY <1>1, <1>5
  <2> QED
    BY <1>1, <1>3, <2>1 DEF sleep_duration_ms
<1> QED
  BY <1>4, <1>5

LEMMA DelaysAreNatural == ASSUME NEW delay \in Delays  PROVE delay \in Nat /\ delay <= MaxDelay
BY ThrottleAssumption DEF Delays

LEMMA TimesInit == Init => Times
BY ThrottleAssumption DEF Init, Times, Pcs

LEMMA TimesNext == Times /\ [Next]_vars => Times'
<1> SUFFICES ASSUME Times, [Next]_vars  PROVE Times'
  OBVIOUS
<1> USE DEF Times, Pcs
<1>1. CASE Start
  BY <1>1 DEF Start, parameters, search, naps
<1>2. CASE MeasureTop
  BY <1>2 DEF MeasureTop, Throttle, parameters, search, naps
<1>3. CASE MeasureHash
  BY <1>3 DEF MeasureHash, HashHeader, parameters, naps
<1>4. ASSUME NEW delay \in Delays, MeasureYield(delay)  PROVE Times'
  BY <1>4, DelaysAreNatural DEF MeasureYield, parameters, search, naps
<1>5. CASE MinePoll
  BY <1>5 DEF MinePoll, parameters, search, naps
<1>6. CASE MineHash
  BY <1>6 DEF MineHash, HashHeader, parameters, naps
<1>7. ASSUME NEW delay \in Delays, MineResume(delay)  PROVE Times'
  BY <1>7, DelaysAreNatural DEF MineResume, Throttle, parameters, search, naps
<1>8. ASSUME NEW delay \in Delays, Wake(delay)  PROVE Times'
  BY <1>8, DelaysAreNatural, SleepIsTheRest DEF Wake, parameters, search
<1>9. CASE Cancel
  BY <1>9 DEF Cancel, parameters, search, naps
<1>10. CASE UNCHANGED vars
  BY <1>10 DEF vars, parameters, search, naps
<1> QED
  BY <1>1, <1>2, <1>3, <1>4, <1>5, <1>6, <1>7, <1>8, <1>9, <1>10 DEF Next, Run, Stopped


LEMMA NtimeInRange ==
  ASSUME NEW time \in Nat, job_min_ntime \in MinNtimes \cup {0}
  PROVE  ntime_at(time) \in 0 .. MaxNtime
<1>1. job_min_ntime \in Nat /\ MaxNtime \in Nat /\ Second \in Nat /\ Second > 0
  BY ThrottleAssumption
<1>2. ASSUME NEW a \in Nat, NEW m \in Nat, m > 0  PROVE a \div m \in Nat
  BY <1>2
<1>3. time \div Second \in Nat
  BY <1>1, <1>2
<1> QED
  BY <1>1, <1>3 DEF ntime_at

LEMMA NonceInRange ==
  ASSUME nonce \in 0 .. MaxNonce
  PROVE  (nonce + 1) % (MaxNonce + 1) \in 0 .. MaxNonce
<1>1. MaxNonce \in Nat
  BY ThrottleAssumption
<1>2. ASSUME NEW a \in Nat, NEW m \in Nat, m > 0  PROVE a % m \in 0 .. (m - 1)
  BY <1>2
<1>3. (nonce + 1) % (MaxNonce + 1) \in 0 .. ((MaxNonce + 1) - 1)
  BY <1>1, <1>2
<1> QED
  BY <1>1, <1>3

LEMMA SearchInit == Init => Search
BY ThrottleAssumption DEF Init, Search

LEMMA SearchNext == Times /\ Search /\ [Next]_vars => Search'
<1> SUFFICES ASSUME Times, Search, [Next]_vars  PROVE Search'
  OBVIOUS
<1> USE DEF Search
<1>0. now' \in Nat
  BY TimesNext DEF Times
<1>1. CASE UNCHANGED <<parameters, search>>
  BY <1>0, <1>1 DEF parameters, search
<1>2. CASE MeasureHash
  <2>1. nonce' \in 0 .. MaxNonce /\ ntime' \in 0 .. MaxNtime
    BY <1>2, ThrottleAssumption DEF MeasureHash
  <2>2. headers' \subseteq (0 .. MaxNtime) \X (0 .. MaxNonce)
    BY <1>2 DEF MeasureHash, HashHeader
  <2> QED
    BY <1>0, <1>2, <2>1, <2>2 DEF MeasureHash, parameters
<1>3. CASE MineHash
  <2>1. ntime_at(now) \in 0 .. MaxNtime
    BY NtimeInRange
  <2>2. nonce' \in 0 .. MaxNonce /\ ntime' \in 0 .. MaxNtime
    BY <1>3, <2>1, NonceInRange DEF MineHash
  <2>3. headers' \subseteq (0 .. MaxNtime) \X (0 .. MaxNonce)
    BY <1>3, <2>1 DEF MineHash, HashHeader
  <2> QED
    BY <1>0, <1>3, <2>2, <2>3 DEF MineHash, parameters
<1> QED
  BY <1>1, <1>2, <1>3
  DEF Next, Run, Start, MeasureTop, MeasureYield, MinePoll, MineResume, Wake, Cancel,
      Stopped, vars

\* Whatever the parameters, times only grow and stay in order, and the nonce and the
\* ntime of every header keep their widths.
THEOREM TypeCorrect == Spec => []TypeOK
<1>1. Init => Times /\ Search
  BY TimesInit, SearchInit
<1>2. Times /\ Search /\ [Next]_vars => (Times /\ Search)'
  BY TimesNext, SearchNext
<1>3. Times /\ Search => TypeOK
  BY DEF Times, Search, TypeOK, Pcs
<1> QED
  BY <1>1, <1>2, <1>3, PTL DEF Spec

LEMMA TimesAlways == Spec => []Times
BY TimesInit, TimesNext, PTL DEF Spec

-----------------------------------------------------------------------------
(* The share of the CPU *)

\* What the windows that ended account for: headers, ticks asleep, ticks awake.
AllowedHeaders == windows * (cpu_usage_percent + 1)
RestOfWindows == windows * (CPU_THROTTLE_WINDOW_MS - cpu_usage_percent)
ShareOfWindows == windows * cpu_usage_percent

\* Within a window no more headers are hashed than ticks have passed, and before a
\* header the share is not used up: a window ends with one header more at most.
Throttled ==
  /\ hash_count <= AllowedHeaders + (now - window_start)
  /\ hash_count <= AllowedHeaders + cpu_usage_percent + 1
  /\ pc = "hash" => hash_count <= AllowedHeaders + cpu_usage_percent
  /\ pc = "asleep" => now - window_start >= cpu_usage_percent
  /\ slept >= RestOfWindows
  /\ now - slept >= ShareOfWindows + (now - window_start)

ShareInv ==
  IF cpu_usage_percent >= CPU_THROTTLE_WINDOW_MS
  THEN windows = 0 /\ pc # "asleep"
  ELSE Throttled

LEMMA OneWindowMore ==
  ASSUME NEW n \in Nat, NEW a \in Int
  PROVE  /\ n * a \in Int
         /\ (n + 1) * a = n * a + a
OBVIOUS

LEMMA NewWindow ==
  ASSUME NEW count \in Int, NEW all \in Int, NEW share \in Int, NEW t \in Int,
         NEW z \in Int, NEW percent \in Nat, count <= all, t - z >= share
  PROVE  /\ count <= all + (t - t)
         /\ count <= all + percent + 1
         /\ count <= all + percent
         /\ t - z >= share + (t - t)
OBVIOUS

LEMMA TimePasses ==
  ASSUME NEW count \in Int, NEW all \in Int, NEW share \in Int, NEW t \in Int,
         NEW later \in Int, NEW w \in Int, NEW z \in Int, NEW percent \in Int,
         count <= all + (t - w), t - z >= share + (t - w), later >= t
  PROVE  /\ count <= all + (later - w)
         /\ later - z >= share + (later - w)
         /\ later - w < percent => count <= all + percent
OBVIOUS

LEMMA AccountsAreIntegers ==
  ASSUME Times
  PROVE  /\ AllowedHeaders \in Int /\ RestOfWindows \in Int /\ ShareOfWindows \in Int
         /\ cpu_usage_percent \in Nat /\ CPU_THROTTLE_WINDOW_MS \in Nat
BY ThrottleAssumption, OneWindowMore
DEF Times, AllowedHeaders, RestOfWindows, ShareOfWindows

LEMMA ShareInit == Init => ShareInv
<1> SUFFICES ASSUME Init  PROVE ShareInv
  OBVIOUS
<1>1. cpu_usage_percent \in Nat /\ CPU_THROTTLE_WINDOW_MS \in Nat
  BY ThrottleAssumption DEF Init
<1>2. \A a \in Int : 0 * a = 0
  OBVIOUS
<1>3. AllowedHeaders = 0 /\ RestOfWindows = 0 /\ ShareOfWindows = 0
  BY <1>1, <1>2 DEF Init, AllowedHeaders, RestOfWindows, ShareOfWindows
<1> QED
  BY <1>1, <1>3 DEF Init, ShareInv, Throttled

\* A step that ends no window and hashes no header goes to sleep, or on to a header,
\* by the time it leaves.
Passes ==
  /\ pc # "hash" /\ hash_count' = hash_count
  /\ now' \in Nat /\ now' >= now
  /\ pc' = "asleep" => now' - window_start >= cpu_usage_percent
  /\ pc' = "hash" => now' - window_start < cpu_usage_percent

Hashes ==
  /\ pc = "hash" /\ pc' \notin {"hash", "asleep"}
  /\ now' = now + 1 /\ hash_count' = hash_count + 1

Stays == UNCHANGED <<now, hash_count, pc>>

LEMMA ThrottleDecides ==
  ASSUME NEW time, Throttle(time), cpu_usage_percent < CPU_THROTTLE_WINDOW_MS,
         cpu_usage_percent \in Nat, time - window_start \in Int
  PROVE  /\ pc' = "asleep" => time - window_start >= cpu_usage_percent
         /\ pc' = "hash" => time - window_start < cpu_usage_percent
BY DEF Throttle, work_is_done, work_duration_ms

LEMMA StepsInAWindow ==
  ASSUME Times, [Next]_vars, cpu_usage_percent < CPU_THROTTLE_WINDOW_MS
  PROVE  \/ \E delay \in Delays : Wake(delay)
         \/ UNCHANGED naps /\ (Passes \/ Hashes \/ Stays)
<1>1. \A delay \in Delays : delay \in Nat
  BY DelaysAreNatural
<1>2. cpu_usage_percent \in Nat /\ now \in Nat /\ window_start \in Int
  BY AccountsAreIntegers DEF Times
<1>3. ASSUME NEW delay \in Delays, MeasureYield(delay)
      PROVE  UNCHANGED naps /\ Passes
  <2>1. now' = now + delay /\ hash_count' = hash_count /\ pc = "yielded" /\ pc' = "top"
    BY <1>3 DEF MeasureYield, search
  <2> QED
    BY <1>1, <1>2, <1>3, <2>1 DEF MeasureYield, Passes
<1>4. ASSUME NEW delay \in Delays, MineResume(delay)
      PROVE  UNCHANGED naps /\ Passes
  <2>1. now' = now + delay /\ hash_count' = hash_count /\ pc = "yielded"
    BY <1>4 DEF MineResume, search
  <2>2. delay \in Nat /\ now' \in Nat /\ now' >= now /\ now' - window_start \in Int
    BY <1>1, <1>2, <2>1
  <2>3. pc' = "done" \/ Throttle(now')
    BY <1>4 DEF MineResume
  <2>4. /\ pc' = "asleep" => now' - window_start >= cpu_usage_percent
        /\ pc' = "hash" => now' - window_start < cpu_usage_percent
    <3>1. CASE pc' = "done"
      BY <3>1
    <3>2. CASE Throttle(now')
      BY <1>2, <2>2, <3>2, ThrottleDecides
    <3> QED
      BY <2>3, <3>1, <3>2
  <2> QED
    BY <1>4, <2>1, <2>2, <2>4 DEF MineResume, Passes
<1>5. CASE MeasureTop
  <2>1. now' = now /\ hash_count' = hash_count /\ pc = "top"
    BY <1>5 DEF MeasureTop, search
  <2>2. now' \in Nat /\ now' >= now /\ now - window_start \in Int
    BY <1>2, <2>1
  <2>3. pc' = "done" \/ Throttle(now)
    BY <1>5 DEF MeasureTop
  <2>4. /\ pc' = "asleep" => now - window_start >= cpu_usage_percent
        /\ pc' = "hash" => now - window_start < cpu_usage_percent
    <3>1. CASE pc' = "done"
      BY <3>1
    <3>2. CASE Throttle(now)
      BY <1>2, <2>2, <3>2, ThrottleDecides
    <3> QED
      BY <2>3, <3>1, <3>2
  <2> QED
    BY <1>5, <2>1, <2>2, <2>4 DEF MeasureTop, Passes
<1>6. CASE MinePoll \/ Start
  BY <1>2, <1>6 DEF MinePoll, Start, search, Passes
<1>7. CASE MeasureHash \/ MineHash
  BY <1>7 DEF MeasureHash, MineHash, HashHeader, Hashes
<1>8. CASE Cancel \/ Stopped \/ UNCHANGED vars
  BY <1>8 DEF Cancel, Stopped, vars, search, naps, Stays
<1> QED
  BY <1>3, <1>4, <1>5, <1>6, <1>7, <1>8 DEF Next, Run

LEMMA ShareNext == Times /\ ShareInv /\ [Next]_vars => ShareInv'
<1> SUFFICES ASSUME Times, ShareInv, [Next]_vars  PROVE ShareInv'
  OBVIOUS
<1>0. /\ AllowedHeaders \in Int /\ RestOfWindows \in Int /\ ShareOfWindows \in Int
      /\ cpu_usage_percent \in Nat /\ CPU_THROTTLE_WINDOW_MS \in Nat
      /\ now \in Nat /\ window_start \in Nat /\ slept \in Nat /\ hash_count \in Nat
      /\ windows \in Nat
  BY AccountsAreIntegers DEF Times
<1>1. cpu_usage_percent' = cpu_usage_percent
  BY DEF Next, Run, Start, MeasureTop, MeasureHash, MeasureYield, MinePoll, MineHash,
         MineResume, Wake, Cancel, Stopped, vars, parameters
<1>2. CASE cpu_usage_percent >= CPU_THROTTLE_WINDOW_MS
  BY <1>0, <1>1, <1>2
  DEF ShareInv, Next, Run, Start, MeasureTop, MeasureHash, MeasureYield, MinePoll,
      MineHash, MineResume, Wake, Cancel, Stopped, vars, naps, HashHeader, Throttle,
      work_is_done
<1>3. CASE cpu_usage_percent < CPU_THROTTLE_WINDOW_MS
  <2>0. Throttled
    BY <1>0, <1>3 DEF ShareInv
  <2>1. ASSUME NEW delay \in Delays, Wake(delay)  PROVE Throttled'
    <3>1. /\ AllowedHeaders' = AllowedHeaders + cpu_usage_percent + 1
          /\ RestOfWindows' = RestOfWindows + (CPU_THROTTLE_WINDOW_MS - cpu_usage_percent)
          /\ ShareOfWindows' = ShareOfWindows + cpu_usage_percent
      BY <1>0, <1>1, <2>1, OneWindowMore
      DEF Wake, AllowedHeaders, RestOfWindows, ShareOfWindows
    <3>2. /\ pc = "asleep" /\ pc' = "hash"
          /\ now' = now + sleep_duration_ms + delay
          /\ slept' = slept + sleep_duration_ms + delay
          /\ window_start' = now'
          /\ hash_count' = hash_count
      BY <2>1 DEF Wake, search
    <3>3. delay \in Nat /\ sleep_duration_ms = CPU_THROTTLE_WINDOW_MS - cpu_usage_percent
      BY <1>3, DelaysAreNatural, SleepIsTheRest DEF Times
    <3>4. /\ hash_count' \in Int /\ AllowedHeaders' \in Int /\ ShareOfWindows' \in Int
          /\ now' \in Int /\ slept' \in Int /\ cpu_usage_percent' \in Nat
      BY <1>0, <1>1, <1>3, <3>1, <3>2, <3>3
    <3>5. hash_count' <= AllowedHeaders'
      BY <1>0, <2>0, <3>1, <3>2 DEF Throttled
    <3>6. slept' >= RestOfWindows'
      BY <1>0, <1>3, <2>0, <3>1, <3>2, <3>3 DEF Throttled
    <3>7. now' - slept' >= ShareOfWindows'
      BY <1>0, <1>3, <2>0, <3>1, <3>2, <3>3 DEF Throttled
    <3>8. /\ hash_count' <= AllowedHeaders' + (now' - now')
          /\ hash_count' <= AllowedHeaders' + cpu_usage_percent' + 1
          /\ hash_count' <= AllowedHeaders' + cpu_usage_percent'
          /\ now' - slept' >= ShareOfWindows' + (now' - now')
      BY <3>4, <3>5, <3>7, NewWindow
    <3>9. pc' = "hash" /\ window_start' = now'
      BY <3>2
    <3>10. /\ hash_count' <= AllowedHeaders' + (now' - window_start')
           /\ now' - slept' >= ShareOfWindows' + (now' - window_start')
      BY <3>8, <3>9, Zenon
    <3>11. ~(pc' = "asleep")
      BY <3>9
    <3> QED
      BY <3>6, <3>8, <3>10, <3>11, Zenon DEF Throttled
  <2>2. ASSUME UNCHANGED naps, Passes \/ Hashes \/ Stays  PROVE Throttled'
    <3>1. windows' = windows /\ window_start' = window_start /\ slept' = slept
      BY <2>2 DEF naps
    <3>2. /\ AllowedHeaders' = AllowedHeaders /\ RestOfWindows' = RestOfWindows
          /\ ShareOfWindows' = ShareOfWindows
      BY <1>1, <3>1 DEF AllowedHeaders, RestOfWindows, ShareOfWindows
    <3>3. CASE Passes
      <4>1. now' \in Nat /\ now' >= now /\ hash_count' = hash_count
        BY <3>3 DEF Passes
      <4>2. /\ hash_count <= AllowedHeaders + (now - window_start)
            /\ now - slept >= ShareOfWindows + (now - window_start)
        BY <2>0 DEF Throttled
      <4>3. /\ hash_count <= AllowedHeaders + (now' - window_start)
            /\ now' - slept >= ShareOfWindows + (now' - window_start)
            /\ now' - window_start < cpu_usage_percent =>
                 hash_count <= AllowedHeaders + cpu_usage_percent
        <5>1. now' \in Int /\ window_start \in Int /\ slept \in Int /\ hash_count \in Int
              /\ now \in Int /\ cpu_usage_percent \in Int
          BY <1>0, <4>1
        <5> QED
          BY <1>0, <4>1, <4>2, <5>1, TimePasses
      <4>5. pc' = "hash" => hash_count <= AllowedHeaders + cpu_usage_percent
        BY <3>3, <4>3 DEF Passes
      <4>6. pc' = "asleep" => now' - window_start >= cpu_usage_percent
        BY <3>3 DEF Passes
      <4> QED
        BY <1>1, <2>0, <3>1, <3>2, <4>1, <4>3, <4>5, <4>6 DEF Throttled
    <3>4. CASE Hashes
      <4>1. /\ pc = "hash" /\ pc' \notin {"hash", "asleep"}
            /\ now' = now + 1 /\ hash_count' = hash_count + 1
        BY <3>4 DEF Hashes
      <4>2. /\ hash_count <= AllowedHeaders + (now - window_start)
            /\ hash_count <= AllowedHeaders + cpu_usage_percent
            /\ now - slept >= ShareOfWindows + (now - window_start)
        BY <2>0, <4>1 DEF Throttled
      <4>3. /\ hash_count' <= AllowedHeaders + (now' - window_start)
            /\ hash_count' <= AllowedHeaders + cpu_usage_percent + 1
            /\ now' - slept >= ShareOfWindows + (now' - window_start)
        BY <1>0, <4>1, <4>2
      <4> QED
        BY <1>1, <2>0, <3>1, <3>2, <4>1, <4>3 DEF Throttled
    <3>5. CASE Stays
      BY <1>1, <2>0, <3>1, <3>2, <3>5 DEF Throttled, Stays
    <3> QED
      BY <2>2, <3>3, <3>4, <3>5
  <2> QED
    BY <1>0, <1>1, <1>3, <2>1, <2>2, StepsInAWindow DEF ShareInv
<1> QED
  BY <1>0, <1>2, <1>3

\* For every window, percentage and delay: over any number of windows a task hashes,
\* sleeps and is awake as KeepsItsShare says.
THEOREM ShareIsKept == Spec => []KeepsItsShare
<1>1. Spec => []ShareInv
  BY TimesAlways, ShareInit, ShareNext, PTL DEF Spec
<1>2. Times /\ ShareInv => KeepsItsShare
  <2> SUFFICES ASSUME Times, ShareInv  PROVE KeepsItsShare
    OBVIOUS
  <2>0. /\ AllowedHeaders \in Int /\ RestOfWindows \in Int /\ ShareOfWindows \in Int
        /\ cpu_usage_percent \in Nat /\ CPU_THROTTLE_WINDOW_MS \in Nat
        /\ now \in Nat /\ window_start \in 0 .. now /\ slept \in Nat
        /\ hash_count \in Nat /\ windows \in Nat
    BY AccountsAreIntegers DEF Times
  <2>1. CASE cpu_usage_percent >= CPU_THROTTLE_WINDOW_MS
    BY <2>1 DEF ShareInv, KeepsItsShare
  <2>2. CASE cpu_usage_percent < CPU_THROTTLE_WINDOW_MS
    <3>1. Throttled
      BY <2>0, <2>2 DEF ShareInv
    <3>2. (windows + 1) * (cpu_usage_percent + 1) = AllowedHeaders + cpu_usage_percent + 1
      BY <2>0, OneWindowMore DEF AllowedHeaders
    <3>3. hash_count <= (windows + 1) * (cpu_usage_percent + 1)
      BY <2>0, <3>1, <3>2 DEF Throttled
    <3>4. slept >= windows * (CPU_THROTTLE_WINDOW_MS - cpu_usage_percent)
      BY <3>1 DEF Throttled, RestOfWindows
    <3>5. now - slept >= ShareOfWindows
      BY <2>0, <3>1 DEF Throttled
    <3> QED
      BY <2>0, <2>2, <3>3, <3>4, <3>5 DEF KeepsItsShare, ShareOfWindows
  <2> QED
    BY <2>0, <2>1, <2>2
<1> QED
  BY <1>1, <1>2, TimesAlways, PTL

-----------------------------------------------------------------------------
(* How late a task can be *)

\* The sleep of a window, or none.
Rest == IF cpu_usage_percent < CPU_THROTTLE_WINDOW_MS
        THEN CPU_THROTTLE_WINDOW_MS - cpu_usage_percent
        ELSE 0

\* A task sleeps only where it is throttled.
SleepsWhenThrottled == pc = "asleep" => cpu_usage_percent < CPU_THROTTLE_WINDOW_MS

\* The clock was looked at before the header, or before the sleep that precedes it.
MeasuringInv ==
  task = "measure" =>
    /\ pc = "asleep" => now < Duration
    /\ pc = "hash" => now < Duration + Rest + MaxDelay
    /\ pc = "yielded" => now < Duration + 1 + Rest + MaxDelay
    /\ now < Duration + 1 + Rest + 2 * MaxDelay

\* A task that has yielded has not moved since it was cancelled; the token is looked
\* at again before the next header.
CancelledInv ==
  cancelled =>
    /\ task = "mine"
    /\ pc \in {"start", "yielded"} => now = cancelled_at
    /\ pc = "asleep" => now <= cancelled_at + MaxDelay
    /\ pc = "hash" => now <= cancelled_at + 2 * MaxDelay + Rest
    /\ pc \notin {"done", "panicked"} => now <= cancelled_at + 1 + 2 * MaxDelay + Rest

LateInv == SleepsWhenThrottled /\ MeasuringInv /\ CancelledInv

LEMMA Numbers ==
  ASSUME Times
  PROVE  /\ Rest \in Nat /\ MaxDelay \in Nat /\ Duration \in Nat /\ Duration > 0
         /\ now \in Nat /\ cancelled_at \in Int
BY ThrottleAssumption DEF Times, Rest

LEMMA LateInit == Init => LateInv
<1> SUFFICES ASSUME Init  PROVE LateInv
  OBVIOUS
<1>1. Rest \in Nat /\ MaxDelay \in Nat /\ Duration \in Nat /\ Duration > 0
  BY TimesInit, Numbers
<1> QED
  BY <1>1
  DEF Init, LateInv, SleepsWhenThrottled, MeasuringInv, CancelledInv, cancelled

LEMMA LateNext == Times /\ LateInv /\ [Next]_vars => LateInv'
<1> SUFFICES ASSUME Times, LateInv, [Next]_vars  PROVE LateInv'
  OBVIOUS
<1> USE DEF LateInv, SleepsWhenThrottled, MeasuringInv, CancelledInv, cancelled
<1>0. /\ Rest \in Nat /\ MaxDelay \in Nat /\ Duration \in Nat /\ Duration > 0
      /\ now \in Nat /\ cancelled_at \in Int
  BY Numbers
<1>c. cpu_usage_percent' = cpu_usage_percent /\ task' = task
  BY DEF Next, Run, Start, MeasureTop, MeasureHash, MeasureYield, MinePoll, MineHash,
         MineResume, Wake, Cancel, Stopped, vars, parameters
<1>r. Rest' = Rest
  BY <1>c DEF Rest
<1>t. task \in {"measure", "mine"}
  BY DEF Times
<1>1. CASE Start
  BY <1>0, <1>c, <1>r, <1>1 DEF Start
<1>2. CASE MeasureTop
  BY <1>0, <1>c, <1>r, <1>2 DEF MeasureTop, measure_is_over, Throttle, work_is_done
<1>3. CASE MeasureHash
  BY <1>0, <1>c, <1>r, <1>3 DEF MeasureHash, HashHeader
<1>4. ASSUME NEW delay \in Delays, MeasureYield(delay)  PROVE LateInv'
  BY <1>0, <1>c, <1>r, <1>4, DelaysAreNatural DEF MeasureYield
<1>5. CASE MinePoll
  BY <1>0, <1>c, <1>r, <1>5 DEF MinePoll
<1>6. CASE MineHash
  BY <1>0, <1>c, <1>r, <1>6 DEF MineHash, HashHeader
<1>7. ASSUME NEW delay \in Delays, MineResume(delay)  PROVE LateInv'
  BY <1>0, <1>c, <1>r, <1>7, DelaysAreNatural DEF MineResume, Throttle, work_is_done
<1>8. ASSUME NEW delay \in Delays, Wake(delay)  PROVE LateInv'
  <2>1. sleep_duration_ms = Rest
    BY <1>8, SleepIsTheRest DEF Wake, Rest, Times
  <2>2. now' = now + Rest + delay /\ delay \in Nat /\ delay <= MaxDelay
    BY <1>8, <2>1, DelaysAreNatural DEF Wake
  <2>3. pc = "asleep" /\ pc' = "hash" /\ cancelled_at' = cancelled_at
    BY <1>8 DEF Wake
  <2> QED
    BY <1>0, <1>c, <1>r, <2>2, <2>3
<1>9. CASE Cancel
  BY <1>0, <1>c, <1>r, <1>9 DEF Cancel
<1>10. CASE Stopped \/ UNCHANGED vars
  BY <1>0, <1>c, <1>r, <1>10 DEF Stopped, vars
<1> QED
  BY <1>1, <1>2, <1>3, <1>4, <1>5, <1>6, <1>7, <1>8, <1>9, <1>10 DEF Next, Run

LEMMA LateAlways == Spec => []LateInv
BY TimesAlways, LateInit, LateNext, PTL DEF Spec

\* However long the measurement is meant to be, it is over one sleep and one header
\* later at the most.
THEOREM MeasurementStaysShort == Spec => []MeasurementIsShort
<1>1. Times /\ LateInv => MeasurementIsShort
  <2> SUFFICES ASSUME Times, MeasuringInv, task = "measure"  PROVE MeasurementIsShort
    BY DEF LateInv, MeasurementIsShort
  <2>1. now < Duration + 1 + Rest + 2 * MaxDelay
    BY DEF MeasuringInv
  <2>2. MaxDelay \in Nat /\ Duration \in Nat /\ now \in Nat
    BY Numbers
  <2>3. CPU_THROTTLE_WINDOW_MS \in Nat /\ cpu_usage_percent \in Nat
    BY AccountsAreIntegers
  <2> QED
    BY <2>1, <2>2, <2>3 DEF MeasurementIsShort, Rest
<1> QED
  BY <1>1, LateAlways, TimesAlways, PTL

\* Wherever a task is cancelled, asleep or not, one sleep and one header later it is
\* about to look at its tokens, if it has not ended.
THEOREM CancelledTaskIsGone == Spec => []CancelledTaskIsGoneSoon
<1>1. LateInv => CancelledTaskIsGoneSoon
  BY DEF LateInv, CancelledInv, CancelledTaskIsGoneSoon, Rest
<1> QED
  BY <1>1, LateAlways, PTL

-----------------------------------------------------------------------------
(* No header is hashed twice *)

\* The measurement goes through the nonces of one ntime after the other: the headers
\* hashed are those before the next one.
Before(header) ==
  header[1] < ntime \/ (header[1] = ntime /\ header[2] < nonce)

MeasuredInv ==
  task = "measure" /\ pc # "done" => \A header \in headers : Before(header)

\* Is n the nonce k headers after this header's, around the end of the nonces?
IsLater(n, header, k) ==
  n = header[2] + k \/ n = header[2] + k - (MaxNonce + 1)

\* A header of a job was hashed at a tick: its ntime is that tick's, and the nonces
\* that were used from it on are no more than the ticks that passed.
HashedAt(header, tick, n, time) ==
  /\ header[1] = ntime_at(tick)
  /\ time - tick <= MaxNonce =>
       \E k \in 1 .. (time - tick) : IsLater(n, header, k)

MinedInv ==
  task = "mine" =>
    /\ ntime <= ntime_at(now)
    /\ \A header \in headers :
         \E tick \in 0 .. now - 1 : HashedAt(header, tick, nonce, now)

NewInv ==
  /\ IsFiniteSet(headers)
  /\ MeasuredInv
  /\ MinedInv
  /\ HeadersAreNew

LEMMA SearchAlways == Spec => [](Times /\ Search)
BY TimesInit, SearchInit, TimesNext, SearchNext, PTL DEF Spec

\* The seconds of two ticks: in order, and less than a second apart when the same.
LEMMA SecondsInOrder ==
  ASSUME NEW a \in Nat, NEW b \in Nat, NEW s \in Nat, s > 0, a <= b
  PROVE  /\ a \div s \in Nat /\ b \div s \in Nat
         /\ a \div s <= b \div s
         /\ a \div s = b \div s => b - a < s
<1> DEFINE p == a \div s
           q == b \div s
<1>1. /\ p \in Nat /\ a = s * p + (a % s) /\ a % s \in 0 .. (s - 1)
      /\ q \in Nat /\ b = s * q + (b % s) /\ b % s \in 0 .. (s - 1)
  OBVIOUS
<1>2. s * p \in Nat /\ s * q \in Nat
  BY <1>1
<1> HIDE DEF p, q
<1>3. ASSUME p > q  PROVE FALSE
  <2>1. PICK d \in Nat : p = q + 1 + d
    <3>1. p - q - 1 \in Nat /\ p = q + 1 + (p - q - 1)
      BY <1>1, <1>3
    <3> QED
      BY <3>1
  <2>2. s * p = s * q + s + s * d /\ s * d \in Nat
    BY <1>1, <2>1
  <2>3. a >= s * p /\ b < s * q + s
    BY <1>1, <1>2
  <2> QED
    BY <1>1, <1>2, <2>2, <2>3
<1>4. p = q => b - a < s
  BY <1>1, <1>2
<1> QED
  BY <1>1, <1>3, <1>4 DEF p, q

\* The ntime of a job never goes back, and two ticks it is the same at, short of its
\* largest value, are less than a second apart.
LEMMA NtimeGrows ==
  ASSUME job_min_ntime \in MinNtimes \cup {0}, NEW a \in Nat, NEW b \in Nat, a <= b
  PROVE  /\ ntime_at(a) \in 0 .. MaxNtime /\ ntime_at(b) \in 0 .. MaxNtime
         /\ ntime_at(a) <= ntime_at(b)
         /\ ntime_at(a) = ntime_at(b) /\ ntime_at(b) # MaxNtime => b - a < Second
<1>1. job_min_ntime \in Nat /\ MaxNtime \in Nat /\ Second \in Nat /\ Second > 0
  BY ThrottleAssumption
<1>2. /\ a \div Second \in Nat /\ b \div Second \in Nat
      /\ a \div Second <= b \div Second
      /\ a \div Second = b \div Second => b - a < Second
  BY <1>1, SecondsInOrder
<1>3. ntime_at(a) \in 0 .. MaxNtime /\ ntime_at(b) \in 0 .. MaxNtime
  BY NtimeInRange
<1> DEFINE p == a \div Second
           q == b \div Second
<1>4. /\ ntime_at(a) = IF job_min_ntime + p > MaxNtime THEN MaxNtime ELSE job_min_ntime + p
      /\ ntime_at(b) = IF job_min_ntime + q > MaxNtime THEN MaxNtime ELSE job_min_ntime + q
  BY DEF ntime_at
<1>5. p \in Nat /\ q \in Nat /\ p <= q /\ (p = q => b - a < Second)
  BY <1>2
<1> HIDE DEF p, q
<1> QED
  BY <1>1, <1>3, <1>4, <1>5

\* The nonce a job goes on with.
LEMMA NonceWraps ==
  ASSUME nonce \in 0 .. MaxNonce
  PROVE  (nonce + 1) % (MaxNonce + 1) = IF nonce = MaxNonce THEN 0 ELSE nonce + 1
<1>1. MaxNonce \in Nat
  BY ThrottleAssumption
<1>2. ASSUME NEW a \in Nat, NEW m \in Nat, a < m  PROVE a % m = a
  BY <1>2
<1>3. ASSUME NEW m \in Nat, m > 0  PROVE m % m = 0
  BY <1>3
<1>4. CASE nonce = MaxNonce
  BY <1>1, <1>3, <1>4
<1>5. CASE nonce # MaxNonce
  BY <1>1, <1>2, <1>5
<1> QED
  BY <1>4, <1>5

LEMMA HeaderNumbers ==
  ASSUME Search, NEW header \in headers
  PROVE  header[1] \in 0 .. MaxNtime /\ header[2] \in 0 .. MaxNonce
BY DEF Search

LEMMA OneHeaderMore ==
  ASSUME IsFiniteSet(headers), NEW header, headers' = headers \cup {header}
  PROVE  /\ IsFiniteSet(headers')
         /\ header \notin headers => Cardinality(headers') = Cardinality(headers) + 1
BY FS_AddElement

LEMMA NewInit == Init => NewInv
<1> SUFFICES ASSUME Init  PROVE NewInv
  OBVIOUS
<1>1. IsFiniteSet(headers) /\ Cardinality(headers) = 0
  BY FS_EmptySet DEF Init
<1>2. job_min_ntime \in MinNtimes \cup {0}
  BY DEF Init
<1>3. ntime_at(0) = job_min_ntime
  <2>1. job_min_ntime \in 0 .. MaxNtime /\ MaxNtime \in Nat /\ Second \in Nat /\ Second > 0
    BY <1>2, ThrottleAssumption
  <2>2. ASSUME NEW m \in Nat, m > 0  PROVE 0 \div m = 0
    BY <2>2
  <2> QED
    BY <2>1, <2>2 DEF ntime_at
<1>4. job_min_ntime \in Int
  BY <1>2, ThrottleAssumption
<1> QED
  BY <1>1, <1>3, <1>4 DEF Init, NewInv, MeasuredInv, MinedInv, HeadersAreNew

\* A header of the measurement comes after all before it, and so does the next.
LEMMA MeasureHashIsNew ==
  ASSUME Times, Search, NewInv, MeasureHash
  PROVE  NewInv'
<1>1. /\ task = "measure" /\ pc = "hash" /\ task' = task
      /\ hash_count' = hash_count + 1
      /\ headers' = headers \cup {<<ntime, nonce>>}
  BY DEF MeasureHash, HashHeader, parameters
<1>2. ntime \in 0 .. MaxNtime /\ nonce \in 0 .. MaxNonce /\ MaxNtime \in Nat /\ MaxNonce \in Nat
  BY ThrottleAssumption DEF Search
<1>3. \A header \in headers : Before(header)
  BY <1>1 DEF NewInv, MeasuredInv
<1>4. <<ntime, nonce>> \notin headers
  BY <1>2, <1>3 DEF Before
<1>5. Cardinality(headers) = hash_count
  BY <1>1 DEF NewInv, HeadersAreNew
<1>6. IsFiniteSet(headers') /\ Cardinality(headers') = hash_count'
  BY <1>1, <1>4, <1>5, OneHeaderMore DEF NewInv
<1>7. ASSUME pc' # "done", NEW header \in headers'
      PROVE  header[1] < ntime' \/ (header[1] = ntime' /\ header[2] < nonce')
  <2>1. \/ nonce' = nonce + 1 /\ ntime' = ntime
        \/ nonce' = 0 /\ ntime' = ntime + 1
    BY <1>7 DEF MeasureHash
  <2>2. CASE header = <<ntime, nonce>>
    BY <1>2, <2>1, <2>2
  <2>3. CASE header \in headers
    <3>1. header[1] \in Int /\ header[2] \in Int
      BY <2>3, HeaderNumbers
    <3>2. header[1] < ntime \/ (header[1] = ntime /\ header[2] < nonce)
      BY <1>3, <2>3 DEF Before
    <3> QED
      BY <1>2, <2>1, <3>1, <3>2
  <2> QED
    BY <1>1, <2>2, <2>3
<1> QED
  BY <1>1, <1>6, <1>7 DEF NewInv, MeasuredInv, MinedInv, HeadersAreNew, Before

\* One header later, an older header is one nonce further back.
LEMMA OlderHeaders ==
  ASSUME Search, MineHash, NEW header \in headers, NEW tick \in 0 .. now - 1,
         HashedAt(header, tick, nonce, now)
  PROVE  HashedAt(header, tick, nonce', now')
<1>1. /\ now' = now + 1 /\ now \in Nat /\ MaxNonce \in Nat
      /\ nonce \in 0 .. MaxNonce /\ header[2] \in 0 .. MaxNonce
  BY ThrottleAssumption, HeaderNumbers DEF Search, MineHash, HashHeader
<1>2. nonce' = IF nonce = MaxNonce THEN 0 ELSE nonce + 1
  BY <1>1, NonceWraps DEF MineHash
<1>3. ASSUME now' - tick <= MaxNonce
      PROVE  \E k \in 1 .. (now' - tick) : IsLater(nonce', header, k)
  <2>1. PICK k \in 1 .. (now - tick) : IsLater(nonce, header, k)
    BY <1>1, <1>3 DEF HashedAt
  <2>2. k + 1 \in 1 .. (now' - tick)
    BY <1>1, <2>1
  <2>3. IsLater(nonce', header, k + 1)
    BY <1>1, <1>2, <1>3, <2>1 DEF IsLater
  <2> QED
    BY <2>2, <2>3
<1> QED
  BY <1>3 DEF HashedAt

\* The header just hashed was hashed at this tick, one nonce back.
LEMMA ThisHeader ==
  ASSUME Search, MineHash
  PROVE  HashedAt(<<ntime_at(now), nonce>>, now, nonce', now')
<1>1. now' = now + 1 /\ now \in Nat /\ MaxNonce \in Nat /\ nonce \in 0 .. MaxNonce
  BY ThrottleAssumption DEF Search, MineHash, HashHeader
<1>2. nonce' = IF nonce = MaxNonce THEN 0 ELSE nonce + 1
  BY <1>1, NonceWraps DEF MineHash
<1>3. 1 \in 1 .. (now' - now) /\ IsLater(nonce', <<ntime_at(now), nonce>>, 1)
  BY <1>1, <1>2 DEF IsLater
<1> QED
  BY <1>3 DEF HashedAt

\* The nonces of a second are used once, and ntime differs between seconds until it can
\* grow no more.
LEMMA MineHashIsNew ==
  ASSUME Times, Search, NewInv, MineHash
  PROVE  NewInv'
<1>1. /\ task = "mine" /\ task' = task /\ job_min_ntime' = job_min_ntime
      /\ now' = now + 1 /\ hash_count' = hash_count + 1
      /\ ntime' = ntime_at(now)
      /\ headers' = headers \cup {<<ntime_at(now), nonce>>}
  BY DEF MineHash, HashHeader, parameters
<1>2. /\ job_min_ntime \in MinNtimes \cup {0} /\ now \in Nat
      /\ MaxNtime \in Nat /\ MaxNonce \in Nat /\ Second \in Nat /\ MaxNonce + 1 >= Second
      /\ nonce \in 0 .. MaxNonce /\ ntime \in 0 .. MaxNtime
  BY ThrottleAssumption DEF Search
<1>3. /\ ntime <= ntime_at(now)
      /\ \A header \in headers :
           \E tick \in 0 .. now - 1 : HashedAt(header, tick, nonce, now)
  BY <1>1 DEF NewInv, MinedInv
<1>4. /\ ntime_at(now) \in 0 .. MaxNtime /\ ntime_at(now') \in 0 .. MaxNtime
      /\ ntime_at(now) <= ntime_at(now')
  BY <1>1, <1>2, NtimeGrows
<1>5. ASSUME ntime_at(now) # MaxNtime, <<ntime_at(now), nonce>> \in headers
      PROVE  FALSE
  <2> DEFINE header == <<ntime_at(now), nonce>>
  <2>1. PICK tick \in 0 .. now - 1 : HashedAt(header, tick, nonce, now)
    BY <1>3, <1>5
  <2>2. tick \in Nat /\ tick <= now /\ now - tick \in Nat
    BY <1>2, <2>1
  <2>3. ntime_at(now) = ntime_at(tick)
    BY <2>1 DEF HashedAt
  <2>4. now - tick < Second
    BY <1>2, <1>5, <2>2, <2>3, NtimeGrows
  <2>5. now - tick <= MaxNonce
    BY <1>2, <2>2, <2>4
  <2>6. PICK k \in 1 .. (now - tick) : IsLater(nonce, header, k)
    BY <2>1, <2>5 DEF HashedAt
  <2> QED
    BY <1>2, <2>2, <2>5, <2>6 DEF IsLater
<1>6. IsFiniteSet(headers')
  BY <1>1, OneHeaderMore DEF NewInv
<1>7. Cardinality(headers') = hash_count' \/ ntime' = MaxNtime
  <2>1. CASE ntime_at(now) = MaxNtime
    BY <1>1, <2>1
  <2>2. CASE ntime_at(now) # MaxNtime
    <3>1. ntime # MaxNtime
      BY <1>2, <1>3, <1>4, <2>2
    <3>2. Cardinality(headers) = hash_count
      BY <3>1 DEF NewInv, HeadersAreNew
    <3>3. <<ntime_at(now), nonce>> \notin headers
      BY <1>5, <2>2
    <3> QED
      BY <1>1, <3>2, <3>3, OneHeaderMore DEF NewInv
  <2> QED
    BY <2>1, <2>2
<1>8. ASSUME NEW header \in headers'
      PROVE  \E tick \in 0 .. now' - 1 : HashedAt(header, tick, nonce', now')
  <2>1. CASE header \in headers
    <3>1. PICK tick \in 0 .. now - 1 : HashedAt(header, tick, nonce, now)
      BY <1>3, <2>1
    <3>2. HashedAt(header, tick, nonce', now')
      BY <2>1, <3>1, OlderHeaders
    <3> QED
      BY <1>1, <1>2, <3>1, <3>2
  <2>2. CASE header = <<ntime_at(now), nonce>>
    BY <1>1, <1>2, <2>2, ThisHeader
  <2> QED
    BY <1>1, <2>1, <2>2
<1>9. \A time : ntime_at(time)' = ntime_at(time)
  BY <1>1 DEF ntime_at
<1>10. MinedInv'
  <2>1. ntime' <= ntime_at(now)'
    BY <1>1, <1>4 DEF ntime_at
  <2>2. \A header \in headers' :
          \E tick \in 0 .. now' - 1 : HashedAt(header, tick, nonce, now)'
    BY <1>1, <1>8 DEF HashedAt, ntime_at, IsLater
  <2> QED
    BY <2>1, <2>2 DEF MinedInv
<1> QED
  BY <1>1, <1>6, <1>7, <1>10 DEF NewInv, MeasuredInv, HeadersAreNew

\* The ticks and the headers there have been are still there later.
LEMMA StillEarlier ==
  ASSUME NEW time \in Nat, NEW later \in Nat, later >= time, NEW tick \in 0 .. time - 1
  PROVE  /\ tick \in 0 .. later - 1
         /\ time - tick <= later - tick
         /\ \A k \in 1 .. (time - tick) : k \in 1 .. (later - tick)
         /\ later - tick <= MaxNonce => time - tick <= MaxNonce
<1>1. MaxNonce \in Nat
  BY ThrottleAssumption
<1> QED
  BY <1>1

\* Between headers time passes, and no more.
LEMMA BetweenHeaders ==
  ASSUME Times, Search, NewInv, UNCHANGED <<parameters, search>>,
         now' \in Nat, now' >= now, pc = "done" => pc' = "done"
  PROVE  NewInv'
<1>1. /\ task' = task /\ job_min_ntime' = job_min_ntime
      /\ nonce' = nonce /\ ntime' = ntime /\ hash_count' = hash_count /\ headers' = headers
  BY DEF parameters, search
<1>2. /\ job_min_ntime \in MinNtimes \cup {0} /\ now \in Nat /\ MaxNonce \in Nat
      /\ ntime \in 0 .. MaxNtime /\ MaxNtime \in Nat
  BY ThrottleAssumption DEF Search
<1>3. IsFiniteSet(headers') /\ MeasuredInv' /\ HeadersAreNew'
  BY <1>1 DEF NewInv, MeasuredInv, HeadersAreNew, Before
<1>4. ASSUME task = "mine"
      PROVE  /\ ntime <= ntime_at(now')
             /\ \A header \in headers :
                  \E tick \in 0 .. now' - 1 : HashedAt(header, tick, nonce, now')
  <2>1. /\ ntime <= ntime_at(now)
        /\ \A header \in headers :
             \E tick \in 0 .. now - 1 : HashedAt(header, tick, nonce, now)
    BY <1>4 DEF NewInv, MinedInv
  <2>2. /\ ntime_at(now) \in 0 .. MaxNtime /\ ntime_at(now') \in 0 .. MaxNtime
        /\ ntime_at(now) <= ntime_at(now')
    BY <1>2, NtimeGrows
  <2>3. ASSUME NEW header \in headers
        PROVE  \E tick \in 0 .. now' - 1 : HashedAt(header, tick, nonce, now')
    <3>1. PICK tick \in 0 .. now - 1 : HashedAt(header, tick, nonce, now)
      BY <2>1
    <3>2. /\ tick \in 0 .. now' - 1
          /\ \A k \in 1 .. (now - tick) : k \in 1 .. (now' - tick)
          /\ now' - tick <= MaxNonce => now - tick <= MaxNonce
      BY <1>2, StillEarlier
    <3>3. ASSUME now' - tick <= MaxNonce
          PROVE  \E k \in 1 .. (now' - tick) : IsLater(nonce, header, k)
      <4>1. PICK k \in 1 .. (now - tick) : IsLater(nonce, header, k)
        BY <3>1, <3>2, <3>3 DEF HashedAt
      <4> QED
        BY <3>2, <4>1
    <3> QED
      BY <3>1, <3>2, <3>3 DEF HashedAt
  <2>4. ntime <= ntime_at(now')
    BY <1>2, <2>1, <2>2
  <2> QED
    BY <2>3, <2>4
<1>5. MinedInv'
  BY <1>1, <1>4 DEF MinedInv, HashedAt, ntime_at, IsLater
<1> QED
  BY <1>3, <1>5 DEF NewInv

LEMMA NewNext == Times /\ Search /\ NewInv /\ [Next]_vars => NewInv'
<1> SUFFICES ASSUME Times, Search, NewInv, [Next]_vars  PROVE NewInv'
  OBVIOUS
<1>1. CASE MeasureHash
  BY <1>1, MeasureHashIsNew
<1>2. CASE MineHash
  BY <1>2, MineHashIsNew
<1>3. CASE ~MeasureHash /\ ~MineHash
  <2>1. /\ UNCHANGED <<parameters, search>>
        /\ pc = "done" => pc' = "done"
    BY <1>3
    DEF Next, Run, Start, MeasureTop, MeasureYield, MinePoll, MineResume, Wake, Cancel,
        Stopped, vars
  <2>2. now' \in Nat /\ now' >= now
    <3>1. \A delay \in Delays : delay \in Nat
      BY DelaysAreNatural
    <3>2. sleep_duration_ms \in Nat /\ now \in Nat
      BY SleepIsTheRest DEF Times
    <3>3. \/ now' = now
          \/ \E delay \in Delays :
               now' = now + delay \/ now' = now + sleep_duration_ms + delay
      BY <1>3, Zenon
      DEF Next, Run, Start, MeasureTop, MeasureYield, MinePoll, MineResume, Wake, Cancel,
          Stopped, vars
    <3> QED
      BY <3>1, <3>2, <3>3
  <2> QED
    BY <2>1, <2>2, BetweenHeaders
<1> QED
  BY <1>1, <1>2, <1>3

\* For every throttle window, percentage, delay and width of the nonce and of ntime: as
\* long as a second has no more ticks than there are nonces, no header is hashed twice,
\* whenever the task sleeps and however often the nonce wraps.
THEOREM HeadersStayNew == Spec => []HeadersAreNew
<1>1. Spec => []NewInv
  BY SearchAlways, NewInit, NewNext, PTL DEF Spec
<1>2. NewInv => HeadersAreNew
  BY DEF NewInv
<1> QED
  BY <1>1, <1>2, PTL

=============================================================================
