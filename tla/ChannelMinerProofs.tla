-------------------------- MODULE ChannelMinerProofs --------------------------
(***************************************************************************)
(* Theorems about what the two kinds of miners have in common, for every   *)
(* number of tasks, jobs and shares, every target and every hash.          *)
(* MinerSpec allows all that either kind does; StandardChannelMinerProofs  *)
(* and ExtendedChannelMinerProofs show that each kind implements it.       *)
(*                                                                         *)
(* A step is classified first: a task moves on in one of five ways, the    *)
(* task is replaced, or neither tasks nor wire change.  Each invariant is  *)
(* then shown to survive each class.                                       *)
(***************************************************************************)
EXTENDS ChannelMiner, SequenceTheorems, FiniteSetTheorems, TLAPS

-----------------------------------------------------------------------------
(* What either kind does *)

\* Snapshot, whatever the kind asks of a job.
SnapshotStep(t) ==
  /\ \/ Goto(t, "snapshot", "done")
     \/ Goto(t, "snapshot", "panicked")
     \/ /\ tasks[t].pc = "snapshot"
        /\ channel.active_job # NoJob
        /\ tasks' = [tasks EXCEPT ![t] =
                       [@ EXCEPT !.pc = "select", !.job = channel.active_job,
                                 !.tip = channel.chain_tip, !.target = channel.target,
                                 !.started = clock]]
  /\ TaskOnly

LEMMA SnapshotIsAStep == ASSUME NEW t, NEW usable, Snapshot(t, usable)  PROVE SnapshotStep(t)
BY DEF Snapshot, SnapshotStep

TaskStep(t) == CheckSingleSubmit(t) \/ SnapshotStep(t) \/ MiningLoop(t)

MinerNext ==
  \/ \E valid \in BOOLEAN : StoreJob(valid)
  \/ ActivateFutureJob
  \/ CommonStep
  \/ \E t \in DOMAIN tasks : TaskStep(t)

MinerSpec == MiningInit /\ [][MinerNext]_vars

-----------------------------------------------------------------------------
(* Types *)

Channel ==
  [active_job : Job \cup {NoJob}, future_jobs : SUBSET Job, past_jobs : SUBSET Nat,
   chain_tip : Nat, target : Targets, last_share_sequence_number : Nat,
   acknowledged : Nat, rejected : Nat]

\* Where a task has a job, and where it has a share.
Busy == {"select", "yielded", "hash", "found", "send", "sent"}
Holding == {"found", "send"}

ChannelTyped ==
  /\ channel \in Channel
  /\ channel.past_jobs \subseteq 1 .. jobs
  /\ channel.active_job.id \in 0 .. jobs
  /\ \A job \in channel.future_jobs : job.id \in 1 .. jobs
  /\ jobs \in Nat

TasksTyped ==
  /\ tasks \in Seq(Task)
  /\ wire \in Seq(Share)
  /\ \A t \in DOMAIN tasks :
       /\ tasks[t].pc \in Busy => tasks[t].job \in Job
       /\ tasks[t].pc \in Holding => tasks[t].share \in Share
       /\ tasks[t].started <= clock

FlagsTyped ==
  /\ clock \in Nat
  /\ handler \in {"idle", "respawn"}
  /\ client \in {"running", "returned"}
  /\ upstream \in {"open", "closed"}
  /\ poisoned \in BOOLEAN /\ open \in BOOLEAN
  /\ single_submit \in BOOLEAN
  /\ global_cancelled \in BOOLEAN /\ single_submit_cancelled \in BOOLEAN

Typed == ChannelTyped /\ TasksTyped /\ FlagsTyped

LEMMA TypedImpliesTypeOK == Typed => TypeOK
<1> SUFFICES ASSUME Typed  PROVE TypeOK
  OBVIOUS
<1>1. /\ channel.active_job \in Job \cup {NoJob}
      /\ \A job \in channel.future_jobs : job \in Job
      /\ channel.past_jobs \subseteq 1 .. jobs
      /\ channel.target \in Targets
      /\ channel.chain_tip \in Nat /\ channel.last_share_sequence_number \in Nat
      /\ channel.acknowledged \in Nat /\ channel.rejected \in Nat
  BY DEF Typed, ChannelTyped, Channel
<1>2. /\ \A t \in DOMAIN tasks : tasks[t] \in Task
      /\ \A i \in DOMAIN wire : wire[i] \in Share
  BY ElementOfSeq, LenProperties DEF Typed, TasksTyped
<1> QED
  BY <1>1, <1>2 DEF Typed, ChannelTyped, FlagsTyped, TypeOK

LEMMA TypedInit == MiningInit => Typed
<1> SUFFICES ASSUME MiningInit  PROVE Typed
  OBVIOUS
<1>1. /\ tasks \in Seq(Task) /\ wire \in Seq(Share)
      /\ DOMAIN tasks = {}
  BY EmptySeq DEF MiningInit
<1>2. channel \in Channel
  BY DEF MiningInit, Channel
<1>3. ChannelTyped
  BY <1>2 DEF MiningInit, ChannelTyped, NoJob
<1> QED
  BY <1>1, <1>3, MinerAssumption DEF MiningInit, Typed, TasksTyped, FlagsTyped

-----------------------------------------------------------------------------
(* What a step of a task can be *)

Moves ==
  {<<"start", "snapshot">>, <<"start", "done">>, <<"snapshot", "done">>,
   <<"snapshot", "panicked">>, <<"select", "done">>, <<"select", "yielded">>,
   <<"yielded", "done">>, <<"yielded", "hash">>, <<"hash", "select">>,
   <<"found", "done">>, <<"found", "panicked">>, <<"found", "select">>,
   <<"send", "select">>, <<"sent", "done">>}

\* Only task t is another.
Alone(t) ==
  /\ tasks' \in Seq(Task)
  /\ Len(tasks') = Len(tasks)
  /\ DOMAIN tasks' = DOMAIN tasks
  /\ \A u \in DOMAIN tasks : u # t => tasks'[u] = tasks[u]
  /\ tasks'[t].cancelled = tasks[t].cancelled
  /\ UNCHANGED <<single_submit, handler, jobs, clock>>

SameWork(t) ==
  /\ tasks'[t].job = tasks[t].job
  /\ tasks'[t].tip = tasks[t].tip
  /\ tasks'[t].started = tasks[t].started

GoesOn(t) ==
  /\ <<tasks[t].pc, tasks'[t].pc>> \in Moves
  /\ tasks'[t].pc = "yielded" => ~tasks[t].cancelled
  /\ SameWork(t)
  /\ tasks'[t].share = tasks[t].share
  /\ tasks'[t].late = tasks[t].late
  /\ UNCHANGED <<channel, wire>>

Reads(t) ==
  /\ tasks[t].pc = "snapshot" /\ tasks'[t].pc = "select"
  /\ channel.active_job # NoJob
  /\ tasks'[t].job = channel.active_job
  /\ tasks'[t].tip = channel.chain_tip
  /\ tasks'[t].started = clock
  /\ tasks'[t].late = tasks[t].late
  /\ UNCHANGED <<channel, wire>>

Finds(t) ==
  /\ tasks[t].pc = "hash" /\ tasks'[t].pc = "found"
  /\ SameWork(t)
  /\ \E h \in Hashes : tasks'[t].share = new_share(t, h)
  /\ tasks'[t].late = tasks[t].late
  /\ UNCHANGED <<channel, wire>>

\* The jobs whose shares the channel takes, and those that wait for a chain tip.
Known == {channel.active_job.id} \cup channel.past_jobs
Waiting == {job.id : job \in channel.future_jobs}

Accepts(t) ==
  LET seq == channel.last_share_sequence_number + 1
  IN  /\ tasks[t].pc = "found" /\ tasks'[t].pc = "send"
      /\ SameWork(t)
      /\ tasks'[t].share = [tasks[t].share EXCEPT !.seq = seq]
      /\ tasks'[t].share.hash <= tasks'[t].share.job.target
      /\ tasks[t].share.job.id \in Known
      /\ tasks'[t].late = tasks[t].late + (IF tasks[t].cancelled THEN 1 ELSE 0)
      /\ channel' = [channel EXCEPT !.last_share_sequence_number = seq]
      /\ UNCHANGED wire

Submits(t) ==
  /\ tasks[t].pc = "send"
  /\ tasks'[t].pc = IF single_submit THEN "sent" ELSE "select"
  /\ SameWork(t)
  /\ tasks'[t].share = tasks[t].share
  /\ tasks'[t].late = tasks[t].late
  /\ wire' = Append(wire, tasks[t].share)
  /\ UNCHANGED channel

Advances(t) == Alone(t) /\ (GoesOn(t) \/ Reads(t) \/ Finds(t) \/ Accepts(t) \/ Submits(t))

LEMMA TaskTyped ==
  ASSUME Typed, NEW t \in DOMAIN tasks
  PROVE  /\ tasks[t] \in Task
         /\ t \in 1 .. Len(tasks)
<1>1. tasks \in Seq(Task)
  BY DEF Typed, TasksTyped
<1>2. t \in 1 .. Len(tasks)
  BY <1>1, LenProperties
<1> QED
  BY <1>1, <1>2, ElementOfSeq

\* A task made another, token apart.
LEMMA OneTaskChanges ==
  ASSUME Typed, NEW t \in DOMAIN tasks, NEW new \in Task,
         tasks' = [tasks EXCEPT ![t] = new],
         new.cancelled = tasks[t].cancelled,
         UNCHANGED <<single_submit, handler, jobs, clock>>
  PROVE  Alone(t) /\ tasks'[t] = new
<1>1. tasks \in Seq(Task) /\ t \in 1 .. Len(tasks)
  BY LenProperties DEF Typed, TasksTyped
<1>2. /\ tasks' \in Seq(Task) /\ Len(tasks') = Len(tasks)
      /\ \A u \in 1 .. Len(tasks) : tasks'[u] = IF u = t THEN new ELSE tasks[u]
  BY <1>1, ExceptSeq
<1>3. DOMAIN tasks' = DOMAIN tasks /\ DOMAIN tasks = 1 .. Len(tasks)
  BY <1>1, <1>2, LenProperties
<1> QED
  BY <1>1, <1>2, <1>3 DEF Alone

\* A task that only moves on.
LEMMA GotoMoves ==
  ASSUME Typed, NEW t \in DOMAIN tasks, NEW from, NEW to \in Pcs,
         Goto(t, from, to), <<from, to>> \in Moves,
         to = "yielded" => ~tasks[t].cancelled,
         UNCHANGED <<channel, wire, single_submit, handler, jobs, clock>>
  PROVE  Alone(t) /\ GoesOn(t)
<1> DEFINE new == [tasks[t] EXCEPT !.pc = to]
<1>1. tasks[t] \in Task
  BY TaskTyped
<1>2. new \in Task
  BY <1>1 DEF Task
<1>3. /\ new.pc = to
      /\ new.cancelled = tasks[t].cancelled
      /\ new.job = tasks[t].job /\ new.tip = tasks[t].tip
      /\ new.started = tasks[t].started
      /\ new.share = tasks[t].share /\ new.late = tasks[t].late
  BY <1>1 DEF Task
<1>4. tasks' = [tasks EXCEPT ![t] = new] /\ tasks[t].pc = from
  BY DEF Goto
<1> HIDE DEF new
<1>5. Alone(t) /\ tasks'[t] = new
  BY <1>2, <1>3, <1>4, OneTaskChanges
<1> QED
  BY <1>3, <1>4, <1>5 DEF GoesOn, SameWork

\* A timestamp stays in its field.
LEMMA NewShareTyped ==
  ASSUME Typed, NEW t \in DOMAIN tasks, NEW h \in Hashes, tasks[t].pc \in Busy
  PROVE  new_share(t, h) \in Share
<1>1. tasks[t] \in Task /\ t \in Nat
  <2>1. tasks[t] \in Task /\ t \in 1 .. Len(tasks) /\ tasks \in Seq(Task)
    BY TaskTyped DEF Typed, TasksTyped
  <2> QED
    BY <2>1
<1>2. /\ tasks[t].job \in Job /\ tasks[t].started \in Nat
      /\ tasks[t].started <= clock /\ clock \in Nat
  BY <1>1 DEF Typed, TasksTyped, FlagsTyped, Task
<1>3. tasks[t].job.min_ntime \in 0 .. MaxNtime
  BY <1>2 DEF Job
<1>4. saturating_add(tasks[t].job.min_ntime, clock - tasks[t].started) \in 0 .. MaxNtime
  BY <1>2, <1>3, MinerAssumption DEF saturating_add
<1> QED
  BY <1>1, <1>2, <1>4 DEF new_share, Share

LEMMA Validating ==
  ASSUME Typed, NEW t \in DOMAIN tasks, ValidateShare(t)
  PROVE  Advances(t)
<1>t. tasks[t] \in Task
  BY TaskTyped
<1> DEFINE seq == channel.last_share_sequence_number + 1
           share == [tasks[t].share EXCEPT !.seq = seq]
<1>1. /\ tasks[t].pc = "found"
      /\ UNCHANGED <<wire, single_submit, handler, jobs, clock>>
  BY DEF ValidateShare, tokens
<1>2. CASE Goto(t, "found", "done") /\ UNCHANGED channel
  BY <1>1, <1>2, GotoMoves DEF Moves, Pcs, Advances
<1>3. CASE Goto(t, "found", "panicked") /\ UNCHANGED channel
  BY <1>1, <1>3, GotoMoves DEF Moves, Pcs, Advances
<1>4. CASE Goto(t, "found", "select") /\ UNCHANGED channel
  BY <1>1, <1>4, GotoMoves DEF Moves, Pcs, Advances
<1> DEFINE late == IF tasks[t].cancelled THEN 1 ELSE 0
           new == [tasks[t] EXCEPT !.pc = "send", !.share = share,
                                   !.late = tasks[t].late + late]
<1>5. CASE /\ worth_submitting(share)
           /\ channel' = [channel EXCEPT !.last_share_sequence_number = seq]
           /\ tasks' = [tasks EXCEPT ![t] = new]
  <2>1. seq \in Nat /\ tasks[t].share \in Share
    BY <1>1 DEF Typed, ChannelTyped, Channel, TasksTyped, Holding
  <2>2. share \in Share
    BY <2>1 DEF Share
  <2>3. tasks[t].late + late \in Nat
    BY <1>t DEF Task
  <2>4. new \in Task
    BY <1>t, <2>2, <2>3 DEF Task, Pcs
  <2>5. /\ new.pc = "send" /\ new.cancelled = tasks[t].cancelled
        /\ new.job = tasks[t].job /\ new.tip = tasks[t].tip
        /\ new.started = tasks[t].started
        /\ new.share = share /\ new.late = tasks[t].late + late
    BY <1>t DEF Task
  <2>6. share.hash <= share.job.target /\ share.job.id \in Known
    BY <1>5 DEF worth_submitting, lib_accepts_share, Known
  <2>9. share.job = tasks[t].share.job
    BY <2>1 DEF Share
  <2> HIDE DEF new
  <2>7. Alone(t) /\ tasks'[t] = new
    BY <1>1, <1>5, <2>4, <2>5, OneTaskChanges
  <2>8. Accepts(t)
    BY <1>1, <1>5, <2>5, <2>6, <2>7, <2>9 DEF Accepts, SameWork
  <2> QED
    BY <2>7, <2>8 DEF Advances
<1> QED
  BY <1>2, <1>3, <1>4, <1>5, Zenon DEF ValidateShare, next_sequence_number

LEMMA Submitting ==
  ASSUME Typed, NEW t \in DOMAIN tasks, SubmitShare(t)
  PROVE  Advances(t)
<1>t. tasks[t] \in Task
  BY TaskTyped
<1>1. UNCHANGED <<channel, single_submit, handler, jobs, clock>>
  BY DEF SubmitShare, tokens
<1>2. CASE Goto(t, "send", "select") /\ UNCHANGED wire
  BY <1>1, <1>2, GotoMoves DEF Moves, Pcs, Advances
<1> DEFINE to == IF single_submit THEN "sent" ELSE "select"
           new == [tasks[t] EXCEPT !.pc = to]
<1>3. CASE Goto(t, "send", to) /\ wire' = Append(wire, tasks[t].share)
  <2>1. new \in Task
    BY <1>t DEF Task, Pcs
  <2>2. /\ new.pc = to /\ new.cancelled = tasks[t].cancelled
        /\ new.job = tasks[t].job /\ new.tip = tasks[t].tip
        /\ new.started = tasks[t].started
        /\ new.share = tasks[t].share /\ new.late = tasks[t].late
    BY <1>t DEF Task
  <2>3. tasks[t].pc = "send" /\ tasks' = [tasks EXCEPT ![t] = new]
    BY <1>3 DEF Goto
  <2> HIDE DEF new
  <2>4. Alone(t) /\ tasks'[t] = new
    BY <1>1, <2>1, <2>2, <2>3, OneTaskChanges
  <2>5. Submits(t)
    BY <1>1, <1>3, <2>2, <2>3, <2>4 DEF Submits, SameWork
  <2> QED
    BY <2>4, <2>5 DEF Advances
<1> QED
  BY <1>2, <1>3 DEF SubmitShare

LEMMA Advancing == ASSUME Typed, NEW t \in DOMAIN tasks, TaskStep(t)  PROVE Advances(t)
<1>t. tasks[t] \in Task
  BY TaskTyped
<1>1. CASE CheckSingleSubmit(t)
  <2>1. UNCHANGED <<channel, wire, single_submit, handler, jobs, clock>>
    BY <1>1 DEF CheckSingleSubmit, TaskOnly, tokens
  <2>2. CASE Goto(t, "start", "done")
    BY <2>1, <2>2, GotoMoves DEF Moves, Pcs, Advances
  <2>3. CASE Goto(t, "start", "snapshot")
    BY <2>1, <2>3, GotoMoves DEF Moves, Pcs, Advances
  <2> QED
    BY <1>1, <2>2, <2>3 DEF CheckSingleSubmit
<1>2. CASE SnapshotStep(t)
  <2>1. UNCHANGED <<channel, wire, single_submit, handler, jobs, clock>>
    BY <1>2 DEF SnapshotStep, TaskOnly, tokens
  <2>2. CASE Goto(t, "snapshot", "done")
    BY <2>1, <2>2, GotoMoves DEF Moves, Pcs, Advances
  <2>3. CASE Goto(t, "snapshot", "panicked")
    BY <2>1, <2>3, GotoMoves DEF Moves, Pcs, Advances
  <2> DEFINE new == [tasks[t] EXCEPT !.pc = "select", !.job = channel.active_job,
                                     !.tip = channel.chain_tip, !.target = channel.target,
                                     !.started = clock]
  <2>4. CASE /\ tasks[t].pc = "snapshot" /\ channel.active_job # NoJob
             /\ tasks' = [tasks EXCEPT ![t] = new]
    <3>1. /\ channel.active_job \in Job \cup {NoJob} /\ channel.chain_tip \in Nat
          /\ channel.target \in Nat /\ clock \in Nat
      BY MinerAssumption DEF Typed, ChannelTyped, FlagsTyped, Channel
    <3>2. new \in Task
      BY <1>t, <3>1 DEF Task, Pcs
    <3>3. /\ new.pc = "select" /\ new.cancelled = tasks[t].cancelled
          /\ new.job = channel.active_job /\ new.tip = channel.chain_tip
          /\ new.started = clock /\ new.late = tasks[t].late
      BY <1>t DEF Task
    <3> HIDE DEF new
    <3>4. Alone(t) /\ tasks'[t] = new
      BY <2>1, <2>4, <3>2, <3>3, OneTaskChanges
    <3>5. Reads(t)
      BY <2>1, <2>4, <3>3, <3>4 DEF Reads
    <3> QED
      BY <3>4, <3>5 DEF Advances
  <2> QED
    BY <1>2, <2>2, <2>3, <2>4 DEF SnapshotStep
<1>3. CASE Select(t)
  <2>1. UNCHANGED <<channel, wire, single_submit, handler, jobs, clock>>
    BY <1>3 DEF Select, TaskOnly, tokens
  <2>2. CASE Goto(t, "select", "done")
    BY <2>1, <2>2, GotoMoves DEF Moves, Pcs, Advances
  <2>3. CASE ~Cancelled(t) /\ Goto(t, "select", "yielded")
    BY <2>1, <2>3, GotoMoves DEF Moves, Pcs, Advances, Cancelled
  <2> QED
    BY <1>3, <2>2, <2>3 DEF Select
<1>4. CASE Resume(t)
  <2>1. UNCHANGED <<channel, wire, single_submit, handler, jobs, clock>>
    BY <1>4 DEF Resume, TaskOnly, tokens
  <2>2. CASE Goto(t, "yielded", "done")
    BY <2>1, <2>2, GotoMoves DEF Moves, Pcs, Advances
  <2>3. CASE Goto(t, "yielded", "hash")
    BY <2>1, <2>3, GotoMoves DEF Moves, Pcs, Advances
  <2> QED
    BY <1>4, <2>2, <2>3 DEF Resume
<1>5. CASE HashHeader(t)
  <2>1. UNCHANGED <<channel, wire, single_submit, handler, jobs, clock>>
    BY <1>5 DEF HashHeader, TaskOnly, tokens
  <2>2. CASE Goto(t, "hash", "select")
    BY <2>1, <2>2, GotoMoves DEF Moves, Pcs, Advances
  <2>3. ASSUME NEW h \in Hashes, tasks[t].pc = "hash",
               tasks' = [tasks EXCEPT ![t] =
                           [@ EXCEPT !.pc = "found", !.share = new_share(t, h)]]
        PROVE  Advances(t)
    <3> DEFINE new == [tasks[t] EXCEPT !.pc = "found", !.share = new_share(t, h)]
    <3>1. new_share(t, h) \in Share
      BY <2>3, NewShareTyped DEF Busy
    <3>2. new \in Task
      BY <1>t, <3>1 DEF Task, Pcs
    <3>3. /\ new.pc = "found" /\ new.cancelled = tasks[t].cancelled
          /\ new.job = tasks[t].job /\ new.tip = tasks[t].tip
          /\ new.started = tasks[t].started
          /\ new.share = new_share(t, h) /\ new.late = tasks[t].late
      BY <1>t DEF Task
    <3>4. tasks' = [tasks EXCEPT ![t] = new]
      BY <2>3
    <3> HIDE DEF new
    <3>5. Alone(t) /\ tasks'[t] = new
      BY <2>1, <3>2, <3>3, <3>4, OneTaskChanges
    <3>6. Finds(t)
      BY <2>1, <2>3, <3>3, <3>5 DEF Finds, SameWork
    <3> QED
      BY <3>5, <3>6 DEF Advances
  <2> QED
    BY <1>5, <2>2, <2>3 DEF HashHeader
<1>6. CASE ValidateShare(t)
  BY <1>6, Validating
<1>7. CASE SubmitShare(t)
  BY <1>7, Submitting
<1>8. CASE FinishSingleSubmit(t)
  <2>1. UNCHANGED <<channel, wire, single_submit, handler, jobs, clock>>
    BY <1>8 DEF FinishSingleSubmit
  <2> QED
    BY <1>8, <2>1, GotoMoves DEF FinishSingleSubmit, Moves, Pcs, Advances
<1> QED
  BY <1>1, <1>2, <1>3, <1>4, <1>5, <1>6, <1>7, <1>8 DEF TaskStep, MiningLoop

-----------------------------------------------------------------------------
(* What every other step is *)

\* What becomes of the channel's jobs: nothing, a new job that waits or is active at
\* once, or the next chain tip with a job that waited for it.
TakesJobs ==
  \/ UNCHANGED <<jobs, Known, Waiting, channel.active_job, channel.chain_tip>>
  \/ /\ jobs' = jobs + 1
     /\ UNCHANGED <<Known, channel.active_job, channel.chain_tip>>
     /\ Waiting' = Waiting \cup {jobs'}
  \/ /\ jobs' = jobs + 1
     /\ UNCHANGED <<Waiting, channel.chain_tip>>
     /\ channel'.active_job.id = jobs' /\ Known' \subseteq Known \cup {jobs'}
  \/ /\ UNCHANGED jobs
     /\ channel'.active_job.id \in Waiting
     /\ Known' = {channel'.active_job.id} /\ Waiting' = {}

\* A handler or the environment: tasks and wire stay as they are, and the
\* channel takes another job only with the promise to replace the task.
Handles ==
  /\ TakesJobs
  /\ UNCHANGED <<tasks, wire, single_submit>>
  /\ channel'.last_share_sequence_number = channel.last_share_sequence_number
  /\ clock' \in Nat /\ clock <= clock'
  /\ \/ handler' = "respawn"
     \/ UNCHANGED handler /\ channel'.active_job = channel.active_job
                          /\ channel'.chain_tip = channel.chain_tip
  /\ \/ channel'.active_job = channel.active_job
     \/ channel'.active_job.activated_at = clock

\* The task is replaced: the past one is told to stop, all else is as it was.
Replaces ==
  /\ tasks' \in Seq(Task)
  /\ Len(tasks') = Len(tasks) + 1
  /\ DOMAIN tasks' = 1 .. Len(tasks) + 1
  /\ \A u \in DOMAIN tasks :
       /\ tasks'[u].pc = tasks[u].pc /\ tasks'[u].job = tasks[u].job
       /\ tasks'[u].tip = tasks[u].tip /\ tasks'[u].started = tasks[u].started
       /\ tasks'[u].share = tasks[u].share /\ tasks'[u].late = tasks[u].late
       /\ tasks[u].cancelled \/ u = Len(tasks) => tasks'[u].cancelled
  /\ tasks'[Len(tasks) + 1] = NewTask
  /\ UNCHANGED <<channel, wire, single_submit, jobs, clock>>

LEMMA Replacing == ASSUME Typed, respawn_mining_task  PROVE Replaces
<1>1. /\ tasks \in Seq(Task)
      /\ Len(tasks) \in Nat /\ DOMAIN tasks = 1 .. Len(tasks)
  BY LenProperties DEF Typed, TasksTyped
<1>2. \A u \in DOMAIN tasks : tasks[u] \in Task
  BY TaskTyped
<1> DEFINE told == [u \in DOMAIN tasks |->
                      IF u = Current THEN [tasks[u] EXCEPT !.cancelled = TRUE] ELSE tasks[u]]
<1>3. told \in [1 .. Len(tasks) -> Task]
  BY <1>1, <1>2 DEF Task
<1>4. told \in Seq(Task) /\ Len(told) = Len(tasks)
  BY <1>1, <1>3
<1>5. NewTask \in Task
  BY MinerAssumption DEF NewTask, Task, Pcs
<1>6. tasks' = Append(told, NewTask)
  BY DEF respawn_mining_task
<1>7. \A u \in DOMAIN tasks :
        /\ told[u].pc = tasks[u].pc /\ told[u].job = tasks[u].job
        /\ told[u].tip = tasks[u].tip /\ told[u].started = tasks[u].started
        /\ told[u].share = tasks[u].share /\ told[u].late = tasks[u].late
        /\ tasks[u].cancelled \/ u = Len(tasks) => told[u].cancelled
  BY <1>2 DEF Task, Current
<1> HIDE DEF told
<1>8. /\ tasks' \in Seq(Task) /\ Len(tasks') = Len(tasks) + 1
      /\ \A u \in 1 .. Len(tasks) : tasks'[u] = told[u]
      /\ tasks'[Len(tasks) + 1] = NewTask
  BY <1>4, <1>5, <1>6, AppendProperties
<1>9. DOMAIN tasks' = 1 .. Len(tasks) + 1
  BY <1>8, LenProperties
<1> QED
  BY <1>1, <1>7, <1>8, <1>9 DEF Replaces, respawn_mining_task, tokens

\* An active job is a job, whichever way it came to be active.
LEMMA ActivatedJob ==
  ASSUME Typed, NEW job \in Job, NEW n \in MinNtimes
  PROVE  /\ lib_activated(channel, job, n) \in Job
         /\ lib_activated(channel, job, n).id = job.id
         /\ lib_activated(channel, job, n).activated_at = clock
BY MinerAssumption DEF lib_activated, Job, Typed, ChannelTyped, FlagsTyped, Channel

LEMMA Storing ==
  ASSUME Typed, NEW valid \in BOOLEAN, StoreJob(valid)
  PROVE  Handles /\ ChannelTyped'
<1> DEFINE job == [id |-> jobs + 1, min_ntime |-> 0, target |-> channel.target,
                   valid |-> valid, activated_at |-> 0]
           at(n) == [job EXCEPT !.min_ntime = n]
<1>1. /\ channel \in Channel /\ jobs \in Nat /\ jobs' = jobs + 1
      /\ channel.past_jobs \subseteq 1 .. jobs /\ channel.active_job.id \in 0 .. jobs
      /\ \A j \in channel.future_jobs : j.id \in 1 .. jobs
  BY DEF Typed, ChannelTyped, StoreJob
<1>2. job \in Job /\ \A n \in MinNtimes : at(n) \in Job /\ at(n).id = jobs + 1
  BY <1>1, MinerAssumption DEF Job, Channel
<1>3. job.id = jobs + 1
  OBVIOUS
<1>4. \/ WriteChannel(lib_store_future_job(channel, job), "idle")
      \/ \E n \in MinNtimes : WriteChannel(lib_activate_job(channel, at(n)), "respawn")
  BY DEF StoreJob
<1> HIDE DEF job, at
<1>5. CASE WriteChannel(lib_store_future_job(channel, job), "idle")
  <2>1. /\ channel' = [channel EXCEPT !.future_jobs = @ \cup {job}]
        /\ handler' = "idle" /\ handler = "idle"
        /\ UNCHANGED <<tasks, wire, single_submit, clock>>
    BY <1>5 DEF WriteChannel, lib_store_future_job, HandlerMayStart, tokens
  <2>2. ChannelTyped'
    BY <1>1, <1>2, <1>3, <2>1 DEF ChannelTyped, Channel
  <2>3. TakesJobs
    <3>1. /\ channel'.future_jobs = channel.future_jobs \cup {job}
          /\ channel'.past_jobs = channel.past_jobs
          /\ channel'.active_job = channel.active_job
          /\ channel'.chain_tip = channel.chain_tip
      BY <1>1, <2>1 DEF Channel
    <3>2. Waiting' = Waiting \cup {jobs'} /\ Known' = Known
      BY <1>1, <1>3, <3>1 DEF Waiting, Known
    <3> QED
      BY <1>1, <3>1, <3>2 DEF TakesJobs
  <2> QED
    BY <1>1, <2>1, <2>2, <2>3 DEF Handles, Channel, Typed, FlagsTyped
<1>6. ASSUME NEW n \in MinNtimes, WriteChannel(lib_activate_job(channel, at(n)), "respawn")
      PROVE  Handles /\ ChannelTyped'
  <2> DEFINE new == lib_activated(channel, at(n), at(n).min_ntime)
  <2>1. at(n).min_ntime = n
    BY <1>1, <1>2 DEF at, job
  <2>2. new \in Job /\ new.id = jobs + 1 /\ new.activated_at = clock
    BY <1>2, <2>1, ActivatedJob
  <2> HIDE DEF new
  <2>3. /\ channel' = [channel EXCEPT !.active_job = new,
                                      !.past_jobs = @ \cup ({channel.active_job.id} \ {0})]
        /\ handler' = "respawn"
        /\ UNCHANGED <<tasks, wire, single_submit, clock>>
    BY <1>6 DEF WriteChannel, lib_activate_job, tokens, new
  <2>4. /\ channel'.active_job = new /\ channel'.future_jobs = channel.future_jobs
        /\ channel'.past_jobs = channel.past_jobs \cup ({channel.active_job.id} \ {0})
        /\ channel'.chain_tip = channel.chain_tip
        /\ channel'.last_share_sequence_number = channel.last_share_sequence_number
    BY <1>1, <2>3 DEF Channel
  <2>5. /\ channel' \in Channel
        /\ channel'.past_jobs \subseteq 1 .. jobs
    <3>1. channel.past_jobs \cup ({channel.active_job.id} \ {0}) \subseteq 1 .. jobs
      BY <1>1
    <3>2. channel.past_jobs \cup ({channel.active_job.id} \ {0}) \in SUBSET Nat
      BY <1>1, <3>1
    <3> QED
      BY <1>1, <2>2, <2>3, <2>4, <3>1, <3>2 DEF Channel
  <2>6. ChannelTyped'
    BY <1>1, <2>2, <2>4, <2>5 DEF ChannelTyped
  <2>7. TakesJobs
    <3>1. Known' \subseteq Known \cup {jobs'} /\ Waiting' = Waiting
      BY <1>1, <2>2, <2>4 DEF Known, Waiting
    <3> QED
      BY <1>1, <2>2, <2>4, <3>1 DEF TakesJobs
  <2> QED
    BY <1>1, <2>2, <2>3, <2>4, <2>6, <2>7 DEF Handles, Typed, FlagsTyped
<1> QED
  BY <1>4, <1>5, <1>6

LEMMA Activating == ASSUME Typed, ActivateFutureJob  PROVE Handles /\ ChannelTyped'
<1> PICK job \in channel.future_jobs, n \in MinNtimes :
          WriteChannel(lib_on_set_new_prev_hash(channel, job, n), "respawn")
  BY DEF ActivateFutureJob
<1> DEFINE new == lib_activated(channel, job, n)
<1>1. /\ channel \in Channel /\ jobs \in Nat /\ jobs' = jobs
      /\ job.id \in 1 .. jobs /\ job \in Job
  BY DEF Typed, ChannelTyped, ActivateFutureJob, Channel
<1>2. new \in Job /\ new.id = job.id /\ new.activated_at = clock
  BY <1>1, ActivatedJob
<1> HIDE DEF new
<1>3. /\ channel' = [channel EXCEPT !.active_job = new, !.future_jobs = {},
                                    !.past_jobs = {}, !.chain_tip = @ + 1]
      /\ handler' = "respawn"
      /\ UNCHANGED <<tasks, wire, single_submit, clock>>
  BY DEF WriteChannel, lib_on_set_new_prev_hash, tokens, new
<1>4. /\ channel'.active_job = new /\ channel'.future_jobs = {}
      /\ channel'.past_jobs = {} /\ channel'.chain_tip \in Nat
      /\ channel'.last_share_sequence_number = channel.last_share_sequence_number
  BY <1>1, <1>3 DEF Channel
<1>5. ChannelTyped'
  <2>0. /\ new \in Job \cup {NoJob} /\ {} \in SUBSET Job /\ {} \in SUBSET Nat
        /\ channel.chain_tip + 1 \in Nat
    BY <1>1, <1>2 DEF Channel
  <2>1. channel' \in Channel
    BY <1>1, <1>3, <2>0 DEF Channel
  <2> QED
    BY <1>1, <1>2, <1>4, <2>1 DEF ChannelTyped
<1>6. TakesJobs
  <2>1. Known' = {channel'.active_job.id} /\ Waiting' = {} /\ job.id \in Waiting
    BY <1>4 DEF Known, Waiting
  <2> QED
    BY <1>1, <1>2, <1>4, <2>1 DEF TakesJobs
<1> QED
  BY <1>2, <1>3, <1>4, <1>5, <1>6 DEF Handles, Typed, FlagsTyped

LEMMA OtherSteps ==
  ASSUME Typed, CommonStep, ~respawn_mining_task
  PROVE  Handles /\ ChannelTyped'
<1>1. /\ channel \in Channel /\ jobs \in Nat /\ clock \in Nat
      /\ channel.target \in Targets
      /\ channel.acknowledged \in Nat /\ channel.rejected \in Nat
  BY DEF Typed, ChannelTyped, FlagsTyped, Channel
<1>2. CASE set_target
  <2>1. PICK n \in Targets : WriteChannel([channel EXCEPT !.target = n], "idle")
    BY <1>2 DEF set_target
  <2>2. /\ channel' = [channel EXCEPT !.target = n]
        /\ handler' = "idle" /\ handler = "idle"
        /\ UNCHANGED <<tasks, wire, single_submit, clock, jobs>>
    BY <1>2, <2>1 DEF WriteChannel, HandlerMayStart, tokens, set_target
  <2>3. ChannelTyped'
    BY <2>2 DEF Typed, ChannelTyped, Channel
  <2>4. TakesJobs
    BY <1>1, <2>2 DEF TakesJobs, Known, Waiting, Channel
  <2> QED
    BY <1>1, <2>2, <2>3, <2>4 DEF Handles, Channel
<1>3. CASE on_share_verdict
  <2>1. /\ \/ channel' = [channel EXCEPT !.acknowledged = @ + 1]
           \/ channel' = [channel EXCEPT !.rejected = @ + 1]
        /\ handler' = "idle" /\ handler = "idle"
        /\ UNCHANGED <<tasks, wire, single_submit, clock, jobs>>
    BY <1>3 DEF WriteChannel, HandlerMayStart, tokens, on_share_verdict
  <2>2. ChannelTyped'
    BY <2>1 DEF Typed, ChannelTyped, Channel
  <2>3. TakesJobs
    BY <1>1, <2>1 DEF TakesJobs, Known, Waiting, Channel
  <2> QED
    BY <1>1, <2>1, <2>2, <2>3 DEF Handles, Channel
<1>4. CASE Tick
  <2>1. UNCHANGED <<channel, tasks, handler, wire, jobs, single_submit>> /\ clock' = clock + 1
    BY <1>4 DEF Tick, tokens
  <2>2. TakesJobs
    BY <2>1 DEF TakesJobs, Known, Waiting
  <2> QED
    BY <1>1, <2>1, <2>2 DEF Handles, Typed, ChannelTyped
<1>5. CASE HandlerPoisoned \/ CloseMiner \/ LoopEnds \/ Shutdown \/ UpstreamCloses
           \/ Terminated
  <2>1. UNCHANGED <<channel, tasks, handler, wire, jobs, single_submit, clock>>
    BY <1>5 DEF HandlerPoisoned, CloseMiner, LoopEnds, Shutdown, UpstreamCloses,
                Terminated, vars, tokens
  <2>2. TakesJobs
    BY <2>1 DEF TakesJobs, Known, Waiting
  <2> QED
    BY <1>1, <2>1, <2>2 DEF Handles, Typed, ChannelTyped
<1> QED
  BY <1>2, <1>3, <1>4, <1>5 DEF CommonStep

\* A step of the miner is one of three.
LEMMA Classified ==
  ASSUME Typed, MinerNext
  PROVE  \/ Handles \/ Replaces
         \/ \E t \in DOMAIN tasks : Advances(t)
BY Storing, Activating, OtherSteps, Replacing, Advancing DEF MinerNext

-----------------------------------------------------------------------------
(* Types are kept *)

LEMMA FlagsKept == ASSUME Typed, MinerNext  PROVE FlagsTyped'
<1> USE DEF Typed, FlagsTyped, tokens
<1>1. CASE \E valid \in BOOLEAN : StoreJob(valid)
  BY <1>1 DEF StoreJob, WriteChannel
<1>2. CASE ActivateFutureJob
  BY <1>2 DEF ActivateFutureJob, WriteChannel
<1>3. CASE CommonStep
  <2>1. CASE respawn_mining_task \/ Tick
    BY <2>1 DEF respawn_mining_task, Tick
  <2>2. CASE set_target
    BY <2>2 DEF set_target, WriteChannel
  <2>3. CASE on_share_verdict
    BY <2>3 DEF on_share_verdict, WriteChannel
  <2>4. CASE HandlerPoisoned \/ CloseMiner \/ LoopEnds
    BY <2>4 DEF HandlerPoisoned, CloseMiner, LoopEnds
  <2>5. CASE Shutdown \/ UpstreamCloses \/ Terminated
    BY <2>5 DEF Shutdown, UpstreamCloses, Terminated, vars
  <2> QED
    BY <1>3, <2>1, <2>2, <2>3, <2>4, <2>5 DEF CommonStep
<1>4. ASSUME NEW t \in DOMAIN tasks, TaskStep(t)  PROVE FlagsTyped'
  <2>1. CASE CheckSingleSubmit(t) \/ SnapshotStep(t) \/ Select(t) \/ Resume(t)
    BY <2>1 DEF CheckSingleSubmit, SnapshotStep, Select, Resume, TaskOnly
  <2>2. CASE HashHeader(t)
    BY <2>2 DEF HashHeader, TaskOnly
  <2>3. CASE ValidateShare(t)
    BY <2>3 DEF ValidateShare
  <2>4. CASE SubmitShare(t)
    BY <2>4 DEF SubmitShare
  <2>5. CASE FinishSingleSubmit(t)
    BY <2>5 DEF FinishSingleSubmit
  <2> QED
    BY <1>4, <2>1, <2>2, <2>3, <2>4, <2>5 DEF TaskStep, MiningLoop
<1> QED
  BY <1>1, <1>2, <1>3, <1>4 DEF MinerNext

LEMMA AdvanceTyped ==
  ASSUME Typed, NEW t \in DOMAIN tasks, Advances(t)
  PROVE  ChannelTyped' /\ TasksTyped'
<1>1. tasks[t] \in Task /\ t \in 1 .. Len(tasks)
  BY TaskTyped
<1>2. ChannelTyped'
  <2>1. CASE UNCHANGED channel
    BY <2>1 DEF Advances, Alone, Typed, ChannelTyped
  <2>2. CASE channel' = [channel EXCEPT !.last_share_sequence_number = @ + 1]
    <3>1. channel \in Channel
      BY DEF Typed, ChannelTyped
    <3>2. /\ channel' \in Channel /\ channel'.past_jobs = channel.past_jobs
          /\ channel'.active_job = channel.active_job
          /\ channel'.future_jobs = channel.future_jobs
      BY <2>2, <3>1 DEF Channel
    <3> QED
      BY <3>2 DEF Advances, Alone, Typed, ChannelTyped
  <2> QED
    BY <2>1, <2>2 DEF Advances, GoesOn, Reads, Finds, Accepts, Submits
<1>3. wire' \in Seq(Share)
  <2>1. CASE UNCHANGED wire
    BY <2>1 DEF Typed, TasksTyped
  <2>2. CASE Submits(t)
    BY <2>2, AppendProperties DEF Submits, Typed, TasksTyped, Holding
  <2> QED
    BY <2>1, <2>2 DEF Advances, GoesOn, Reads, Finds, Accepts
<1>4. /\ tasks'[t].pc \in Busy => tasks'[t].job \in Job
      /\ tasks'[t].pc \in Holding => tasks'[t].share \in Share
      /\ tasks'[t].started <= clock'
  <2>1. CASE GoesOn(t)
    BY <2>1 DEF Advances, Alone, GoesOn, SameWork, Moves, Busy, Holding, Typed, TasksTyped
  <2>2. CASE Reads(t)
    BY <2>2 DEF Advances, Alone, Reads, Busy, Holding, Typed, ChannelTyped, FlagsTyped, Channel
  <2>3. CASE Finds(t)
    <3>1. \A h \in Hashes : new_share(t, h) \in Share
      BY <2>3, NewShareTyped DEF Finds, Busy
    <3> QED
      BY <2>3, <3>1 DEF Advances, Alone, Finds, SameWork, Busy, Typed, TasksTyped
  <2>4. CASE Accepts(t)
    <3>1. /\ tasks[t].share \in Share /\ tasks[t].job \in Job
          /\ tasks[t].started <= clock
          /\ channel.last_share_sequence_number + 1 \in Nat
      BY <2>4 DEF Accepts, Typed, TasksTyped, ChannelTyped, Channel, Busy, Holding
    <3>2. tasks'[t].share \in Share
      BY <2>4, <3>1 DEF Accepts, Share
    <3> QED
      BY <2>4, <3>1, <3>2 DEF Advances, Alone, Accepts, SameWork
  <2>5. CASE Submits(t)
    BY <2>5 DEF Advances, Alone, Submits, SameWork, Busy, Holding, Typed, TasksTyped
  <2> QED
    BY <2>1, <2>2, <2>3, <2>4, <2>5 DEF Advances
<1> QED
  BY <1>2, <1>3, <1>4 DEF Advances, Alone, Typed, TasksTyped

LEMMA TypedNext == Typed /\ [MinerNext]_vars => Typed'
<1> SUFFICES ASSUME Typed, [MinerNext]_vars  PROVE Typed'
  OBVIOUS
<1>1. CASE MinerNext
  <2>1. FlagsTyped'
    BY <1>1, FlagsKept
  <2>2. CASE Handles /\ ChannelTyped'
    <3>1. \A t \in DOMAIN tasks : tasks[t].started \in Nat
      BY TaskTyped DEF Task
    <3>2. TasksTyped'
      BY <2>2, <3>1 DEF Handles, Typed, TasksTyped, FlagsTyped
    <3> QED
      BY <2>1, <2>2, <3>2 DEF Typed
  <2>3. CASE Replaces
    <3>1. ChannelTyped'
      BY <2>3 DEF Replaces, Typed, ChannelTyped
    <3>2. TasksTyped'
      <4>1. Len(tasks) \in Nat /\ DOMAIN tasks = 1 .. Len(tasks)
        BY LenProperties DEF Typed, TasksTyped
      <4>2. /\ NewTask.pc \notin Busy /\ NewTask.pc \notin Holding /\ NewTask.started = 0
            /\ clock \in Nat
        BY DEF NewTask, Busy, Holding, Typed, FlagsTyped
      <4> QED
        BY <2>3, <4>1, <4>2 DEF Replaces, Typed, TasksTyped
    <3> QED
      BY <2>1, <3>1, <3>2 DEF Typed
  <2>4. CASE \E t \in DOMAIN tasks : Advances(t)
    BY <2>1, <2>4, AdvanceTyped DEF Typed
  <2> QED
    BY <1>1, <2>2, <2>3, <2>4, Storing, Activating, OtherSteps, Replacing, Advancing
    DEF MinerNext
<1>2. CASE UNCHANGED vars
  BY <1>2 DEF vars, tokens, Typed, ChannelTyped, TasksTyped, FlagsTyped
<1> QED
  BY <1>1, <1>2

-----------------------------------------------------------------------------
(* The invariants, made inductive *)

\* No number is above the last one used.
Numbered ==
  /\ \A i \in DOMAIN wire : wire[i].seq <= channel.last_share_sequence_number
  /\ \A t \in Sending : tasks[t].share.seq <= channel.last_share_sequence_number
  /\ SequenceNumbersUnique

\* A share is worth its job from validation on.
Worthy ==
  /\ \A t \in Sending : tasks[t].share.hash <= tasks[t].share.job.target
  /\ SharesMeetTheirJob

Timely(share) ==
  /\ share.job.min_ntime <= share.ntime
  /\ share.ntime <= share.job.min_ntime + (share.hashed_at - share.job.activated_at)

\* Jobs become active before tasks start on them, and shares are timely from
\* the start.
InTime ==
  /\ channel.active_job # NoJob => channel.active_job.activated_at <= clock
  /\ \A t \in DOMAIN tasks :
       /\ tasks[t].pc \in Busy => tasks[t].job.activated_at <= tasks[t].started
       /\ tasks[t].pc \in Holding => Timely(tasks[t].share)
  /\ \A i \in DOMAIN wire : Timely(wire[i])

\* A task that was late once has no way back to the hash.
LateOnce ==
  \A t \in DOMAIN tasks :
    \/ tasks[t].late = 0
    \/ /\ tasks[t].late = 1 /\ tasks[t].cancelled
       /\ tasks[t].pc \in {"send", "sent", "select", "done"}

\* Under single_submit a task whose share is on the wire is past its loop.
OneEach ==
  /\ \A t \in DOMAIN tasks : tasks[t].pc \in Holding => tasks[t].share.task = t
  /\ single_submit =>
       /\ \A i \in DOMAIN wire :
            /\ wire[i].task \in DOMAIN tasks
            /\ tasks[wire[i].task].pc \in {"sent", "done"}
       /\ \A i, j \in DOMAIN wire : wire[i].task = wire[j].task => i = j

\* A task works on a job that no chain tip is to come for, and as long as the channel
\* takes its shares the tip it has read is the channel's.
UpToDate ==
  /\ channel.active_job.id \notin Waiting
  /\ \A t \in DOMAIN tasks : tasks[t].pc \in Busy =>
       /\ tasks[t].job.id \in 0 .. jobs \ Waiting
       /\ tasks[t].job.id \in Known => tasks[t].tip = channel.chain_tip
  /\ \A t \in DOMAIN tasks : tasks[t].pc = "found" => tasks[t].share.job = tasks[t].job

LEMMA WireFacts ==
  ASSUME Typed
  PROVE  /\ Len(wire) \in Nat /\ DOMAIN wire = 1 .. Len(wire)
         /\ \A i \in DOMAIN wire : wire[i] \in Share
         /\ \A t \in Sending : tasks[t].share \in Share
         /\ channel.last_share_sequence_number \in Nat
BY LenProperties, ElementOfSeq
DEF Typed, TasksTyped, ChannelTyped, Channel, Sending, Holding

LEMMA TasksFacts ==
  ASSUME Typed
  PROVE  /\ Len(tasks) \in Nat /\ DOMAIN tasks = 1 .. Len(tasks)
         /\ Len(tasks) + 1 \notin DOMAIN tasks
BY LenProperties DEF Typed, TasksTyped

\* A submitted share is the last on the wire.
LEMMA Appended ==
  ASSUME Typed, NEW t \in DOMAIN tasks, Submits(t)
  PROVE  /\ DOMAIN wire' = DOMAIN wire \cup {Len(wire) + 1}
         /\ Len(wire) + 1 \notin DOMAIN wire
         /\ \A i \in DOMAIN wire : wire'[i] = wire[i]
         /\ wire'[Len(wire) + 1] = tasks[t].share
<1>1. wire \in Seq(Share) /\ tasks[t].share \in Share
  BY DEF Typed, TasksTyped, Submits, Holding
<1>2. /\ wire' \in Seq(Share) /\ Len(wire') = Len(wire) + 1
      /\ \A i \in 1 .. Len(wire) : wire'[i] = wire[i]
      /\ wire'[Len(wire) + 1] = tasks[t].share
  BY <1>1, AppendProperties DEF Submits
<1>3. /\ Len(wire) \in Nat /\ DOMAIN wire = 1 .. Len(wire)
      /\ DOMAIN wire' = 1 .. Len(wire) + 1
  BY <1>1, <1>2, LenProperties
<1> QED
  BY <1>2, <1>3

\* What is sent stays as it was when the last number does and no task begins
\* to send.
LEMMA NothingNewToSend ==
  ASSUME UNCHANGED wire,
         channel'.last_share_sequence_number = channel.last_share_sequence_number,
         Sending' \subseteq Sending,
         \A u \in Sending' : tasks'[u].share = tasks[u].share
  PROVE  (Numbered => Numbered') /\ (Worthy => Worthy')
BY DEF Numbered, SequenceNumbersUnique, Worthy, SharesMeetTheirJob

LEMMA QuietSteps ==
  ASSUME Typed,
         \/ Handles \/ Replaces
         \/ \E t \in DOMAIN tasks : Alone(t) /\ (GoesOn(t) \/ Reads(t) \/ Finds(t))
  PROVE  /\ UNCHANGED wire
         /\ channel'.last_share_sequence_number = channel.last_share_sequence_number
         /\ Sending' \subseteq Sending
         /\ \A u \in Sending' : tasks'[u].share = tasks[u].share
<1>1. CASE Handles
  BY <1>1 DEF Handles, Sending
<1>2. CASE Replaces
  BY <1>2, TasksFacts DEF Replaces, Sending, NewTask
<1>3. ASSUME NEW t \in DOMAIN tasks, Alone(t), GoesOn(t) \/ Reads(t) \/ Finds(t)
      PROVE  /\ UNCHANGED <<wire, channel>>
             /\ Sending' \subseteq Sending
             /\ \A u \in Sending' : tasks'[u].share = tasks[u].share
  BY <1>3 DEF Alone, GoesOn, Reads, Finds, Moves, Sending
<1> QED
  BY <1>1, <1>2, <1>3

LEMMA SharesKept ==
  ASSUME Typed, Numbered, Worthy, [MinerNext]_vars
  PROVE  Numbered' /\ Worthy'
<1>1. CASE UNCHANGED vars
  <2>1. UNCHANGED <<wire, channel, tasks>>
    BY <1>1 DEF vars
  <2> QED
    BY <2>1, NothingNewToSend DEF Sending
<1>2. CASE Handles \/ Replaces
  BY <1>2, QuietSteps, NothingNewToSend
<1>3. ASSUME NEW t \in DOMAIN tasks, Advances(t)  PROVE Numbered' /\ Worthy'
  <2>0. Alone(t) /\ DOMAIN tasks' = DOMAIN tasks
    BY <1>3 DEF Advances, Alone
  <2>1. CASE GoesOn(t) \/ Reads(t) \/ Finds(t)
    BY <2>0, <2>1, QuietSteps, NothingNewToSend
  <2>2. CASE Accepts(t)
    <3> DEFINE last == channel.last_share_sequence_number
    <3>1. /\ Sending' = Sending \cup {t} /\ t \notin Sending
          /\ \A u \in Sending : tasks'[u].share = tasks[u].share
          /\ UNCHANGED wire
      BY <2>0, <2>2 DEF Alone, Accepts, Sending
    <3>2. /\ tasks[t].share \in Share /\ last \in Nat /\ last + 1 \in Nat
          /\ channel \in Channel
      BY <2>2 DEF Typed, TasksTyped, ChannelTyped, Channel, Holding, Accepts
    <3>3. /\ channel'.last_share_sequence_number = last + 1
          /\ tasks'[t].share.seq = last + 1
          /\ tasks'[t].share.hash <= tasks'[t].share.job.target
      BY <2>2, <3>2 DEF Accepts, Channel, Share
    <3>4. /\ \A i \in DOMAIN wire : wire[i].seq \in Nat
          /\ \A u \in Sending : tasks[u].share.seq \in Nat
      BY WireFacts DEF Share
    <3> HIDE DEF last
    <3>5. /\ \A i \in DOMAIN wire : wire[i].seq < last + 1
          /\ \A u \in Sending : tasks[u].share.seq < last + 1
      BY <3>2, <3>4 DEF Numbered, last
    <3>6. Numbered'
      BY <3>1, <3>2, <3>3, <3>4, <3>5 DEF Numbered, SequenceNumbersUnique
    <3> QED
      BY <3>1, <3>3, <3>6 DEF Worthy, SharesMeetTheirJob
  <2>3. CASE Submits(t)
    <3>1. /\ Sending' = Sending \ {t} /\ t \in Sending
          /\ \A u \in Sending' : tasks'[u].share = tasks[u].share
          /\ UNCHANGED channel
      BY <2>0, <2>3 DEF Alone, Submits, Sending
    <3>2. /\ DOMAIN wire' = DOMAIN wire \cup {Len(wire) + 1}
          /\ Len(wire) + 1 \notin DOMAIN wire
          /\ \A i \in DOMAIN wire : wire'[i] = wire[i]
          /\ wire'[Len(wire) + 1] = tasks[t].share
      BY <2>3, Appended
    <3>3. SequenceNumbersUnique'
      BY <3>1, <3>2 DEF Numbered, SequenceNumbersUnique
    <3>4. Numbered'
      BY <3>1, <3>2, <3>3 DEF Numbered
    <3> QED
      BY <3>1, <3>2, <3>4 DEF Worthy, SharesMeetTheirJob
  <2> QED
    BY <1>3, <2>1, <2>2, <2>3 DEF Advances
<1> QED
  BY <1>1, <1>2, <1>3, Classified

\* A share found now is timely, for its job was active when the task read it.
LEMMA NewShareTimely ==
  ASSUME Typed, NEW t \in DOMAIN tasks, NEW h \in Hashes, tasks[t].pc \in Busy,
         tasks[t].job.activated_at <= tasks[t].started
  PROVE  Timely(new_share(t, h))
<1>1. /\ tasks[t].job \in Job /\ tasks[t].started \in Nat
      /\ tasks[t].started <= clock /\ clock \in Nat
  BY TaskTyped DEF Typed, TasksTyped, FlagsTyped, Task
<1>2. /\ tasks[t].job.min_ntime \in 0 .. MaxNtime /\ tasks[t].job.activated_at \in Nat
  BY <1>1 DEF Job
<1> QED
  BY <1>1, <1>2, MinerAssumption DEF Timely, new_share, saturating_add

LEMMA InTimeKept == Typed /\ InTime /\ [MinerNext]_vars => InTime'
<1> SUFFICES ASSUME Typed, InTime, [MinerNext]_vars  PROVE InTime'
  OBVIOUS
<1>1. CASE UNCHANGED vars
  BY <1>1 DEF vars, InTime, Timely
<1>2. CASE Handles
  <2>1. /\ channel.active_job # NoJob => channel.active_job.activated_at \in Nat
        /\ clock \in Nat
    BY DEF Typed, ChannelTyped, FlagsTyped, Channel, Job
  <2> QED
    BY <1>2, <2>1 DEF Handles, InTime, Timely
<1>3. CASE Replaces
  BY <1>3, TasksFacts DEF Replaces, InTime, Timely, NewTask, Busy, Holding
<1>4. ASSUME NEW t \in DOMAIN tasks, Advances(t)  PROVE InTime'
  <2>1. /\ DOMAIN tasks' = DOMAIN tasks
        /\ \A u \in DOMAIN tasks : u # t => tasks'[u] = tasks[u]
        /\ UNCHANGED clock
    BY <1>4 DEF Advances, Alone
  <2>2. CASE GoesOn(t)
    BY <2>1, <2>2 DEF GoesOn, SameWork, Moves, InTime, Timely, Busy, Holding
  <2>3. CASE Reads(t)
    BY <2>1, <2>3 DEF Reads, InTime, Timely, Holding
  <2>4. CASE Finds(t)
    <3>1. tasks[t].pc \in Busy /\ tasks[t].job.activated_at <= tasks[t].started
      BY <2>4 DEF Finds, Busy, InTime
    <3>2. Timely(tasks'[t].share)
      BY <2>4, <3>1, NewShareTimely DEF Finds
    <3> QED
      BY <2>1, <2>4, <3>1, <3>2 DEF Finds, SameWork, InTime, Timely
  <2>5. CASE Accepts(t)
    <3>1. /\ tasks[t].pc \in Busy /\ tasks[t].share \in Share /\ channel \in Channel
          /\ Timely(tasks[t].share)
      BY <2>5 DEF Accepts, Busy, Holding, Typed, TasksTyped, ChannelTyped, InTime
    <3>2. Timely(tasks'[t].share)
      BY <2>5, <3>1 DEF Accepts, Timely, Share
    <3>3. channel'.active_job = channel.active_job
      BY <2>5, <3>1 DEF Accepts, Channel
    <3> QED
      BY <2>1, <2>5, <3>1, <3>2, <3>3 DEF Accepts, SameWork, InTime, Timely
  <2>6. CASE Submits(t)
    <3>1. Timely(tasks[t].share) /\ tasks[t].pc \in Busy /\ tasks'[t].pc \notin Holding
      BY <2>6 DEF Submits, InTime, Busy, Holding
    <3>2. \A i \in DOMAIN wire' : Timely(wire'[i])
      BY <2>6, <3>1, Appended DEF InTime
    <3> QED
      BY <2>1, <2>6, <3>1, <3>2 DEF Submits, SameWork, InTime, Timely
  <2> QED
    BY <1>4, <2>2, <2>3, <2>4, <2>5, <2>6 DEF Advances
<1> QED
  BY <1>1, <1>2, <1>3, <1>4, Classified

LEMMA LateOnceKept == Typed /\ LateOnce /\ [MinerNext]_vars => LateOnce'
<1> SUFFICES ASSUME Typed, LateOnce, [MinerNext]_vars  PROVE LateOnce'
  OBVIOUS
<1>1. CASE UNCHANGED tasks
  BY <1>1 DEF LateOnce
<1>2. CASE Replaces
  BY <1>2, TasksFacts DEF Replaces, LateOnce, NewTask
<1>3. ASSUME NEW t \in DOMAIN tasks, Advances(t)  PROVE LateOnce'
  <2>1. /\ DOMAIN tasks' = DOMAIN tasks
        /\ \A u \in DOMAIN tasks : u # t => tasks'[u] = tasks[u]
        /\ tasks'[t].cancelled = tasks[t].cancelled
    BY <1>3 DEF Advances, Alone
  <2>2. \/ tasks'[t].late = 0
        \/ /\ tasks'[t].late = 1 /\ tasks'[t].cancelled
           /\ tasks'[t].pc \in {"send", "sent", "select", "done"}
    <3>1. CASE GoesOn(t)
      BY <2>1, <3>1 DEF GoesOn, Moves, LateOnce
    <3>2. CASE Reads(t) \/ Finds(t)
      BY <3>2 DEF Reads, Finds, LateOnce
    <3>3. CASE Accepts(t)
      BY <2>1, <3>3 DEF Accepts, LateOnce
    <3>4. CASE Submits(t)
      BY <2>1, <3>4 DEF Submits, LateOnce
    <3> QED
      BY <1>3, <3>1, <3>2, <3>3, <3>4 DEF Advances
  <2> QED
    BY <2>1, <2>2 DEF LateOnce
<1> QED
  BY <1>1, <1>2, <1>3, Classified DEF Handles, vars

LEMMA OneEachKept == Typed /\ OneEach /\ [MinerNext]_vars => OneEach'
<1> SUFFICES ASSUME Typed, OneEach, [MinerNext]_vars  PROVE OneEach'
  OBVIOUS
<1>1. CASE UNCHANGED <<tasks, wire, single_submit>>
  BY <1>1 DEF OneEach
<1>2. CASE Replaces
  BY <1>2, TasksFacts DEF Replaces, OneEach, NewTask, Holding
<1>3. ASSUME NEW t \in DOMAIN tasks, Advances(t)  PROVE OneEach'
  <2>1. /\ DOMAIN tasks' = DOMAIN tasks
        /\ \A u \in DOMAIN tasks : u # t => tasks'[u] = tasks[u]
        /\ UNCHANGED single_submit
    BY <1>3 DEF Advances, Alone
  <2>2. tasks'[t].pc \in Holding => tasks'[t].share.task = t
    <3>1. CASE GoesOn(t) \/ Reads(t) \/ Submits(t)
      BY <3>1 DEF GoesOn, Reads, Submits, Moves, Holding
    <3>2. CASE Finds(t)
      BY <3>2 DEF Finds, new_share
    <3>3. CASE Accepts(t)
      BY <3>3 DEF Accepts, OneEach, Typed, TasksTyped, Holding, Share
    <3> QED
      BY <1>3, <3>1, <3>2, <3>3 DEF Advances
  <2>3. CASE GoesOn(t)
    BY <2>1, <2>2, <2>3 DEF GoesOn, Moves, OneEach
  <2>4. CASE Reads(t) \/ Finds(t) \/ Accepts(t)
    BY <2>1, <2>2, <2>4 DEF Reads, Finds, Accepts, OneEach
  <2>5. CASE Submits(t)
    <3>1. tasks[t].share.task = t /\ tasks[t].pc = "send"
      BY <2>5 DEF Submits, OneEach, Holding
    <3>2. single_submit => /\ tasks'[t].pc = "sent"
                           /\ \A i \in DOMAIN wire : wire[i].task # t
      BY <2>5, <3>1 DEF Submits, OneEach
    <3> QED
      BY <2>1, <2>2, <2>5, <3>1, <3>2, Appended DEF OneEach
  <2> QED
    BY <1>3, <2>3, <2>4, <2>5 DEF Advances
<1> QED
  BY <1>1, <1>2, <1>3, Classified DEF Handles, vars, tokens

LEMMA StopKept == Typed /\ OnlyCurrentTaskGoesOn /\ [MinerNext]_vars => OnlyCurrentTaskGoesOn'
<1> SUFFICES ASSUME Typed, OnlyCurrentTaskGoesOn, [MinerNext]_vars
             PROVE  OnlyCurrentTaskGoesOn'
  OBVIOUS
<1>1. CASE UNCHANGED tasks
  BY <1>1 DEF OnlyCurrentTaskGoesOn, Current
<1>2. CASE Replaces
  BY <1>2, TasksFacts DEF Replaces, OnlyCurrentTaskGoesOn, Current
<1>3. ASSUME NEW t \in DOMAIN tasks, Advances(t)  PROVE OnlyCurrentTaskGoesOn'
  BY <1>3 DEF Advances, Alone, OnlyCurrentTaskGoesOn, Current
<1> QED
  BY <1>1, <1>2, <1>3, Classified DEF Handles, vars

LEMMA CurrentKept ==
  Typed /\ CurrentTaskMinesActiveJob /\ [MinerNext]_vars => CurrentTaskMinesActiveJob'
<1> SUFFICES ASSUME Typed, CurrentTaskMinesActiveJob, [MinerNext]_vars
             PROVE  CurrentTaskMinesActiveJob'
  OBVIOUS
<1>1. CASE UNCHANGED vars \/ Handles
  BY <1>1 DEF vars, Handles, CurrentTaskMinesActiveJob, Current
<1>2. CASE Replaces
  BY <1>2, TasksFacts DEF Replaces, CurrentTaskMinesActiveJob, Current, NewTask
<1>3. ASSUME NEW t \in DOMAIN tasks, Advances(t)  PROVE CurrentTaskMinesActiveJob'
  <2>1. /\ DOMAIN tasks' = DOMAIN tasks /\ Len(tasks') = Len(tasks)
        /\ \A u \in DOMAIN tasks : u # t => tasks'[u] = tasks[u]
        /\ UNCHANGED handler
    BY <1>3 DEF Advances, Alone
  <2>2. /\ channel'.active_job = channel.active_job
        /\ channel'.chain_tip = channel.chain_tip
    BY <1>3 DEF Advances, GoesOn, Reads, Finds, Accepts, Submits, Typed, ChannelTyped, Channel
  <2>3. Len(tasks) > 0 => Len(tasks) \in DOMAIN tasks
    BY TasksFacts
  <2>4. CASE Reads(t)
    BY <2>1, <2>2, <2>3, <2>4 DEF Reads, CurrentTaskMinesActiveJob, Current
  <2>5. CASE GoesOn(t)
    BY <2>1, <2>2, <2>3, <2>5
    DEF GoesOn, SameWork, Moves, CurrentTaskMinesActiveJob, Current, Finished
  <2>6. CASE Finds(t) \/ Accepts(t) \/ Submits(t)
    BY <2>1, <2>2, <2>3, <2>6
    DEF Finds, Accepts, Submits, SameWork, CurrentTaskMinesActiveJob, Current, Finished
  <2> QED
    BY <1>3, <2>4, <2>5, <2>6 DEF Advances
<1> QED
  BY <1>1, <1>2, <1>3, Classified

LEMMA UpToDateKept == Typed /\ UpToDate /\ [MinerNext]_vars => UpToDate'
<1> SUFFICES ASSUME Typed, UpToDate, [MinerNext]_vars  PROVE UpToDate'
  OBVIOUS
<1>0. /\ jobs \in Nat /\ channel.active_job.id \in 0 .. jobs
      /\ Waiting \subseteq 1 .. jobs /\ Known \subseteq 0 .. jobs
  BY DEF Typed, ChannelTyped, Waiting, Known
<1>1. CASE UNCHANGED vars
  BY <1>1 DEF vars, UpToDate, Waiting, Known
<1>2. CASE Handles
  <2>1. UNCHANGED tasks /\ TakesJobs
    BY <1>2 DEF Handles
  <2>2. CASE UNCHANGED <<jobs, Known, Waiting, channel.active_job, channel.chain_tip>>
    BY <2>1, <2>2 DEF UpToDate
  <2>3. CASE /\ jobs' = jobs + 1
             /\ UNCHANGED <<Known, channel.active_job, channel.chain_tip>>
             /\ Waiting' = Waiting \cup {jobs'}
    BY <1>0, <2>1, <2>3 DEF UpToDate
  <2>4. CASE /\ jobs' = jobs + 1
             /\ UNCHANGED <<Waiting, channel.chain_tip>>
             /\ channel'.active_job.id = jobs' /\ Known' \subseteq Known \cup {jobs'}
    BY <1>0, <2>1, <2>4 DEF UpToDate
  <2>5. CASE /\ UNCHANGED jobs
             /\ channel'.active_job.id \in Waiting
             /\ Known' = {channel'.active_job.id} /\ Waiting' = {}
    BY <1>0, <2>1, <2>5 DEF UpToDate
  <2> QED
    BY <2>1, <2>2, <2>3, <2>4, <2>5, Zenon DEF TakesJobs
<1>3. CASE Replaces
  <2>1. UNCHANGED <<Known, Waiting, channel, jobs>>
    BY <1>3 DEF Replaces, Known, Waiting
  <2> QED
    BY <1>3, <2>1, TasksFacts DEF Replaces, UpToDate, NewTask, Busy
<1>4. ASSUME NEW t \in DOMAIN tasks, Advances(t)  PROVE UpToDate'
  <2>1. /\ DOMAIN tasks' = DOMAIN tasks
        /\ \A u \in DOMAIN tasks : u # t => tasks'[u] = tasks[u]
        /\ UNCHANGED jobs
    BY <1>4 DEF Advances, Alone
  <2>2. UNCHANGED <<Known, Waiting, channel.active_job, channel.chain_tip>>
    BY <1>4 DEF Advances, GoesOn, Reads, Finds, Accepts, Submits, Typed, ChannelTyped,
                Channel, Known, Waiting
  <2>3. CASE GoesOn(t)
    BY <2>1, <2>2, <2>3 DEF GoesOn, SameWork, Moves, UpToDate, Busy
  <2>4. CASE Reads(t)
    BY <1>0, <2>1, <2>2, <2>4 DEF Reads, UpToDate
  <2>5. CASE Finds(t)
    <3>1. tasks'[t].share.job = tasks[t].job
      BY <2>5 DEF Finds, new_share
    <3> QED
      BY <2>1, <2>2, <2>5, <3>1 DEF Finds, SameWork, UpToDate, Busy
  <2>6. CASE Accepts(t) \/ Submits(t)
    BY <2>1, <2>2, <2>6 DEF Accepts, Submits, SameWork, UpToDate, Busy
  <2> QED
    BY <1>4, <2>3, <2>4, <2>5, <2>6 DEF Advances
<1> QED
  BY <1>1, <1>2, <1>3, <1>4, Classified

\* Only validation makes a found share one to send.
LEMMA AcceptsUpToDate ==
  ASSUME Typed, UpToDate, [MinerNext]_vars,
         NEW t \in DOMAIN tasks, tasks[t].pc = "found", tasks'[t].pc = "send"
  PROVE  tasks[t].tip = channel.chain_tip
<1>1. CASE UNCHANGED tasks
  BY <1>1
<1>2. CASE Replaces
  BY <1>2 DEF Replaces
<1>3. ASSUME NEW u \in DOMAIN tasks, Advances(u)  PROVE tasks[t].tip = channel.chain_tip
  <2>1. u = t
    BY <1>3 DEF Advances, Alone
  <2>2. Accepts(t)
    BY <1>3, <2>1 DEF Advances, GoesOn, Moves, Reads, Finds, Submits
  <2> QED
    BY <2>2 DEF Accepts, UpToDate, Busy
<1> QED
  BY <1>1, <1>2, <1>3, Classified DEF Handles, vars

-----------------------------------------------------------------------------
(* Together *)

MinerInv ==
  /\ Typed /\ Numbered /\ Worthy /\ InTime /\ LateOnce /\ OneEach /\ UpToDate
  /\ OnlyCurrentTaskGoesOn /\ CurrentTaskMinesActiveJob

LEMMA MinerInvInit == MiningInit => MinerInv
<1> SUFFICES ASSUME MiningInit  PROVE MinerInv
  OBVIOUS
<1>1. Typed
  BY TypedInit
<1>2. /\ DOMAIN tasks = {} /\ DOMAIN wire = {} /\ Len(tasks) = 0
      /\ channel.active_job = NoJob
  BY DEF MiningInit
<1>3. Sending = {}
  BY <1>2 DEF Sending
<1>4. UpToDate
  BY <1>2 DEF MiningInit, UpToDate, Waiting
<1> QED
  BY <1>1, <1>2, <1>3, <1>4
  DEF MinerInv, Numbered, SequenceNumbersUnique, Worthy, SharesMeetTheirJob, InTime,
      LateOnce, OneEach, OnlyCurrentTaskGoesOn, CurrentTaskMinesActiveJob, Current

LEMMA MinerInvKept == MinerInv /\ [MinerNext]_vars => MinerInv'
BY TypedNext, SharesKept, InTimeKept, LateOnceKept, OneEachKept, UpToDateKept, StopKept,
   CurrentKept
DEF MinerInv

\* What it is for: each invariant follows from one part of MinerInv.
LEMMA MinerInvSuffices ==
  ASSUME MinerInv
  PROVE  /\ TypeOK
         /\ SequenceNumbersUnique
         /\ SharesMeetTheirJob
         /\ NtimeWithinClock
         /\ AtMostOneLateShare
         /\ OneSharePerTask
         /\ OnlyCurrentTaskGoesOn
         /\ CurrentTaskMinesActiveJob
<1>1. TypeOK
  BY TypedImpliesTypeOK DEF MinerInv
<1>2. SequenceNumbersUnique /\ SharesMeetTheirJob
  BY DEF MinerInv, Numbered, Worthy
<1>3. NtimeWithinClock
  BY DEF MinerInv, InTime, Timely, NtimeWithinClock
<1>4. AtMostOneLateShare
  BY DEF MinerInv, LateOnce, AtMostOneLateShare
<1>5. OneSharePerTask
  <2> SUFFICES ASSUME single_submit, NEW t \in DOMAIN tasks
               PROVE  Cardinality(SharesOf(t)) <= 1
    BY DEF OneSharePerTask
  <2>1. \A i, j \in SharesOf(t) : i = j
    BY DEF MinerInv, OneEach, SharesOf
  <2>2. CASE SharesOf(t) = {}
    BY <2>2, FS_EmptySet
  <2>3. ASSUME NEW i \in SharesOf(t)  PROVE Cardinality(SharesOf(t)) <= 1
    <3>1. SharesOf(t) = {i}
      BY <2>1
    <3>2. Cardinality(SharesOf(t)) = 1
      BY <3>1, FS_Singleton
    <3> QED
      BY <3>2
  <2> QED
    BY <2>2, <2>3
<1> QED
  BY <1>1, <1>2, <1>3, <1>4, <1>5 DEF MinerInv

=============================================================================
