----------------------------- MODULE ChannelMiner -----------------------------
(***************************************************************************)
(* One open channel and the tasks hashing on it: what StandardChannelMiner *)
(* (miner/standard.rs) and ExtendedChannelMiner (miner/extended.rs) have   *)
(* in common.  The two modules of those names add what differs: which jobs *)
(* a channel takes and what a task reads before it starts hashing.         *)
(*                                                                         *)
(* The actors run on a multi-threaded tokio runtime: the client's task,    *)
(* which runs the message handlers one after another, and every mining     *)
(* task ever spawned for the channel.  A handler writes the channel under  *)
(* its lock and replaces the mining task after it has let the lock go, so  *)
(* the two are separate actions and mining tasks run in between.  A mining *)
(* task is split at every point where it takes the lock, awaits, or looks  *)
(* at a cancellation token.                                                *)
(*                                                                         *)
(* The channel itself is a client channel of the external crate            *)
(* channels_sv2; the lib_ operators below say what the miners rely on.     *)
(*                                                                         *)
(* A definition named after another with a suffix, and introduced as a     *)
(* slip, is no part of the model: it is a mistake one could make in the    *)
(* definition that follows it, kept to see that the properties notice.     *)
(***************************************************************************)
EXTENDS Integers, Sequences, FiniteSets

CONSTANTS
  SubmitModes,     \* values of the configuration's single_submit to consider
  Targets,         \* targets the server assigns: smaller is harder
  Hashes,          \* what a header may hash to
  MinNtimes,       \* min_ntime values on the wire
  MaxNtime,        \* u32::MAX
  TipFirst,        \* does the server announce a chain tip before an active job?
  LocksMayPoison,  \* may validate_share panic under the write lock?
  MaxJobs, MaxTips, MaxTasks, MaxShares, MaxVerdicts, MaxClock  \* bounds of the model

ASSUME MinerAssumption ==
  /\ SubmitModes \subseteq BOOLEAN /\ SubmitModes # {}
  /\ Targets \subseteq Nat /\ Targets # {}
  /\ Hashes \subseteq Nat
  /\ MaxNtime \in Nat
  /\ MinNtimes \subseteq 0..MaxNtime
  /\ TipFirst \in BOOLEAN
  /\ LocksMayPoison \in BOOLEAN
  /\ {MaxJobs, MaxTips, MaxTasks, MaxShares, MaxVerdicts, MaxClock} \subseteq Nat

VARIABLES
  channel,      \* the channel behind the lock
  poisoned,     \* did a task panic while it held the write lock?
  tasks,        \* every mining task spawned for the channel, oldest first
  handler,      \* "idle", or "respawn" while a handler has yet to replace the task
  open,         \* does the channel manager still own the miner?
  client,       \* "running" while start() handles frames, then "returned"
  upstream,     \* "open" while frames can be handed to the connection
  single_submit,    \* was the miner made with a token for single submit?
  global_cancelled, single_submit_cancelled,  \* the two tokens the tasks share
  wire,         \* the shares handed to the connection, in order
  jobs,         \* how many jobs the server has announced
  clock         \* seconds

tokens == <<single_submit, global_cancelled, single_submit_cancelled>>
vars == <<channel, poisoned, tasks, handler, open, client, upstream, tokens, wire,
          jobs, clock>>

-----------------------------------------------------------------------------
(* The channel *)

Job == [id : Nat, min_ntime : 0..MaxNtime, target : Targets, valid : BOOLEAN,
        activated_at : Nat]

\* get_active_job() before there is one.
NoJob == [id |-> 0]

\* A job becomes active: it is worth the target the channel has now, and the
\* clock is kept to say later how much time it had.
lib_activated(ch, job, min_ntime) ==
  [job EXCEPT !.min_ntime = min_ntime, !.target = ch.target, !.activated_at = clock]

\* on_new_mining_job and its kin, for a future job.
lib_store_future_job(ch, job) == [ch EXCEPT !.future_jobs = @ \cup {job}]

\* The same for a job with a min_ntime; the job it replaces can still earn shares.
lib_activate_job(ch, job) ==
  [ch EXCEPT !.active_job = lib_activated(ch, job, job.min_ntime),
             !.past_jobs = @ \cup ({ch.active_job.id} \ {0})]

\* on_set_new_prev_hash, for the future job it names; every other job is stale.
lib_on_set_new_prev_hash(ch, job, min_ntime) ==
  [ch EXCEPT !.active_job = lib_activated(ch, job, min_ntime),
             !.future_jobs = {}, !.past_jobs = {}, !.chain_tip = @ + 1]

\* validate_share, apart from its effect on the accounting.
lib_accepts_share(ch, share) ==
  /\ share.job.id \in {ch.active_job.id} \cup ch.past_jobs
  /\ share.hash <= share.job.target

-----------------------------------------------------------------------------
(* Tasks *)

Pcs == {"start", "snapshot", "select", "yielded", "hash", "found", "send", "sent",
        "done", "panicked"}
Finished == {"done", "panicked"}

NoShare == [task |-> 0]

NewTask ==
  [pc |-> "start", cancelled |-> FALSE, job |-> NoJob, tip |-> 0, target |-> 0,
   started |-> 0, share |-> NoShare, late |-> 0]

Running(t) == tasks[t].pc \notin Finished

\* The one whose token is the miner's miner_cancellation_token, once there is one.
Current == Len(tasks)

Cancelled(t) == global_cancelled \/ tasks[t].cancelled

Goto(t, from, to) == tasks[t].pc = from /\ tasks' = [tasks EXCEPT ![t].pc = to]

\* A step of a task that touches nothing outside the task.
TaskOnly == UNCHANGED <<channel, poisoned, handler, open, client, upstream, tokens,
                        wire, jobs, clock>>

-----------------------------------------------------------------------------
(* Handlers, run by the client's task *)

MiningInit ==
  /\ \E t \in Targets :
       channel = [active_job |-> NoJob, future_jobs |-> {}, past_jobs |-> {},
                  chain_tip |-> 0, target |-> t, last_share_sequence_number |-> 0,
                  acknowledged |-> 0, rejected |-> 0]
  /\ tasks = << >>
  /\ handler = "idle"
  /\ open = TRUE
  /\ client = "running"
  /\ upstream = "open"
  /\ single_submit \in SubmitModes
  /\ poisoned = FALSE /\ global_cancelled = FALSE /\ single_submit_cancelled = FALSE
  /\ wire = << >>
  /\ jobs = 0
  /\ clock = 0

HandlerMayStart == client = "running" /\ open /\ handler = "idle"

\* The handler has the lock, writes the channel, and then either is done or
\* goes on to replace the mining task.
WriteChannel(new_channel, next) ==
  /\ HandlerMayStart
  /\ ~poisoned
  /\ channel' = new_channel
  /\ handler' = next
  /\ UNCHANGED <<poisoned, tasks, open, client, upstream, tokens, wire, clock>>

\* Slip: a job that is active at once leaves the task alone as well.
StoreJob_only(valid) ==
  LET job == [id |-> jobs + 1, min_ntime |-> 0, target |-> channel.target,
              valid |-> valid, activated_at |-> 0]
  IN  /\ jobs < MaxJobs
      /\ jobs' = jobs + 1
      /\ \/ WriteChannel(lib_store_future_job(channel, job), "idle")
         \/ /\ TipFirst => channel.chain_tip > 0
            /\ \E n \in MinNtimes :
                 WriteChannel(lib_activate_job(channel, [job EXCEPT !.min_ntime = n]),
                              "idle")

\* A job message.  One without a min_ntime is for later and leaves the task
\* alone; one with a min_ntime is active at once.
StoreJob(valid) ==
  LET job == [id |-> jobs + 1, min_ntime |-> 0, target |-> channel.target,
              valid |-> valid, activated_at |-> 0]
  IN  /\ jobs < MaxJobs
      /\ jobs' = jobs + 1
      /\ \/ WriteChannel(lib_store_future_job(channel, job), "idle")
         \/ /\ TipFirst => channel.chain_tip > 0
            /\ Len(tasks) < MaxTasks
            /\ \E n \in MinNtimes :
                 WriteChannel(lib_activate_job(channel, [job EXCEPT !.min_ntime = n]),
                              "respawn")

\* Slip: the channel moves on and the task does not.
ActivateFutureJob_only ==
  /\ channel.chain_tip < MaxTips
  /\ \E job \in channel.future_jobs, n \in MinNtimes :
       WriteChannel(lib_on_set_new_prev_hash(channel, job, n), "idle")
  /\ UNCHANGED jobs

\* SetNewPrevHash.  The channel refuses one that names no future job, and
\* then the handler stops before it touches the mining task.
ActivateFutureJob ==
  /\ channel.chain_tip < MaxTips
  /\ Len(tasks) < MaxTasks
  /\ \E job \in channel.future_jobs, n \in MinNtimes :
       WriteChannel(lib_on_set_new_prev_hash(channel, job, n), "respawn")
  /\ UNCHANGED jobs

\* Slip: the past job's token is replaced without being cancelled.
respawn_mining_task_only ==
  /\ handler = "respawn"
  /\ tasks' = Append(tasks, NewTask)
  /\ handler' = "idle"
  /\ UNCHANGED <<channel, poisoned, open, client, upstream, tokens, wire, jobs, clock>>

\* Cancels the task of the past job, if any, and spawns one for the active job.
respawn_mining_task ==
  /\ handler = "respawn"
  /\ tasks' = Append([t \in DOMAIN tasks |->
                        IF t = Current THEN [tasks[t] EXCEPT !.cancelled = TRUE]
                                       ELSE tasks[t]],
                     NewTask)
  /\ handler' = "idle"
  /\ UNCHANGED <<channel, poisoned, open, client, upstream, tokens, wire, jobs, clock>>

\* The mining task is not replaced: it goes on with the target it has read.
set_target ==
  /\ \E t \in Targets : WriteChannel([channel EXCEPT !.target = t], "idle")
  /\ UNCHANGED jobs

\* The server's verdict on shares it has received.  A poisoned lock is only
\* logged here.
on_share_verdict ==
  /\ channel.acknowledged + channel.rejected < MaxVerdicts
  /\ channel.acknowledged + channel.rejected < Len(wire)
  /\ \/ WriteChannel([channel EXCEPT !.acknowledged = @ + 1], "idle")
     \/ WriteChannel([channel EXCEPT !.rejected = @ + 1], "idle")
  /\ UNCHANGED jobs

\* Any other handler that meets a poisoned lock returns the error, and with it
\* start() returns.
HandlerPoisoned ==
  /\ HandlerMayStart
  /\ poisoned
  /\ client' = "returned"
  /\ UNCHANGED <<channel, poisoned, tasks, handler, open, upstream, tokens, wire,
                 jobs, clock>>

\* CloseChannel: the channel manager drops the miner, and with it its hold on
\* the tokens.
CloseMiner ==
  /\ HandlerMayStart
  /\ open' = FALSE
  /\ UNCHANGED <<channel, poisoned, tasks, handler, client, upstream, tokens, wire,
                 jobs, clock>>

\* The select of start(): it returns once the token is cancelled, and cancels
\* it itself when the connection is gone.
LoopEnds ==
  /\ client = "running" /\ handler = "idle"
  /\ global_cancelled \/ upstream = "closed"
  /\ client' = "returned"
  /\ global_cancelled' = TRUE
  /\ UNCHANGED <<channel, poisoned, tasks, handler, open, upstream,
                 single_submit, single_submit_cancelled, wire, jobs, clock>>

\* shutdown(), from a clone of the client or after Ctrl+C.
Shutdown ==
  /\ ~global_cancelled
  /\ global_cancelled' = TRUE
  /\ UNCHANGED <<channel, poisoned, tasks, handler, open, client, upstream,
                 single_submit, single_submit_cancelled, wire, jobs, clock>>

\* The connection ends: the server closed it, or it was cancelled.
UpstreamCloses ==
  /\ upstream = "open"
  /\ upstream' = "closed"
  /\ UNCHANGED <<channel, poisoned, tasks, handler, open, client, tokens, wire, jobs,
                 clock>>

Tick ==
  /\ clock < MaxClock
  /\ clock' = clock + 1
  /\ UNCHANGED <<channel, poisoned, tasks, handler, open, client, upstream, tokens,
                 wire, jobs>>

-----------------------------------------------------------------------------
(* mine_job, one task *)

\* A task spawned after the one share was submitted has nothing to do.
CheckSingleSubmit(t) ==
  /\ \/ single_submit /\ single_submit_cancelled /\ Goto(t, "start", "done")
     \/ ~(single_submit /\ single_submit_cancelled) /\ Goto(t, "start", "snapshot")
  /\ TaskOnly

\* One read lock for everything the task hashes on.  There must be a chain tip
\* and an active job, and for an extended channel a coinbase that parses: usable
\* says so of the active job.
Snapshot(t, usable) ==
  /\ \/ poisoned /\ Goto(t, "snapshot", "done")
     \/ /\ ~poisoned
        /\ \/ channel.chain_tip = 0
           \/ channel.active_job = NoJob
           \/ ~usable
        /\ Goto(t, "snapshot", "panicked")
     \/ /\ ~poisoned
        /\ tasks[t].pc = "snapshot"
        /\ channel.chain_tip > 0 /\ channel.active_job # NoJob
        /\ usable
        /\ tasks' = [tasks EXCEPT ![t] =
                       [@ EXCEPT !.pc = "select", !.job = channel.active_job,
                                 !.tip = channel.chain_tip, !.target = channel.target,
                                 !.started = clock]]
  /\ TaskOnly

\* Slip: the ready branches are drawn at random on the first poll too.
Select_unbiased(t) ==
  /\ \/ Cancelled(t) /\ Goto(t, "select", "done")
     \/ Goto(t, "select", "yielded")
  /\ TaskOnly

\* The first poll of select!: a cancelled token wins, for yield_now is not
\* ready yet; otherwise the task yields.
Select(t) ==
  /\ \/ Cancelled(t) /\ Goto(t, "select", "done")
     \/ ~Cancelled(t) /\ Goto(t, "select", "yielded")
  /\ TaskOnly

\* The next poll: yield_now is ready, and when a token is cancelled by now
\* select! picks one of the ready branches at random.
Resume(t) ==
  /\ \/ Cancelled(t) /\ Goto(t, "yielded", "done")
     \/ Goto(t, "yielded", "hash")
  /\ TaskOnly

\* Slips: the sum leaves the u32, or wraps around in it.
saturating_add_unbounded(a, b) == a + b
saturating_add_wrapping(a, b) == (a + b) % (MaxNtime + 1)

\* u32::saturating_add
saturating_add(a, b) == IF a + b > MaxNtime THEN MaxNtime ELSE a + b

\* Its sequence number comes with validation.
new_share(t, h) ==
  [task |-> t, seq |-> 0, job |-> tasks[t].job, hash |-> h, hashed_at |-> clock,
   ntime |-> saturating_add(tasks[t].job.min_ntime, clock - tasks[t].started)]

\* One header, after the throttle's sleep if it is time for one: the sleep
\* looks at no token.  The hash is compared with the target the task has read.
\* MaxShares bounds how many winning hashes there are.
HashHeader(t) ==
  \E h \in Hashes :
    /\ \/ h > tasks[t].target /\ Goto(t, "hash", "select")
       \/ /\ h <= tasks[t].target
          /\ channel.last_share_sequence_number < MaxShares
          /\ tasks[t].pc = "hash"
          /\ tasks' = [tasks EXCEPT ![t] =
               [@ EXCEPT !.pc = "found", !.share = new_share(t, h)]]
    /\ TaskOnly

\* Slip: every task numbers its own shares.
next_sequence_number_of_task(t) == tasks[t].share.seq + 1

\* Read under the lock that also decides on the share.
next_sequence_number(t) == channel.last_share_sequence_number + 1

\* Slip: a share that beat the task's target is good enough.
worth_submitting_anyway(share) == TRUE

\* The channel re-derives the share from its own job and decides.
worth_submitting(share) == lib_accepts_share(channel, share)

\* One write lock for the sequence number and the verdict.  Only an accepted
\* share uses the number up; one the channel rejects is dropped.  A panic in
\* here leaves the lock poisoned.
ValidateShare(t) ==
  LET seq == next_sequence_number(t)
      share == [tasks[t].share EXCEPT !.seq = seq]
      late == IF tasks[t].cancelled THEN 1 ELSE 0
  IN  /\ tasks[t].pc = "found"
      /\ \/ /\ poisoned
            /\ Goto(t, "found", "done")
            /\ UNCHANGED <<channel, poisoned>>
         \/ /\ LocksMayPoison /\ ~poisoned
            /\ poisoned' = TRUE
            /\ Goto(t, "found", "panicked")
            /\ UNCHANGED channel
         \/ /\ ~poisoned
            /\ worth_submitting(share)
            /\ channel' = [channel EXCEPT !.last_share_sequence_number = seq]
            /\ tasks' = [tasks EXCEPT ![t] =
                 [@ EXCEPT !.pc = "send", !.share = share,
                           !.late = tasks[t].late + late]]
            /\ UNCHANGED poisoned
         \/ /\ ~poisoned
            /\ ~worth_submitting(share)
            /\ Goto(t, "found", "select")
            /\ UNCHANGED <<channel, poisoned>>
      /\ UNCHANGED <<handler, open, client, upstream, tokens, wire, jobs, clock>>

\* Slip: a cancelled task drops the share it has just had validated.
SubmitShare_unless_cancelled(t) ==
  /\ upstream = "open"
  /\ IF Cancelled(t)
     THEN Goto(t, "send", "done") /\ UNCHANGED wire
     ELSE /\ Goto(t, "send", IF single_submit THEN "sent" ELSE "select")
          /\ wire' = Append(wire, tasks[t].share)
  /\ UNCHANGED <<channel, poisoned, handler, open, client, upstream, tokens, jobs, clock>>

\* The share goes to the connection.  When there is none any more, that is
\* logged and the task hashes on.
SubmitShare(t) ==
  /\ \/ /\ upstream = "open"
        /\ Goto(t, "send", IF single_submit THEN "sent" ELSE "select")
        /\ wire' = Append(wire, tasks[t].share)
     \/ /\ upstream = "closed"
        /\ Goto(t, "send", "select")
        /\ UNCHANGED wire
  /\ UNCHANGED <<channel, poisoned, handler, open, client, upstream, tokens, jobs, clock>>

\* Slip: the task tells later tasks and goes on itself.
FinishSingleSubmit_going_on(t) ==
  /\ Goto(t, "sent", "select")
  /\ single_submit_cancelled' = TRUE
  /\ UNCHANGED <<channel, poisoned, handler, open, client, upstream, single_submit,
                 global_cancelled, wire, jobs, clock>>

\* Under single_submit the task ends with its share, and tells later tasks.
FinishSingleSubmit(t) ==
  /\ Goto(t, "sent", "done")
  /\ single_submit_cancelled' = TRUE
  /\ UNCHANGED <<channel, poisoned, handler, open, client, upstream, single_submit,
                 global_cancelled, wire, jobs, clock>>

\* The loop, without what a task reads before it.
MiningLoop(t) ==
  \/ Select(t) \/ Resume(t) \/ HashHeader(t)
  \/ ValidateShare(t) \/ SubmitShare(t) \/ FinishSingleSubmit(t)

\* Nothing is left to run.
Terminated ==
  /\ client = "returned"
  /\ \A t \in DOMAIN tasks : ~Running(t)
  /\ UNCHANGED vars

\* What the miners of both kinds do besides taking jobs and reading them.
CommonStep ==
  \/ respawn_mining_task
  \/ set_target
  \/ on_share_verdict
  \/ HandlerPoisoned
  \/ CloseMiner
  \/ LoopEnds
  \/ Shutdown
  \/ UpstreamCloses
  \/ Tick
  \/ Terminated

-----------------------------------------------------------------------------
(* Invariants *)

Share == [task : Nat, seq : Nat, job : Job, hash : Hashes, ntime : 0..MaxNtime,
          hashed_at : Nat]

Task == [pc : Pcs, cancelled : BOOLEAN, job : Job \cup {NoJob}, tip : Nat,
         target : Nat, started : Nat, share : Share \cup {NoShare}, late : Nat]

TypeOK ==
  /\ channel.active_job \in Job \cup {NoJob}
  /\ \A job \in channel.future_jobs : job \in Job
  /\ channel.past_jobs \subseteq 1..jobs
  /\ channel.target \in Targets
  /\ \A n \in {channel.chain_tip, channel.last_share_sequence_number,
               channel.acknowledged, channel.rejected, jobs, clock} : n \in Nat
  /\ \A t \in DOMAIN tasks : tasks[t] \in Task
  /\ \A i \in DOMAIN wire : wire[i] \in Share
  /\ {poisoned, open, single_submit, global_cancelled, single_submit_cancelled} \subseteq BOOLEAN
  /\ handler \in {"idle", "respawn"}
  /\ client \in {"running", "returned"}
  /\ upstream \in {"open", "closed"}

\* The tasks whose validated share is not on the wire yet.
Sending == {t \in DOMAIN tasks : tasks[t].pc = "send"}

\* No two shares carry the same sequence number, whichever tasks found them
\* and in whatever order they reach the wire.
SequenceNumbersUnique ==
  /\ \A i, j \in DOMAIN wire : wire[i].seq = wire[j].seq => i = j
  /\ \A t \in Sending : \A i \in DOMAIN wire : wire[i].seq # tasks[t].share.seq
  /\ \A t, u \in Sending : tasks[t].share.seq = tasks[u].share.seq => t = u

\* A share's timestamp claims no more time than has passed since its job became
\* active, and never less than the server's minimum, even at u32::MAX.
NtimeWithinClock ==
  \A i \in DOMAIN wire :
    LET share == wire[i]
    IN  /\ share.job.min_ntime <= share.ntime
        /\ share.ntime <= share.job.min_ntime + (share.hashed_at - share.job.activated_at)

\* No share is sent that its job, with the target it became active under, is
\* not worth: whatever SetTarget does to the target the task compares with.
SharesMeetTheirJob == \A i \in DOMAIN wire : wire[i].hash <= wire[i].job.target

\* Between messages, the task that is not superseded hashes on the channel's
\* active job and chain tip.
CurrentTaskMinesActiveJob ==
  (handler = "idle" /\ Current > 0) =>
    LET task == tasks[Current]
    IN  task.pc \notin {"start", "snapshot"} \cup Finished =>
          task.job = channel.active_job /\ task.tip = channel.chain_tip

\* A superseded task can be as far as one header past its last look at its
\* token: it adds at most one share after it was cancelled.
AtMostOneLateShare == \A t \in DOMAIN tasks : tasks[t].late <= 1

\* A new task is the only one left to hash on: all older ones are told to stop.
OnlyCurrentTaskGoesOn ==
  \A t \in DOMAIN tasks : t # Current => tasks[t].cancelled

SharesOf(t) == {i \in DOMAIN wire : wire[i].task = t}

\* Under single_submit no task sends a second share, late tasks included.
OneSharePerTask ==
  single_submit => \A t \in DOMAIN tasks : Cardinality(SharesOf(t)) <= 1

\* Single Submit Mode as the README describes it: mining stops after the first
\* share submitted on each channel.
OneSharePerChannel == single_submit => Len(wire) <= 1

-----------------------------------------------------------------------------
(* Action properties *)

\* A share found before the chain moved on is dropped: a task may meet the lock after
\* a SetNewPrevHash it knows nothing of, and what it validates then is accepted only
\* if the chain tip it read is still the channel's.
OldSharesAreDropped ==
  [][\A t \in DOMAIN tasks :
       tasks[t].pc = "found" /\ tasks'[t].pc = "send" =>
         tasks[t].tip = channel.chain_tip]_vars

-----------------------------------------------------------------------------
(* Liveness *)

\* A task that is told to stop does so: after a shutdown, a closed connection
\* or a new job no old task keeps a core busy.
CancelledTasksFinish ==
  \A t \in 1..MaxTasks :
    (t \in DOMAIN tasks /\ Cancelled(t)) ~> (t \in DOMAIN tasks /\ ~Running(t))

\* A job that becomes active is hashed on, unless another one replaces it, the
\* miner stops, or its one share is out.  A job whose coinbase does not parse, or
\* one that came before any chain tip, ends its task in a panic; neither keeps the
\* next job from being hashed on.
ActiveJobIsMined ==
  \A j \in 1..MaxJobs :
    (channel.active_job.id = j /\ channel.active_job.valid /\ channel.chain_tip > 0) ~>
      \/ channel.active_job.id # j
      \/ \E t \in DOMAIN tasks : tasks[t].job.id = j
      \/ global_cancelled \/ poisoned \/ single_submit_cancelled

\* A validated share is handed to the connection while there is one.
ValidatedSharesAreSent ==
  \A n \in 1..(MaxShares + MaxTasks) :
    channel.last_share_sequence_number = n ~>
      \/ upstream = "closed"
      \/ \E i \in DOMAIN wire : wire[i].seq = n

\* The channel manager owns the mining task behind each open channel: when it
\* drops the channel, the hashing ends.
ClosedChannelStopsHashing ==
  ~open ~> \A t \in DOMAIN tasks : ~Running(t)

=============================================================================
