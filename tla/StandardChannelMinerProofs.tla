-------------------- MODULE StandardChannelMinerProofs --------------------
(***************************************************************************)
(* Theorems about StandardChannelMiner: every step of it is one of         *)
(* MinerNext, so what ChannelMinerProofs shows of MinerSpec holds of it.   *)
(***************************************************************************)
EXTENDS StandardChannelMiner, ChannelMinerProofs

LEMMA StepIsMinerStep == Next => MinerNext
<1>1. ASSUME NEW t \in DOMAIN tasks, mine_job(t)  PROVE TaskStep(t)
  BY <1>1, SnapshotIsAStep DEF mine_job, TaskStep
<1> QED
  BY <1>1 DEF Next, MinerNext, on_new_mining_job, on_group_channel_job,
              on_set_new_prev_hash

\* This kind of miner implements MinerSpec, what the two kinds have in common.
THEOREM ImplementsMiner == Spec => MinerSpec
<1>1. [Next]_vars => [MinerNext]_vars
  BY StepIsMinerStep
<1> QED
  BY <1>1, PTL DEF Spec, MinerSpec, Init

\* MinerInv is an invariant of this kind of miner.
LEMMA Inductive == Spec => []MinerInv
<1> QED
  BY MinerInvInit, MinerInvKept, ImplementsMiner, PTL DEF MinerSpec

\* The channel, every task and every share sent keep to their types.
THEOREM TypeCorrect == Spec => []TypeOK
<1>1. MinerInv => TypeOK
  BY MinerInvSuffices
<1> QED
  BY <1>1, Inductive, PTL

\* However many tasks validate and submit, no two shares of the channel have
\* one sequence number: it is read and used up under one write lock.
THEOREM NumbersNeverCollide == Spec => []SequenceNumbersUnique
<1>1. MinerInv => SequenceNumbersUnique
  BY MinerInvSuffices
<1> QED
  BY <1>1, Inductive, PTL

\* No share is sent that misses the target of its own job, though the task
\* compares with a target it read before: validation looks again.
THEOREM SentSharesAreWorthTheirJob == Spec => []SharesMeetTheirJob
<1>1. MinerInv => SharesMeetTheirJob
  BY MinerInvSuffices
<1> QED
  BY <1>1, Inductive, PTL

\* A share's ntime is within the time its job has been active, and saturates
\* rather than wraps at u32::MAX.
THEOREM TimestampsAreHonest == Spec => []NtimeWithinClock
<1>1. MinerInv => NtimeWithinClock
  BY MinerInvSuffices
<1> QED
  BY <1>1, Inductive, PTL

\* A superseded task adds at most one share after its token was cancelled: the
\* next look at the token, on the first poll of select!, always sees it.
THEOREM OneShareAfterCancellation == Spec => []AtMostOneLateShare
<1>1. MinerInv => AtMostOneLateShare
  BY MinerInvSuffices
<1> QED
  BY <1>1, Inductive, PTL

\* Every task but the newest has its token cancelled.
THEOREM OlderTasksAreToldToStop == Spec => []OnlyCurrentTaskGoesOn
<1>1. MinerInv => OnlyCurrentTaskGoesOn
  BY MinerInvSuffices
<1> QED
  BY <1>1, Inductive, PTL

\* Between messages the newest task, once it has read the channel, works on the
\* channel's active job and chain tip.
THEOREM NewestTaskIsUpToDate == Spec => []CurrentTaskMinesActiveJob
<1>1. MinerInv => CurrentTaskMinesActiveJob
  BY MinerInvSuffices
<1> QED
  BY <1>1, Inductive, PTL

\* Under single_submit no task submits twice.
THEOREM SingleSubmitIsPerTask == Spec => []OneSharePerTask
<1>1. MinerInv => OneSharePerTask
  BY MinerInvSuffices
<1> QED
  BY <1>1, Inductive, PTL

\* No share is accepted that was found on a chain tip the channel has left: the job and
\* the tip are read together, and validation under the lock knows the jobs of its own
\* tip only.
THEOREM SharesOfOldTipsAreDropped == Spec => OldSharesAreDropped
<1>1. MinerInv /\ [MinerNext]_vars =>
        \A t \in DOMAIN tasks :
          tasks[t].pc = "found" /\ tasks'[t].pc = "send" => tasks[t].tip = channel.chain_tip
  BY AcceptsUpToDate DEF MinerInv
<1>2. MinerInv /\ [MinerNext]_vars =>
        [\A t \in DOMAIN tasks :
           tasks[t].pc = "found" /\ tasks'[t].pc = "send" => tasks[t].tip = channel.chain_tip]_vars
  BY <1>1
<1> QED
  BY <1>2, Inductive, ImplementsMiner, PTL DEF MinerSpec, OldSharesAreDropped

===========================================================================
