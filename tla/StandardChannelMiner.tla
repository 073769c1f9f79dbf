------------------------- MODULE StandardChannelMiner -------------------------
(***************************************************************************)
(* StandardChannelMiner (miner/standard.rs): it takes standard jobs, and   *)
(* the extended jobs of its group, from which the channel derives a        *)
(* standard job with a merkle root of its own.                             *)
(***************************************************************************)
EXTENDS ChannelMiner

Init == MiningInit

\* The channel computed, or was given, the merkle root when it took the job.
on_new_mining_job == StoreJob(TRUE)
on_group_channel_job == StoreJob(TRUE)
on_set_new_prev_hash == ActivateFutureJob

HasMerkleRoot(job) == job # NoJob

mine_job(t) ==
  CheckSingleSubmit(t) \/ Snapshot(t, HasMerkleRoot(channel.active_job)) \/ MiningLoop(t)

Next ==
  \/ on_new_mining_job
  \/ on_group_channel_job
  \/ on_set_new_prev_hash
  \/ CommonStep
  \/ \E t \in DOMAIN tasks : mine_job(t)

Spec == Init /\ [][Next]_vars

\* The runtime polls every spawned task again and again, runs a handler to its
\* end, and the client's loop sees that it is over.
Fairness ==
  /\ WF_vars(respawn_mining_task)
  /\ WF_vars(LoopEnds)
  /\ \A t \in 1..MaxTasks : WF_vars(t \in DOMAIN tasks /\ mine_job(t))

FairSpec == Spec /\ Fairness

=============================================================================
