------------------------- MODULE ExtendedChannelMiner -------------------------
(***************************************************************************)
(* ExtendedChannelMiner (miner/extended.rs): it takes extended jobs, and   *)
(* each task computes the merkle root of its job from the coinbase the     *)
(* server sent, with an extranonce of zeros.  A coinbase that does not     *)
(* parse ends the task in a panic, after it has let the channel's lock go. *)
(***************************************************************************)
EXTENDS ChannelMiner

CONSTANT BadCoinbases  \* may the server send a coinbase that does not parse?

ASSUME ExtendedAssumption == BadCoinbases \in BOOLEAN

Init == MiningInit

on_new_extended_mining_job ==
  \E valid \in BOOLEAN : (valid \/ BadCoinbases) /\ StoreJob(valid)

on_set_new_prev_hash == ActivateFutureJob

merkle_root_from_path_succeeds(job) == job # NoJob /\ job.valid

mine_job(t) ==
  \/ CheckSingleSubmit(t)
  \/ Snapshot(t, merkle_root_from_path_succeeds(channel.active_job))
  \/ MiningLoop(t)

Next ==
  \/ on_new_extended_mining_job
  \/ on_set_new_prev_hash
  \/ CommonStep
  \/ \E t \in DOMAIN tasks : mine_job(t)

Spec == Init /\ [][Next]_vars

\* As for a standard channel.
Fairness ==
  /\ WF_vars(respawn_mining_task)
  /\ WF_vars(LoopEnds)
  /\ \A t \in 1..MaxTasks : WF_vars(t \in DOMAIN tasks /\ mine_job(t))

FairSpec == Spec /\ Fairness

=============================================================================
