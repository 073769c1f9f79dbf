------------------------------ MODULE Connection ------------------------------
(***************************************************************************)
(* The composition: a server that keeps to the protocol, the registry      *)
(* (ChannelManager) and the miners behind it.  The handlers of jobs, prev  *)
(* hashes and targets (channel_manager/mining_message_handler.rs) pass a   *)
(* frame on to every channel it is addressed to, one after another, while  *)
(* the mining tasks run: a task that panics under a channel's lock makes   *)
(* the handler fail when it comes to that channel.                         *)
(*                                                                         *)
(* The server keeps a view of its own, from what it has sent and without   *)
(* the registry's maps: a channel is in one group, and a group is whoever  *)
(* is in it.  Frames arrive in the order they were sent and nothing here   *)
(* depends on how long they take, so a frame is sent when it is handled.   *)
(*                                                                         *)
(* A miner is represented by the work it has: what its tasks do with it is *)
(* module ChannelMiner.                                                    *)
(***************************************************************************)
EXTENDS Naturals, FiniteSets, Functions

CONSTANTS
  Ids, PrefixSizes, MaxPrefixSize, RollableSizes,  \* of ChannelManager
  NStandard, NExtended,  \* the channels the client has requested, of each kind
  Targets,               \* targets the server assigns
  FirstTarget,           \* bound: the one it opens channels with
  MaxJobs,               \* bound: jobs the server makes up
  MaxPanics,             \* bound: open channels with a poisoned lock
  NoGroup                \* the group of a channel that is in none

ASSUME ConnectionAssumption ==
  /\ PrefixSizes \subseteq Nat /\ MaxPrefixSize \in Nat /\ RollableSizes \subseteq Nat
  /\ {NStandard, NExtended, MaxJobs, MaxPanics} \subseteq Nat
  /\ FirstTarget \in Targets
  /\ NoGroup \notin Ids

VARIABLES
  requires_standard_jobs, standard_channels, extended_channels, group_channels,
  connection,    \* of ChannelManager
  miners,        \* open channel |-> [work, poisoned]
  handling,      \* the frame being passed on and the channels it has not reached yet
  view,          \* the server's: channel |-> [kind, size, group, work]
  unanswered,    \* requests the server has not answered, of each kind
  jobs           \* how many jobs the server has made up

Registry == INSTANCE ChannelManager
  WITH ReusesIds <- FALSE, PrefixResizes <- FALSE, LocksMayPoison <- MaxPanics > 0

server == <<view, unanswered, jobs>>
maps == <<standard_channels, extended_channels, group_channels>>
registry == <<requires_standard_jobs, maps, connection>>
vars == <<registry, miners, handling, server>>

-----------------------------------------------------------------------------
(* Work and frames *)

Kinds == {"standard", "extended"}
Jobs == 1..MaxJobs
Work == [future_jobs : SUBSET Jobs, active_job : Jobs \cup {0}, target : Targets]

\* A frame that gives work.  A future job is one without a min_ntime.
Frames ==
  [type : {"job"}, job : Jobs, future : BOOLEAN]
  \cup [type : {"SetNewPrevHash"}, job : Jobs]
  \cup [type : {"SetTarget"}, target : Targets]

\* Between frames.
NoFrame == [type |-> "none"]
Nothing == [frame |-> NoFrame, left |-> {}]

\* What a frame makes of a channel's work, on either side of the connection.
taken(work, frame) ==
  CASE frame.type = "job" /\ frame.future ->
         [work EXCEPT !.future_jobs = @ \cup {frame.job}]
    [] frame.type = "job" /\ ~frame.future ->
         [work EXCEPT !.active_job = frame.job]
    [] frame.type = "SetNewPrevHash" ->
         [work EXCEPT !.future_jobs = {}, !.active_job = frame.job]
    [] frame.type = "SetTarget" ->
         [work EXCEPT !.target = frame.target]

\* The client channel refuses a prev hash for a job it does not know.
lib_takes(work, frame) == frame.type = "SetNewPrevHash" => frame.job \in work.future_jobs

Poisoned == {c \in DOMAIN miners : miners[c].poisoned}

-----------------------------------------------------------------------------
(* The server's side *)

Served(g) == {c \in DOMAIN view : view[c].group = g}

\* The channels the server means by an id.
Meant(id) == IF id \in DOMAIN view THEN {id} ELSE Served(id)

\* An id for a new channel, and a group of its size.
ServerMayOpen(c, g, size) ==
  /\ c \notin DOMAIN view /\ Served(c) = {}
  /\ g \notin DOMAIN view \cup {c}
  /\ \A m \in Served(g) : view[m].size = size

ServerMaySend(frame, addressees) ==
  /\ addressees # {}
  /\ \A c \in addressees : lib_takes(view[c].work, frame)

-----------------------------------------------------------------------------
(* Handlers that change the registry *)

Init ==
  /\ Registry!Init
  /\ miners = << >>
  /\ handling = Nothing
  /\ view = << >>
  /\ unanswered = [standard |-> NStandard,
                   extended |-> IF requires_standard_jobs THEN 0 ELSE NExtended]
  /\ jobs = 0

\* The client handles its next frame.
Idle == connection = "open" /\ handling.left = {}

\* A request is answered with a channel.  Whether the client can use it is the
\* client's business: OpenMiningChannel.Success has no reply.
Answer(kind, c, g, size) ==
  LET work == [future_jobs |-> {}, active_job |-> 0, target |-> FirstTarget]
      joined == c \in Registry!OpenChannels'
  IN  /\ Idle
      /\ unanswered[kind] > 0
      /\ ServerMayOpen(c, g, size)
      /\ unanswered' = [unanswered EXCEPT ![kind] = @ - 1]
      /\ view' = Registry!Insert(view, c, [kind |-> kind, size |-> size, group |-> g,
                                           work |-> work])
      /\ miners' = IF joined
                   THEN Registry!Insert(miners, c, [work |-> work, poisoned |-> FALSE])
                   ELSE miners
      /\ UNCHANGED <<handling, jobs>>

\* A Success the client cannot use is dropped.
handle_open_standard_mining_channel_success(c, g, prefix) ==
  /\ prefix <= MaxPrefixSize
  /\ IF Registry!ids_collide(c, g) \/ ~Registry!group_takes(g, prefix)
     THEN UNCHANGED registry
     ELSE Registry!OpenStandardSuccess(c, g, prefix)
  /\ Answer("standard", c, g, prefix)

handle_open_extended_mining_channel_success(c, g, prefix, rollable) ==
  /\ prefix <= MaxPrefixSize
  /\ IF Registry!ids_collide(c, g) \/ ~Registry!group_takes(g, prefix + rollable)
     THEN UNCHANGED registry
     ELSE Registry!OpenExtendedSuccess(c, g, prefix, rollable)
  /\ Answer("extended", c, g, prefix + rollable)

\* A refused request is logged, and not made again.
handle_open_mining_channel_error(kind) ==
  /\ Idle
  /\ unanswered[kind] > 0
  /\ unanswered' = [unanswered EXCEPT ![kind] = @ - 1]
  /\ UNCHANGED <<registry, miners, handling, view, jobs>>

handle_close_channel(id) ==
  /\ Idle
  /\ Meant(id) # {}
  /\ Registry!CloseChannel(id)
  /\ miners' = Restrict(miners, Registry!OpenChannels')
  /\ view' = Restrict(view, DOMAIN view \ Meant(id))
  /\ UNCHANGED <<handling, unanswered, jobs>>

\* The extranonce sizes are read under the channels' locks.
handle_set_group_channel(g, S) ==
  /\ Idle
  /\ ~requires_standard_jobs
  /\ g \notin DOMAIN view
  /\ S \subseteq DOMAIN view
  /\ \A c, d \in S : view[c].size = view[d].size
  /\ view' = [c \in DOMAIN view |->
                [view[c] EXCEPT !.group = IF c \in S THEN g
                                          ELSE IF @ = g THEN NoGroup ELSE @]]
  /\ \/ S \cap Poisoned = {} /\ Registry!SetGroupChannel(g, S)
     \/ S \cap Poisoned # {} /\ Registry!PoisonLock
  /\ UNCHANGED <<miners, handling, unanswered, jobs>>

-----------------------------------------------------------------------------
(* Handlers that pass work on *)

\* The client looks the id up, in its own maps; the server knows whom it means.
PassOn(frame, id, receivers) ==
  /\ Idle
  /\ ServerMaySend(frame, Meant(id))
  /\ view' = [c \in DOMAIN view |->
                IF c \in Meant(id) THEN [view[c] EXCEPT !.work = taken(@, frame)]
                ELSE view[c]]
  /\ handling' = [frame |-> frame, left |-> receivers]
  /\ UNCHANGED <<registry, miners, unanswered>>

NewJob(id, receivers) ==
  /\ jobs < MaxJobs
  /\ jobs' = jobs + 1
  /\ \E future \in BOOLEAN :
       PassOn([type |-> "job", job |-> jobs + 1, future |-> future], id, receivers)

handle_new_mining_job(c) ==
  /\ c \in DOMAIN view /\ view[c].kind = "standard"
  /\ NewJob(c, {c} \cap DOMAIN standard_channels)

\* Slip: standard members of the group are left to their standard jobs.
handle_new_extended_mining_job_skipping(id) ==
  /\ ~requires_standard_jobs
  /\ id \in DOMAIN view => view[id].kind = "extended"
  /\ NewJob(id, Registry!addressed_channels(id) \cap DOMAIN extended_channels)

\* Addressed to one extended channel, or to a group whose standard members
\* derive a job of their own from it.
handle_new_extended_mining_job(id) ==
  /\ ~requires_standard_jobs
  /\ id \in DOMAIN view => view[id].kind = "extended"
  /\ NewJob(id, IF id \in Registry!Groups THEN Registry!addressed_channels(id)
                ELSE {id} \cap DOMAIN extended_channels)

handle_set_new_prev_hash(id, job) ==
  /\ PassOn([type |-> "SetNewPrevHash", job |-> job], id, Registry!addressed_channels(id))
  /\ UNCHANGED jobs

\* A SetTarget that changes nothing is left out.
handle_set_target(id, target) ==
  /\ \E c \in Meant(id) : view[c].work.target # target
  /\ PassOn([type |-> "SetTarget", target |-> target], id, Registry!addressed_channels(id))
  /\ UNCHANGED jobs

\* The next channel of the frame, in whatever order the group lists them.  A
\* poisoned lock ends the handler with the rest unserved; a channel's refusal is
\* logged and the next one served.
Reach(c) ==
  /\ connection = "open"
  /\ c \in handling.left
  /\ \/ /\ c \in Poisoned
        /\ connection' = "failed"
        /\ UNCHANGED <<miners, handling>>
     \/ /\ c \notin Poisoned
        /\ miners' = IF c \in DOMAIN miners /\ lib_takes(miners[c].work, handling.frame)
                     THEN [miners EXCEPT ![c].work = taken(@, handling.frame)]
                     ELSE miners
        /\ handling' = IF handling.left = {c} THEN Nothing
                        ELSE [handling EXCEPT !.left = @ \ {c}]
        /\ UNCHANGED connection
  /\ UNCHANGED <<requires_standard_jobs, maps, server>>

\* A mining task panics in validate_share, whatever the client is doing.
TaskPanics(c) ==
  /\ Cardinality(Poisoned) < MaxPanics
  /\ c \in DOMAIN miners \ Poisoned
  /\ miners[c].work.active_job # 0
  /\ miners' = [miners EXCEPT ![c].poisoned = TRUE]
  /\ UNCHANGED <<registry, handling, server>>

Returned == Registry!Returned /\ UNCHANGED <<miners, handling, server>>

\* The server has nothing more to say.
Silent == Idle /\ UNCHANGED vars

Next ==
  \/ \E c, g \in Ids, p \in PrefixSizes :
       handle_open_standard_mining_channel_success(c, g, p)
  \/ \E c, g \in Ids, p \in PrefixSizes, r \in RollableSizes :
       handle_open_extended_mining_channel_success(c, g, p, r)
  \/ \E kind \in Kinds : handle_open_mining_channel_error(kind)
  \/ \E id \in Ids : handle_close_channel(id)
  \/ \E g \in Ids, S \in SUBSET Ids : handle_set_group_channel(g, S)
  \/ \E c \in Ids : handle_new_mining_job(c)
  \/ \E id \in Ids : handle_new_extended_mining_job(id)
  \/ \E id \in Ids, job \in Jobs : handle_set_new_prev_hash(id, job)
  \/ \E id \in Ids, t \in Targets : handle_set_target(id, t)
  \/ \E c \in Ids : Reach(c)
  \/ \E c \in Ids : TaskPanics(c)
  \/ Returned
  \/ Silent

Spec == Init /\ [][Next]_vars

-----------------------------------------------------------------------------
(* Invariants *)

Miner == [work : Work, poisoned : BOOLEAN]
Entry == [kind : Kinds, size : Nat, group : Ids \cup {NoGroup}, work : Work]

TypeOK ==
  /\ Registry!TypeOK
  /\ Registry!IsMap(miners, Miner)
  /\ Registry!IsMap(view, Entry)
  /\ handling \in [frame : Frames \cup {NoFrame}, left : SUBSET Ids]
  /\ unanswered \in [Kinds -> Nat]
  /\ jobs \in 0..MaxJobs

\* The channels of each kind, their sizes and their groups are at all times
\* those the server has in mind: no Success is dropped, nothing is closed or
\* moved that the server did not mean.
RegistryFollowsTheServer ==
  /\ DOMAIN standard_channels = {c \in DOMAIN view : view[c].kind = "standard"}
  /\ DOMAIN extended_channels = {c \in DOMAIN view : view[c].kind = "extended"}
  /\ \A c \in DOMAIN view : Registry!full_extranonce_size(c) = view[c].size
  /\ connection = "open" =>
       \A g \in Ids : Served(g) = IF g \in Registry!Groups
                                  THEN group_channels[g].channel_ids ELSE {}

\* Every channel has the work the server gave it, alone or through a group,
\* and no other; a channel the current frame has still to reach is exactly that
\* frame behind.  This is so even after a handler has failed half-way.
WorkFollowsTheServer ==
  \A c \in DOMAIN view :
    /\ c \in DOMAIN miners
    /\ view[c].work = IF c \in handling.left
                      THEN taken(miners[c].work, handling.frame)
                      ELSE miners[c].work

=============================================================================
