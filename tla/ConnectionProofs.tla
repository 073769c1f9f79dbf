--------------------------- MODULE ConnectionProofs ---------------------------
(***************************************************************************)
(* The composition of server, registry and miners, for any ids, sizes,     *)
(* targets and numbers of channels, jobs and panics.                       *)
(*                                                                         *)
(* Every step is one of the registry's with a server that opens each       *)
(* channel under an id of its own, so what ChannelManagerProofs and        *)
(* MembershipProofs prove of the registry holds here.  On top of it the    *)
(* types are an invariant, then that the registry follows the server's     *)
(* view, then that the miners' work does.                                  *)
(***************************************************************************)
EXTENDS Connection, TLAPS

\* The registry of Connection, with the lemmas proved of it.
RP == INSTANCE MembershipProofs
  WITH ReusesIds <- FALSE, PrefixResizes <- FALSE, LocksMayPoison <- MaxPanics > 0

-----------------------------------------------------------------------------
(* The registry's lemmas *)

\* What the registry assumes of its constants.
LEMMA RegistryConstants == RP!RegistryAssumption
  BY ConnectionAssumption DEF RP!RegistryAssumption

\* The two instances of ChannelManager name the same things.
LEMMA SameState ==
  /\ Registry!OpenChannels = RP!OpenChannels
  /\ Registry!Groups = RP!Groups
  /\ \A id : Registry!addressed_channels(id) = RP!addressed_channels(id)
  /\ \A c : Registry!full_extranonce_size(c) = RP!full_extranonce_size(c)
  /\ Registry!vars = RP!vars
  /\ Registry!TypeOK <=> RP!TypeOK
  BY DEF Registry!OpenChannels, RP!OpenChannels, Registry!Groups, RP!Groups,
         Registry!addressed_channels, RP!addressed_channels,
         Registry!full_extranonce_size, RP!full_extranonce_size,
         Registry!vars, RP!vars, Registry!registry, RP!registry,
         Registry!TypeOK, RP!TypeOK, Registry!MapsOK, RP!MapsOK, Registry!IsMap, RP!IsMap,
         Registry!ExtendedEntry, RP!ExtendedEntry, Registry!GroupEntry, RP!GroupEntry

\* They open the same standard channels,
LEMMA SameOpenStandard ==
  ASSUME NEW c, NEW g, NEW p, Registry!OpenStandardSuccess(c, g, p)
  PROVE  RP!OpenStandardSuccess(c, g, p)
  BY DEF Registry!OpenStandardSuccess, RP!OpenStandardSuccess,
         Registry!ServerMayOpen, RP!ServerMayOpen, Registry!OpenChannels, RP!OpenChannels,
         Registry!from_wire_accepts, RP!from_wire_accepts, Registry!join_group, RP!join_group,
         Registry!ids_collide, RP!ids_collide, Registry!group_takes, RP!group_takes,
         Registry!Groups, RP!Groups, Registry!Insert, RP!Insert

\* the same extended channels,
LEMMA SameOpenExtended ==
  ASSUME NEW c, NEW g, NEW p, NEW r, Registry!OpenExtendedSuccess(c, g, p, r)
  PROVE  RP!OpenExtendedSuccess(c, g, p, r)
  BY DEF Registry!OpenExtendedSuccess, RP!OpenExtendedSuccess,
         Registry!ServerMayOpen, RP!ServerMayOpen, Registry!OpenChannels, RP!OpenChannels,
         Registry!from_wire_accepts, RP!from_wire_accepts, Registry!join_group, RP!join_group,
         Registry!ids_collide, RP!ids_collide, Registry!group_takes, RP!group_takes,
         Registry!Groups, RP!Groups, Registry!Insert, RP!Insert,
         Registry!new_extended, RP!new_extended

\* close the same channels,
LEMMA SameClose ==
  ASSUME NEW id, Registry!CloseChannel(id)
  PROVE  RP!CloseChannel(id)
  BY DEF Registry!CloseChannel, RP!CloseChannel, Registry!OpenChannels, RP!OpenChannels,
         Registry!addressed_channels, RP!addressed_channels, Registry!Groups, RP!Groups,
         Registry!without_members, RP!without_members, Registry!Restrict, RP!Restrict

\* redefine the same groups,
LEMMA SameSetGroup ==
  ASSUME NEW g, NEW S, Registry!SetGroupChannel(g, S)
  PROVE  RP!SetGroupChannel(g, S)
  BY DEF Registry!SetGroupChannel, RP!SetGroupChannel, Registry!OpenChannels, RP!OpenChannels,
         Registry!full_extranonce_size, RP!full_extranonce_size, Registry!Groups, RP!Groups,
         Registry!redefine_group, RP!redefine_group, Registry!Restrict, RP!Restrict,
         Registry!without_members, RP!without_members, Registry!Insert, RP!Insert

\* and fail alike.
LEMMA SamePoisonLock == Registry!PoisonLock => RP!PoisonLock
  BY DEF Registry!PoisonLock, RP!PoisonLock, Registry!OpenChannels, RP!OpenChannels,
         Registry!registry, RP!registry

\* A handler that fails with the maps as they were.
Fails ==
  /\ connection = "open" /\ connection' = "failed"
  /\ UNCHANGED <<requires_standard_jobs, maps>>

\* What a step of Connection is for the registry.
RegistryStep ==
  \/ \E c, g \in Ids, p \in PrefixSizes : Registry!OpenStandardSuccess(c, g, p)
  \/ \E c, g \in Ids, p \in PrefixSizes, r \in RollableSizes :
       Registry!OpenExtendedSuccess(c, g, p, r)
  \/ \E id \in Ids : Registry!CloseChannel(id)
  \/ \E g \in Ids, S \in SUBSET Ids : Registry!SetGroupChannel(g, S)
  \/ Registry!PoisonLock
  \/ Fails
  \/ UNCHANGED registry

\* A frame passed on leaves the registry as it is.
LEMMA PassingOnStays ==
  ASSUME NEW id,
         \/ handle_new_mining_job(id)
         \/ handle_new_extended_mining_job(id)
         \/ \E job \in Jobs : handle_set_new_prev_hash(id, job)
         \/ \E target \in Targets : handle_set_target(id, target)
  PROVE  UNCHANGED registry
  BY DEF handle_new_mining_job, handle_new_extended_mining_job, handle_set_new_prev_hash,
         handle_set_target, NewJob, PassOn

\* No step of Connection does anything else to the registry.
LEMMA StepOfRegistry == [Next]_vars => RegistryStep
  <1> SUFFICES ASSUME [Next]_vars  PROVE RegistryStep
    OBVIOUS
  <1>1. ASSUME NEW c \in Ids, NEW g \in Ids, NEW p \in PrefixSizes,
               handle_open_standard_mining_channel_success(c, g, p)
        PROVE  RegistryStep
    BY <1>1 DEF handle_open_standard_mining_channel_success, RegistryStep
  <1>2. ASSUME NEW c \in Ids, NEW g \in Ids, NEW p \in PrefixSizes, NEW r \in RollableSizes,
               handle_open_extended_mining_channel_success(c, g, p, r)
        PROVE  RegistryStep
    BY <1>2 DEF handle_open_extended_mining_channel_success, RegistryStep
  <1>3. ASSUME NEW kind \in Kinds, handle_open_mining_channel_error(kind)
        PROVE  RegistryStep
    BY <1>3 DEF handle_open_mining_channel_error, RegistryStep
  <1>4. ASSUME NEW id \in Ids, handle_close_channel(id)
        PROVE  RegistryStep
    BY <1>4 DEF handle_close_channel, RegistryStep
  <1>5. ASSUME NEW g \in Ids, NEW S \in SUBSET Ids, handle_set_group_channel(g, S)
        PROVE  RegistryStep
    BY <1>5 DEF handle_set_group_channel, RegistryStep
  <1>6. ASSUME NEW id \in Ids,
               \/ handle_new_mining_job(id)
               \/ handle_new_extended_mining_job(id)
               \/ \E job \in Jobs : handle_set_new_prev_hash(id, job)
               \/ \E target \in Targets : handle_set_target(id, target)
        PROVE  RegistryStep
    BY <1>6, PassingOnStays DEF RegistryStep
  <1>7. ASSUME NEW c \in Ids, Reach(c)
        PROVE  RegistryStep
    BY <1>7 DEF Reach, RegistryStep, Fails, registry, maps
  <1>8. ASSUME NEW c \in Ids, TaskPanics(c)
        PROVE  RegistryStep
    BY <1>8 DEF TaskPanics, RegistryStep
  <1>9. ASSUME Returned \/ Silent \/ UNCHANGED vars
        PROVE  RegistryStep
    BY <1>9 DEF Returned, Silent, vars, RegistryStep, Registry!Returned, Registry!vars,
                Registry!registry, registry, maps
  <1> QED
    BY <1>1, <1>2, <1>3, <1>4, <1>5, <1>6, <1>7, <1>8, <1>9 DEF Next

\* In the words of ChannelManager.
LEMMA StepIsRegistrys == [Next]_vars => [Registry!Next]_(Registry!vars)
  <1>1. Fails => Registry!SetCustomMiningJobReply
    BY DEF Fails, maps, Registry!SetCustomMiningJobReply, Registry!registry
  <1>2. UNCHANGED registry => UNCHANGED Registry!vars
    BY DEF registry, maps, Registry!vars, Registry!registry
  <1>3. RegistryStep => [Registry!Next]_(Registry!vars)
    BY <1>1, <1>2, Zenon DEF RegistryStep, Registry!Next
  <1> QED
    BY <1>3, StepOfRegistry

\* And of ChannelManagerProofs.
LEMMA StepIsRP == [Next]_vars => [RP!Next]_(RP!vars)
  <1>1. Fails => RP!SetCustomMiningJobReply
    BY DEF Fails, maps, RP!SetCustomMiningJobReply, RP!registry
  <1>2. UNCHANGED registry => UNCHANGED RP!vars
    BY DEF registry, maps, RP!vars, RP!registry
  <1>3. RegistryStep => [RP!Next]_(RP!vars)
    BY <1>1, <1>2, SameOpenStandard, SameOpenExtended, SameClose, SameSetGroup,
       SamePoisonLock, Zenon
    DEF RegistryStep, RP!Next
  <1> QED
    BY <1>3, StepOfRegistry

\* The registry of the composition is ChannelManager with a server that opens
\* each channel under a fresh id and changes no prefix length: no handler of
\* the composition, whole or half-way, does to the maps what ChannelManager's
\* does not.
THEOREM ConnectionDrivesRegistry == Spec => Registry!Spec
  <1>1. Init => Registry!Init
    BY DEF Init
  <1> QED
    BY <1>1, StepIsRegistrys, PTL DEF Spec, Registry!Spec

\* So the registry's inductive invariant holds here.
LEMMA UniformGroupsAlways == Spec => []RP!UniformGroups
  <1>1. Init => RP!UniformGroups
    <2>1. Init => RP!Init
      BY DEF Init, Registry!Init, RP!Init
    <2> QED
      BY <2>1, RegistryConstants, RP!UniformGroupsInit
  <1>2. RP!UniformGroups /\ [Next]_vars => RP!UniformGroups'
    BY RegistryConstants, StepIsRP, RP!UniformGroupsInductive
  <1> QED
    BY <1>1, <1>2, PTL DEF Spec

\* Behind a server that keeps to the protocol the three maps therefore keep what the
\* registry promises: they are one function from channels to groups, and only a
\* regrouping moves a channel that stays open.
THEOREM PromisesHold ==
  Spec => RP!ImplementsMembership /\ RP!OnlyRegroupingMovesChannels
  <1>1. Init => RP!Init
    BY DEF Init, Registry!Init, RP!Init
  <1>2. Spec => RP!Spec
    BY <1>1, StepIsRP, PTL DEF Spec, RP!Spec
  <1>3. RP!Spec => RP!ImplementsMembership
    BY RegistryConstants, RP!RegistryImplementsMembership
  <1>4. RP!Spec => RP!OnlyRegroupingMovesChannels
    BY RegistryConstants, RP!OnlyRegroupingMoves
  <1> QED
    BY <1>2, <1>3, <1>4

-----------------------------------------------------------------------------
(* Types *)

\* TypeOK, with a miner for every channel, and a frame that can be taken while
\* channels are left to reach.
Typed ==
  /\ TypeOK
  /\ DOMAIN miners = Registry!OpenChannels
  /\ handling.left # {} => handling.frame \in Frames

\* A frame makes work of work.
LEMMA TakenIsWork ==
  ASSUME NEW work \in Work, NEW frame \in Frames
  PROVE  taken(work, frame) \in Work
  <1>1. CASE frame \in [type : {"job"}, job : Jobs, future : BOOLEAN]
    <2>1. CASE frame.future
      BY <1>1, <2>1 DEF taken, Work
    <2>2. CASE ~frame.future
      BY <1>1, <2>2 DEF taken, Work
    <2> QED
      BY <2>1, <2>2
  <1>2. CASE frame \in [type : {"SetNewPrevHash"}, job : Jobs]
    BY <1>2 DEF taken, Work
  <1>3. CASE frame \in [type : {"SetTarget"}, target : Targets]
    BY <1>3 DEF taken, Work
  <1> QED
    BY <1>1, <1>2, <1>3 DEF Frames

\* Insert adds one key to a map and changes no other entry.
LEMMA InsertFacts ==
  ASSUME NEW Value, NEW map, Registry!IsMap(map, Value), NEW key \in Ids, NEW value \in Value
  PROVE  /\ Registry!IsMap(Registry!Insert(map, key, value), Value)
         /\ DOMAIN Registry!Insert(map, key, value) = DOMAIN map \cup {key}
         /\ Registry!Insert(map, key, value)[key] = value
         /\ \A k \in DOMAIN map \ {key} : Registry!Insert(map, key, value)[k] = map[k]
  BY DEF Registry!Insert, Registry!IsMap

\* Restrict keeps the entries of some keys.
LEMMA RestrictFacts ==
  ASSUME NEW Value, NEW map, Registry!IsMap(map, Value), NEW S
  PROVE  /\ S \subseteq DOMAIN map => Registry!IsMap(Restrict(map, S), Value)
         /\ DOMAIN Restrict(map, S) = S
         /\ \A k \in S : Restrict(map, S)[k] = map[k]
  BY DEF Restrict, Registry!IsMap

\* The frames the handlers pass on.
LEMMA FrameTypes ==
  /\ \A future \in BOOLEAN :
       jobs \in 0..MaxJobs /\ jobs < MaxJobs
         => [type |-> "job", job |-> jobs + 1, future |-> future] \in Frames
  /\ \A job \in Jobs : [type |-> "SetNewPrevHash", job |-> job] \in Frames
  /\ \A target \in Targets : [type |-> "SetTarget", target |-> target] \in Frames
  BY ConnectionAssumption DEF Frames, Jobs

\* What a handler that passes a frame on passes on, and to whom.
LEMMA PassingOn ==
  ASSUME Typed, NEW id \in Ids,
         \/ handle_new_mining_job(id)
         \/ handle_new_extended_mining_job(id)
         \/ \E job \in Jobs : handle_set_new_prev_hash(id, job)
         \/ \E target \in Targets : handle_set_target(id, target)
  PROVE  /\ \E frame \in Frames : \E receivers :
              /\ PassOn(frame, id, receivers)
              /\ \/ /\ id \in DOMAIN view /\ view[id].kind = "standard"
                    /\ receivers = {id} \cap DOMAIN standard_channels
                 \/ /\ id \in DOMAIN view => view[id].kind = "extended"
                    /\ receivers = IF id \in Registry!Groups
                                   THEN Registry!addressed_channels(id)
                                   ELSE {id} \cap DOMAIN extended_channels
                 \/ receivers = Registry!addressed_channels(id)
         /\ jobs' \in 0..MaxJobs
  <1>1. jobs \in 0..MaxJobs
    BY DEF Typed, TypeOK
  <1>2. ASSUME NEW receivers, NewJob(id, receivers)
        PROVE  (\E frame \in Frames : PassOn(frame, id, receivers)) /\ jobs' \in 0..MaxJobs
    <2>1. jobs < MaxJobs /\ jobs' = jobs + 1
      BY <1>2 DEF NewJob
    <2>2. PICK future \in BOOLEAN :
            PassOn([type |-> "job", job |-> jobs + 1, future |-> future], id, receivers)
      BY <1>2 DEF NewJob
    <2>3. jobs' \in 0..MaxJobs
      BY <1>1, <2>1, ConnectionAssumption
    <2>4. [type |-> "job", job |-> jobs + 1, future |-> future] \in Frames
      BY <1>1, <2>1, FrameTypes
    <2> QED
      BY <2>2, <2>3, <2>4
  <1>3. CASE handle_new_mining_job(id)
    <2>1. /\ id \in DOMAIN view /\ view[id].kind = "standard"
          /\ NewJob(id, {id} \cap DOMAIN standard_channels)
      BY <1>3 DEF handle_new_mining_job
    <2> QED
      BY <1>2, <2>1
  <1>4. CASE handle_new_extended_mining_job(id)
    <2>1. /\ id \in DOMAIN view => view[id].kind = "extended"
          /\ NewJob(id, IF id \in Registry!Groups THEN Registry!addressed_channels(id)
                        ELSE {id} \cap DOMAIN extended_channels)
      BY <1>4 DEF handle_new_extended_mining_job
    <2> QED
      BY <1>2, <2>1
  <1>5. CASE \E job \in Jobs : handle_set_new_prev_hash(id, job)
    <2>1. PICK job \in Jobs : handle_set_new_prev_hash(id, job)
      BY <1>5
    <2>2. /\ PassOn([type |-> "SetNewPrevHash", job |-> job], id,
                    Registry!addressed_channels(id))
          /\ jobs' = jobs
      BY <2>1 DEF handle_set_new_prev_hash
    <2> QED
      BY <1>1, <2>2, FrameTypes
  <1>6. CASE \E target \in Targets : handle_set_target(id, target)
    <2>1. PICK target \in Targets : handle_set_target(id, target)
      BY <1>6
    <2>2. /\ PassOn([type |-> "SetTarget", target |-> target], id,
                    Registry!addressed_channels(id))
          /\ jobs' = jobs
      BY <2>1 DEF handle_set_target
    <2> QED
      BY <1>1, <2>2, FrameTypes
  <1> QED
    BY <1>3, <1>4, <1>5, <1>6

-----------------------------------------------------------------------------
(* What each step does to the view, the miners and the frame in hand *)

\* The work of a channel just opened.
FirstWork == [future_jobs |-> {}, active_job |-> 0, target |-> FirstTarget]

\* An answer adds one channel to the view, and its miner where it is registered.
LEMMA AnswerFacts ==
  ASSUME Typed, NEW kind \in Kinds, NEW c \in Ids, NEW g \in Ids, NEW size \in Nat,
         Answer(kind, c, g, size)
  PROVE  /\ Idle /\ ServerMayOpen(c, g, size)
         /\ Registry!IsMap(view', Entry)
         /\ DOMAIN view' = DOMAIN view \cup {c}
         /\ view'[c] = [kind |-> kind, size |-> size, group |-> g, work |-> FirstWork]
         /\ \A d \in DOMAIN view \ {c} : view'[d] = view[d]
         /\ Registry!IsMap(miners', Miner)
         /\ c \in Registry!OpenChannels' =>
              /\ DOMAIN miners' = DOMAIN miners \cup {c}
              /\ miners'[c] = [work |-> FirstWork, poisoned |-> FALSE]
              /\ \A d \in DOMAIN miners \ {c} : miners'[d] = miners[d]
         /\ unanswered' \in [Kinds -> Nat]
         /\ UNCHANGED <<handling, jobs>>
  <1> DEFINE entry == [kind |-> kind, size |-> size, group |-> g, work |-> FirstWork]
             miner == [work |-> FirstWork, poisoned |-> FALSE]
  <1>1. FirstWork \in Work
    BY ConnectionAssumption DEF FirstWork, Work
  <1>2. entry \in Entry /\ miner \in Miner
    BY <1>1 DEF Entry, Miner
  <1>3. /\ view' = Registry!Insert(view, c, entry)
        /\ c \in Registry!OpenChannels' => miners' = Registry!Insert(miners, c, miner)
        /\ c \notin Registry!OpenChannels' => miners' = miners
    BY DEF Answer, FirstWork
  <1>4. Registry!IsMap(view, Entry) /\ Registry!IsMap(miners, Miner)
    BY DEF Typed, TypeOK
  <1>5. unanswered' \in [Kinds -> Nat]
    <2>1. /\ unanswered \in [Kinds -> Nat] /\ unanswered[kind] > 0
          /\ unanswered' = [unanswered EXCEPT ![kind] = @ - 1]
      BY DEF Answer, Typed, TypeOK
    <2> QED
      BY <2>1
  <1>6. Idle /\ ServerMayOpen(c, g, size) /\ UNCHANGED <<handling, jobs>>
    BY DEF Answer
  <1> HIDE DEF entry, miner
  <1>7. /\ Registry!IsMap(view', Entry)
        /\ DOMAIN view' = DOMAIN view \cup {c}
        /\ view'[c] = entry
        /\ \A d \in DOMAIN view \ {c} : view'[d] = view[d]
    BY <1>2, <1>3, <1>4, InsertFacts
  <1>8. /\ Registry!IsMap(miners', Miner)
        /\ c \in Registry!OpenChannels' =>
             /\ DOMAIN miners' = DOMAIN miners \cup {c}
             /\ miners'[c] = miner
             /\ \A d \in DOMAIN miners \ {c} : miners'[d] = miners[d]
    <2>1. CASE c \in Registry!OpenChannels'
      <3>1. miners' = Registry!Insert(miners, c, miner)
        BY <1>3, <2>1
      <3>2. /\ Registry!IsMap(miners', Miner)
            /\ DOMAIN miners' = DOMAIN miners \cup {c}
            /\ miners'[c] = miner
            /\ \A d \in DOMAIN miners \ {c} : miners'[d] = miners[d]
        BY <1>2, <1>4, <3>1, InsertFacts
      <3> QED
        BY <3>2
    <2>2. CASE c \notin Registry!OpenChannels'
      BY <1>3, <1>4, <2>2
    <2> QED
      BY <2>1, <2>2
  <1> QED
    BY <1>5, <1>6, <1>7, <1>8 DEF entry, miner

\* The channels the server means are gone from its view.
LEMMA CloseFacts ==
  ASSUME Typed, NEW id \in Ids, handle_close_channel(id)
  PROVE  /\ Idle /\ Registry!CloseChannel(id)
         /\ Registry!IsMap(view', Entry)
         /\ DOMAIN view' = DOMAIN view \ Meant(id)
         /\ \A c \in DOMAIN view' : view'[c] = view[c]
         /\ DOMAIN miners' = Registry!OpenChannels'
         /\ \A c \in DOMAIN miners' : miners'[c] = miners[c]
         /\ Registry!OpenChannels' \subseteq DOMAIN miners => Registry!IsMap(miners', Miner)
         /\ UNCHANGED <<handling, unanswered, jobs>>
  <1>1. Registry!IsMap(view, Entry) /\ Registry!IsMap(miners, Miner)
    BY DEF Typed, TypeOK
  <1>2. /\ view' = Restrict(view, DOMAIN view \ Meant(id))
        /\ miners' = Restrict(miners, Registry!OpenChannels')
        /\ Idle /\ Registry!CloseChannel(id) /\ UNCHANGED <<handling, unanswered, jobs>>
    BY DEF handle_close_channel
  <1>3. /\ Registry!IsMap(view', Entry)
        /\ DOMAIN view' = DOMAIN view \ Meant(id)
        /\ \A c \in DOMAIN view' : view'[c] = view[c]
    BY <1>1, <1>2, RestrictFacts
  <1>4. /\ DOMAIN miners' = Registry!OpenChannels'
        /\ \A c \in DOMAIN miners' : miners'[c] = miners[c]
        /\ Registry!OpenChannels' \subseteq DOMAIN miners => Registry!IsMap(miners', Miner)
    BY <1>1, <1>2, RestrictFacts
  <1> QED
    BY <1>2, <1>3, <1>4

\* The listed channels are in the group, and those it had are in none.
LEMMA SetGroupFacts ==
  ASSUME Typed, NEW g \in Ids, NEW S \in SUBSET Ids, handle_set_group_channel(g, S)
  PROVE  /\ Registry!IsMap(view', Entry)
         /\ DOMAIN view' = DOMAIN view
         /\ S \subseteq DOMAIN view
         /\ \A c \in DOMAIN view :
              /\ view'[c].kind = view[c].kind
              /\ view'[c].size = view[c].size
              /\ view'[c].work = view[c].work
              /\ view'[c].group = IF c \in S THEN g
                                  ELSE IF view[c].group = g THEN NoGroup ELSE view[c].group
         /\ Idle
         /\ Registry!SetGroupChannel(g, S) \/ Registry!PoisonLock
         /\ UNCHANGED <<miners, handling, unanswered, jobs>>
  <1> DEFINE group(c) == IF c \in S THEN g
                         ELSE IF view[c].group = g THEN NoGroup ELSE view[c].group
  <1>1. Registry!IsMap(view, Entry)
    BY DEF Typed, TypeOK
  <1>2. view' = [c \in DOMAIN view |-> [view[c] EXCEPT !.group = group(c)]]
    BY DEF handle_set_group_channel
  <1>3. ASSUME NEW c \in DOMAIN view
        PROVE  /\ view'[c] \in Entry
               /\ view'[c].kind = view[c].kind
               /\ view'[c].size = view[c].size
               /\ view'[c].work = view[c].work
               /\ view'[c].group = group(c)
    <2>1. view[c] \in Entry
      BY <1>1 DEF Registry!IsMap
    <2>2. group(c) \in Ids \cup {NoGroup}
      BY <2>1 DEF Entry
    <2>3. view'[c] = [view[c] EXCEPT !.group = group(c)]
      BY <1>2
    <2> HIDE DEF group
    <2> QED
      BY <2>1, <2>2, <2>3 DEF Entry
  <1>4. DOMAIN view' = DOMAIN view
    BY <1>2
  <1>5. Registry!IsMap(view', Entry)
    <2>1. view' = [c \in DOMAIN view |-> view'[c]]
      BY <1>2
    <2> QED
      BY <1>1, <1>3, <2>1 DEF Registry!IsMap
  <1>6. /\ S \subseteq DOMAIN view /\ Idle
        /\ Registry!SetGroupChannel(g, S) \/ Registry!PoisonLock
        /\ UNCHANGED <<miners, handling, unanswered, jobs>>
    BY DEF handle_set_group_channel
  <1> QED
    BY <1>3, <1>4, <1>5, <1>6

\* The channels meant have the frame's work in the view, and the receivers have
\* it to take.
LEMMA PassOnFacts ==
  ASSUME Typed, NEW id \in Ids, NEW frame \in Frames, NEW receivers,
         PassOn(frame, id, receivers)
  PROVE  /\ Idle /\ ServerMaySend(frame, Meant(id))
         /\ Registry!IsMap(view', Entry)
         /\ DOMAIN view' = DOMAIN view
         /\ \A c \in DOMAIN view :
              /\ view'[c].kind = view[c].kind
              /\ view'[c].size = view[c].size
              /\ view'[c].group = view[c].group
              /\ view'[c].work = IF c \in Meant(id) THEN taken(view[c].work, frame)
                                                    ELSE view[c].work
         /\ handling' = [frame |-> frame, left |-> receivers]
         /\ UNCHANGED <<registry, miners, unanswered>>
  <1> DEFINE work(c) == taken(view[c].work, frame)
  <1>1. Registry!IsMap(view, Entry)
    BY DEF Typed, TypeOK
  <1>2. view' = [c \in DOMAIN view |->
                   IF c \in Meant(id) THEN [view[c] EXCEPT !.work = work(c)] ELSE view[c]]
    BY DEF PassOn
  <1>3. ASSUME NEW c \in DOMAIN view
        PROVE  /\ view'[c] \in Entry
               /\ view'[c].kind = view[c].kind
               /\ view'[c].size = view[c].size
               /\ view'[c].group = view[c].group
               /\ view'[c].work = IF c \in Meant(id) THEN work(c) ELSE view[c].work
    <2>1. view[c] \in Entry
      BY <1>1 DEF Registry!IsMap
    <2>2. work(c) \in Work
      BY <2>1, TakenIsWork DEF Entry
    <2>3. view'[c] = IF c \in Meant(id) THEN [view[c] EXCEPT !.work = work(c)] ELSE view[c]
      BY <1>2
    <2> HIDE DEF work
    <2> QED
      BY <2>1, <2>2, <2>3 DEF Entry
  <1>4. DOMAIN view' = DOMAIN view
    BY <1>2
  <1>5. Registry!IsMap(view', Entry)
    <2>1. view' = [c \in DOMAIN view |-> view'[c]]
      BY <1>2
    <2> QED
      BY <1>1, <1>3, <2>1 DEF Registry!IsMap
  <1>6. /\ Idle /\ ServerMaySend(frame, Meant(id))
        /\ handling' = [frame |-> frame, left |-> receivers]
        /\ UNCHANGED <<registry, miners, unanswered>>
    BY DEF PassOn
  <1> QED
    BY <1>3, <1>4, <1>5, <1>6

\* A channel reached takes the frame, unless its lock is poisoned or it refuses.
LEMMA ReachFacts ==
  ASSUME Typed, NEW c \in Ids, Reach(c)
  PROVE  /\ c \in handling.left /\ handling.frame \in Frames
         /\ UNCHANGED <<requires_standard_jobs, maps, server>>
         /\ Registry!IsMap(miners', Miner)
         /\ DOMAIN miners' = DOMAIN miners
         /\ \A d \in DOMAIN miners \ {c} : miners'[d] = miners[d]
         /\ \/ connection' = "failed" /\ UNCHANGED <<miners, handling>>
            \/ /\ UNCHANGED connection
               /\ c \in DOMAIN miners /\ lib_takes(miners[c].work, handling.frame)
                    => miners'[c].work = taken(miners[c].work, handling.frame)
               /\ handling'.left = handling.left \ {c}
               /\ handling'.left # {} => handling'.frame = handling.frame
               /\ handling' \in [frame : Frames \cup {NoFrame}, left : SUBSET Ids]
  <1> DEFINE work == taken(miners[c].work, handling.frame)
  <1>1. /\ Registry!IsMap(miners, Miner)
        /\ handling \in [frame : Frames \cup {NoFrame}, left : SUBSET Ids]
        /\ c \in handling.left /\ handling.frame \in Frames
        /\ UNCHANGED <<requires_standard_jobs, maps, server>>
    BY DEF Typed, TypeOK, Reach
  <1>2. CASE connection' = "failed" /\ UNCHANGED <<miners, handling>>
    BY <1>1, <1>2
  <1>3. CASE /\ UNCHANGED connection
             /\ miners' = IF c \in DOMAIN miners /\ lib_takes(miners[c].work, handling.frame)
                          THEN [miners EXCEPT ![c].work = work]
                          ELSE miners
             /\ handling' = IF handling.left = {c} THEN Nothing
                            ELSE [handling EXCEPT !.left = handling.left \ {c}]
    <2>1. /\ Registry!IsMap(miners', Miner)
          /\ DOMAIN miners' = DOMAIN miners
          /\ \A d \in DOMAIN miners \ {c} : miners'[d] = miners[d]
          /\ c \in DOMAIN miners /\ lib_takes(miners[c].work, handling.frame)
               => miners'[c].work = work
      <3>1. CASE c \in DOMAIN miners /\ lib_takes(miners[c].work, handling.frame)
        <4>1. miners[c] \in Miner
          BY <1>1, <3>1 DEF Registry!IsMap
        <4>2. work \in Work
          BY <1>1, <4>1, TakenIsWork DEF Miner
        <4>3. miners' = [miners EXCEPT ![c].work = work]
          BY <1>3, <3>1
        <4> HIDE DEF work
        <4>4. [miners[c] EXCEPT !.work = work] \in Miner
          BY <4>1, <4>2 DEF Miner
        <4>5. miners'[c] = [miners[c] EXCEPT !.work = work]
          BY <1>1, <3>1, <4>3
        <4>6. miners'[c].work = work
          BY <4>1, <4>5 DEF Miner
        <4> QED
          BY <1>1, <4>3, <4>4, <4>5, <4>6 DEF Registry!IsMap
      <3>2. CASE ~(c \in DOMAIN miners /\ lib_takes(miners[c].work, handling.frame))
        <4>1. miners' = miners
          BY <1>3, <3>2
        <4> QED
          BY <1>1, <3>2, <4>1
      <3> QED
        BY <3>1, <3>2
    <2>2. /\ handling'.left = handling.left \ {c}
          /\ handling'.left # {} => handling'.frame = handling.frame
          /\ handling' \in [frame : Frames \cup {NoFrame}, left : SUBSET Ids]
      <3>1. CASE handling.left = {c}
        BY <1>3, <3>1 DEF Nothing
      <3>2. CASE handling.left # {c}
        BY <1>1, <1>3, <3>2
      <3> QED
        BY <3>1, <3>2
    <2> QED
      BY <1>1, <1>3, <2>1, <2>2
  <1> QED
    BY <1>2, <1>3 DEF Reach

\* A task that panics leaves its channel's work as it is.
LEMMA PanicFacts ==
  ASSUME Typed, NEW c \in Ids, TaskPanics(c)
  PROVE  /\ Registry!IsMap(miners', Miner)
         /\ DOMAIN miners' = DOMAIN miners
         /\ \A d \in DOMAIN miners : miners'[d].work = miners[d].work
         /\ UNCHANGED <<registry, handling, server>>
  <1>1. /\ Registry!IsMap(miners, Miner) /\ c \in DOMAIN miners
        /\ miners' = [miners EXCEPT ![c].poisoned = TRUE]
        /\ UNCHANGED <<registry, handling, server>>
    BY DEF Typed, TypeOK, TaskPanics
  <1>2. \A d \in DOMAIN miners : miners[d] \in Miner
    BY <1>1 DEF Registry!IsMap
  <1>3. \A d \in DOMAIN miners : miners'[d] \in Miner /\ miners'[d].work = miners[d].work
    BY <1>1, <1>2 DEF Miner
  <1> QED
    BY <1>1, <1>3 DEF Registry!IsMap

-----------------------------------------------------------------------------
(* The type invariant *)

\* The empty connection is well typed.
LEMMA TypedInit == Init => Typed
  <1> SUFFICES ASSUME Init  PROVE Typed
    OBVIOUS
  <1>1. DOMAIN << >> = {}
    OBVIOUS
  <1>2. \A Value : Registry!IsMap(<< >>, Value)
    BY <1>1 DEF Registry!IsMap
  <1>3. Registry!TypeOK
    BY <1>2 DEF Init, Registry!Init, Registry!TypeOK, Registry!MapsOK
  <1>4. unanswered \in [Kinds -> Nat]
    BY ConnectionAssumption DEF Init, Kinds
  <1>5. jobs \in 0..MaxJobs
    BY ConnectionAssumption DEF Init
  <1>6. /\ handling \in [frame : Frames \cup {NoFrame}, left : SUBSET Ids]
        /\ handling.left = {}
    BY DEF Init, Nothing
  <1>7. DOMAIN miners = Registry!OpenChannels
    BY <1>1 DEF Init, Registry!Init, Registry!OpenChannels
  <1> QED
    BY <1>2, <1>3, <1>4, <1>5, <1>6, <1>7 DEF Init, Typed, TypeOK

\* Where the registry stays, its channels and groups do.
LEMMA RegistryUnchanged ==
  ASSUME UNCHANGED registry
  PROVE  /\ UNCHANGED <<standard_channels, extended_channels, group_channels, connection>>
         /\ Registry!OpenChannels' = Registry!OpenChannels
         /\ Registry!Groups' = Registry!Groups
  BY DEF registry, maps, Registry!OpenChannels, Registry!Groups

\* The sizes of the channels in an OpenMiningChannel.Success are numbers.
LEMMA SizesAreNumbers ==
  /\ \A p \in PrefixSizes : p \in Nat
  /\ \A p \in PrefixSizes, r \in RollableSizes : p + r \in Nat
  <1>1. PrefixSizes \subseteq Nat /\ RollableSizes \subseteq Nat
    BY ConnectionAssumption
  <1> QED
    BY <1>1

\* Every step keeps the types: the registry's by its own invariant.
LEMMA TypedInductive ==
  ASSUME Typed, RP!UniformGroups, RP!UniformGroups', [Next]_vars
  PROVE  Typed'
  <1> DEFINE MinersOK == /\ Registry!IsMap(miners, Miner)
                         /\ DOMAIN miners = Registry!OpenChannels
             ViewOK == Registry!IsMap(view, Entry)
             HandlingOK ==
               /\ handling \in [frame : Frames \cup {NoFrame}, left : SUBSET Ids]
               /\ handling.left # {} => handling.frame \in Frames
             CountsOK == unanswered \in [Kinds -> Nat] /\ jobs \in 0..MaxJobs
             Parts == MinersOK /\ ViewOK /\ HandlingOK /\ CountsOK
  <1>1. Parts
    BY DEF Typed, TypeOK
  <1>2. Registry!TypeOK'
    <2>1. RP!MapsOK'
      BY DEF RP!UniformGroups, RP!FreshLookups, RP!Lookups
    <2>2. requires_standard_jobs' = requires_standard_jobs
      BY RegistryConstants, StepIsRP, RP!ConfigurationStays
    <2>3. requires_standard_jobs \in BOOLEAN
      BY DEF Typed, TypeOK, Registry!TypeOK
    <2>4. RP!TypeOK'
      BY <2>1, <2>2, <2>3 DEF RP!TypeOK
    <2>5. Registry!TypeOK' <=> RP!TypeOK'
      BY SameState, PTL
    <2> QED
      BY <2>4, <2>5
  <1>3. ASSUME NEW kind \in Kinds, NEW c \in Ids, NEW g \in Ids, NEW size \in Nat,
               Answer(kind, c, g, size),
               Registry!OpenChannels' \in {Registry!OpenChannels,
                                           Registry!OpenChannels \cup {c}}
        PROVE  Parts'
    <2>1. c \in Registry!OpenChannels' \/ miners' = miners
      BY <1>3 DEF Answer
    <2>2. DOMAIN miners' = Registry!OpenChannels'
      BY <1>1, <1>3, <2>1, AnswerFacts
    <2> QED
      BY <1>1, <1>3, <2>2, AnswerFacts
  <1>4. ASSUME NEW c \in Ids, NEW g \in Ids, NEW p \in PrefixSizes,
               handle_open_standard_mining_channel_success(c, g, p)
        PROVE  Parts'
    <2>1. Answer("standard", c, g, p)
      BY <1>4 DEF handle_open_standard_mining_channel_success
    <2>2. "standard" \in Kinds /\ p \in Nat
      BY SizesAreNumbers DEF Kinds
    <2>3. Registry!OpenChannels' \in {Registry!OpenChannels, Registry!OpenChannels \cup {c}}
      BY <1>4 DEF handle_open_standard_mining_channel_success, Registry!OpenStandardSuccess,
                  Registry!OpenChannels, Registry!Insert, registry, maps
    <2> QED
      BY <1>3, <2>1, <2>2, <2>3
  <1>5. ASSUME NEW c \in Ids, NEW g \in Ids, NEW p \in PrefixSizes, NEW r \in RollableSizes,
               handle_open_extended_mining_channel_success(c, g, p, r)
        PROVE  Parts'
    <2>1. Answer("extended", c, g, p + r)
      BY <1>5 DEF handle_open_extended_mining_channel_success
    <2>2. "extended" \in Kinds /\ p + r \in Nat
      BY SizesAreNumbers DEF Kinds
    <2>3. Registry!OpenChannels' \in {Registry!OpenChannels, Registry!OpenChannels \cup {c}}
      BY <1>5 DEF handle_open_extended_mining_channel_success, Registry!OpenExtendedSuccess,
                  Registry!OpenChannels, Registry!Insert, registry, maps
    <2> QED
      BY <1>3, <2>1, <2>2, <2>3
  <1>6. ASSUME NEW kind \in Kinds, handle_open_mining_channel_error(kind)
        PROVE  Parts'
    BY <1>1, <1>6, RegistryUnchanged DEF handle_open_mining_channel_error
  <1>7. ASSUME NEW id \in Ids, handle_close_channel(id)
        PROVE  Parts'
    <2>1. Registry!OpenChannels' \subseteq DOMAIN miners
      <3>1. RP!OpenChannels' \subseteq RP!OpenChannels
        <4>1. RP!CloseChannel(id) /\ RP!MapsOK
          BY <1>7, SameClose
          DEF handle_close_channel, RP!UniformGroups, RP!FreshLookups, RP!Lookups
        <4> QED
          BY <4>1, RegistryConstants, RP!CloseFacts DEF RP!OpenChannels
      <3>2. Registry!OpenChannels' = RP!OpenChannels'
        BY DEF Registry!OpenChannels, RP!OpenChannels
      <3> QED
        BY <1>1, <3>1, <3>2, SameState
    <2> QED
      BY <1>1, <1>7, <2>1, CloseFacts
  <1>8. ASSUME NEW g \in Ids, NEW S \in SUBSET Ids, handle_set_group_channel(g, S)
        PROVE  Parts'
    <2>1. Registry!OpenChannels' = Registry!OpenChannels
      BY <1>8, SetGroupFacts
      DEF Registry!SetGroupChannel, Registry!PoisonLock, Registry!registry,
          Registry!OpenChannels
    <2> QED
      BY <1>1, <1>8, <2>1, SetGroupFacts
  <1>9. ASSUME NEW id \in Ids,
               \/ handle_new_mining_job(id)
               \/ handle_new_extended_mining_job(id)
               \/ \E job \in Jobs : handle_set_new_prev_hash(id, job)
               \/ \E target \in Targets : handle_set_target(id, target)
        PROVE  Parts'
    <2>1. PICK frame, receivers :
            /\ frame \in Frames
            /\ PassOn(frame, id, receivers)
            /\ \/ receivers = {id} \cap DOMAIN standard_channels
               \/ receivers = IF id \in Registry!Groups
                              THEN Registry!addressed_channels(id)
                              ELSE {id} \cap DOMAIN extended_channels
               \/ receivers = Registry!addressed_channels(id)
      BY <1>9, PassingOn
    <2>2. jobs' \in 0..MaxJobs
      BY <1>9, PassingOn
    <2>3. Registry!addressed_channels(id) \subseteq Ids
      BY DEF Typed, TypeOK, Registry!TypeOK, Registry!MapsOK, Registry!IsMap,
             Registry!GroupEntry, Registry!addressed_channels, Registry!Groups
    <2>4. receivers \subseteq Ids
      BY <2>1, <2>3
    <2> QED
      BY <1>1, <2>1, <2>2, <2>4, PassOnFacts, RegistryUnchanged
  <1>10. ASSUME NEW c \in Ids, Reach(c)
         PROVE  Parts'
    BY <1>1, <1>10, ReachFacts DEF server, maps, Registry!OpenChannels
  <1>11. ASSUME NEW c \in Ids, TaskPanics(c)
         PROVE  Parts'
    BY <1>1, <1>11, PanicFacts, RegistryUnchanged DEF server
  <1>12. ASSUME Returned \/ Silent \/ UNCHANGED vars
         PROVE  Parts'
    <2>1. UNCHANGED vars
      BY <1>12 DEF Returned, Silent, vars, server, Registry!Returned, Registry!vars,
                   Registry!registry, registry, maps
    <2> QED
      BY <1>1, <2>1, RegistryUnchanged DEF vars, server
  <1>13. Parts'
    BY <1>4, <1>5, <1>6, <1>7, <1>8, <1>9, <1>10, <1>11, <1>12, Zenon DEF Next
  <1> QED
    BY <1>2, <1>13 DEF Typed, TypeOK

\* The types are an invariant.
LEMMA TypedAlways == Spec => [](Typed /\ RP!UniformGroups)
  <1>1. Typed /\ RP!UniformGroups /\ RP!UniformGroups' /\ [Next]_vars => Typed'
    BY TypedInductive
  <1> QED
    BY <1>1, TypedInit, UniformGroupsAlways, PTL DEF Spec

\* Views, miners, frames in hand and the registry's maps are well formed: no
\* lookup of the composition fails.
THEOREM TypeCorrect == Spec => []TypeOK
  <1>1. Typed => TypeOK
    BY DEF Typed
  <1> QED
    BY <1>1, TypedAlways, PTL

-----------------------------------------------------------------------------
(* The registry and the server's view *)

\* The server's view and the maps behind the registry's invariants.
Follows == Typed /\ RP!UniformGroups /\ RegistryFollowsTheServer

\* Both sides mean the same channels by an id.
LEMMA SameNames ==
  ASSUME Follows, connection = "open"
  PROVE  /\ DOMAIN view = RP!OpenChannels
         /\ \A id \in Ids :
              /\ Meant(id) = RP!Closed(id)
              /\ Meant(id) # {} => Meant(id) = RP!addressed_channels(id)
              /\ id \in RP!Groups => /\ Served(id) = group_channels[id].channel_ids
                                     /\ Served(id) # {}
              /\ id \notin RP!Groups => Served(id) = {}
              /\ id \in RP!Groups => id \notin RP!OpenChannels
  <1>1. DOMAIN view = RP!OpenChannels
    <2>1. \A c \in DOMAIN view : view[c].kind \in {"standard", "extended"}
      BY DEF Follows, Typed, TypeOK, Registry!IsMap, Entry, Kinds
    <2> QED
      BY <2>1 DEF Follows, RegistryFollowsTheServer, RP!OpenChannels
  <1>2. /\ \A g \in RP!Groups : /\ group_channels[g].channel_ids # {}
                                /\ group_channels[g].channel_ids \subseteq RP!OpenChannels
        /\ \A g \in RP!Groups : g \notin RP!OpenChannels
    BY DEF Follows, RP!UniformGroups, RP!FreshLookups, RP!Lookups,
           RP!GroupsListOpenChannels, RP!NamespaceDisjoint
  <1>3. \A g \in Ids : Served(g) = IF g \in RP!Groups
                                   THEN group_channels[g].channel_ids ELSE {}
    BY SameState DEF Follows, RegistryFollowsTheServer
  <1>4. ASSUME NEW id \in Ids
        PROVE  /\ Meant(id) = RP!Closed(id)
               /\ Meant(id) # {} => Meant(id) = RP!addressed_channels(id)
    <2>1. CASE id \in RP!OpenChannels
      BY <1>1, <1>2, <2>1 DEF Meant, RP!Closed, RP!addressed_channels
    <2>2. CASE id \notin RP!OpenChannels /\ id \in RP!Groups
      BY <1>1, <1>2, <1>3, <2>2 DEF Meant, RP!Closed, RP!addressed_channels
    <2>3. CASE id \notin RP!OpenChannels /\ id \notin RP!Groups
      BY <1>1, <1>3, <2>3 DEF Meant, RP!Closed, RP!addressed_channels
    <2> QED
      BY <2>1, <2>2, <2>3
  <1> QED
    BY <1>1, <1>2, <1>3, <1>4

\* The client can use what a server opens that goes by its view.
LEMMA AnswersAreUsable ==
  ASSUME Follows, connection = "open", NEW c \in Ids, NEW g \in Ids, NEW size \in Nat,
         ServerMayOpen(c, g, size)
  PROVE  /\ ~Registry!ids_collide(c, g)
         /\ Registry!group_takes(g, size)
  <1>1. /\ c \notin RP!OpenChannels /\ c \notin RP!Groups
        /\ g \notin RP!OpenChannels /\ g # c
    BY SameNames DEF ServerMayOpen
  <1>2. g \in RP!Groups => group_channels[g].full_extranonce_size = size
    <2> SUFFICES ASSUME g \in RP!Groups
                 PROVE  group_channels[g].full_extranonce_size = size
      OBVIOUS
    <2>1. PICK m : m \in Served(g) /\ m \in group_channels[g].channel_ids
      BY SameNames
    <2>2. view[m].size = size /\ m \in DOMAIN view
      BY <2>1 DEF ServerMayOpen, Served
    <2>3. RP!full_extranonce_size(m) = view[m].size
      BY <2>2, SameState DEF Follows, RegistryFollowsTheServer
    <2>4. RP!full_extranonce_size(m) = group_channels[g].full_extranonce_size
      BY <2>1 DEF Follows, RP!UniformGroups, RP!GroupSharesExtranonceSize
    <2> QED
      BY <2>2, <2>3, <2>4
  <1> QED
    BY <1>1, <1>2, SameState DEF Registry!ids_collide, Registry!group_takes

\* The members of a group, by the map and by the view, in a state where they
\* agree on kinds and sizes.
LEMMA FollowsNext ==
  ASSUME DOMAIN standard_channels' = {c \in DOMAIN view' : view'[c].kind = "standard"},
         DOMAIN extended_channels' = {c \in DOMAIN view' : view'[c].kind = "extended"},
         \A c \in DOMAIN view' : RP!full_extranonce_size(c)' = view'[c].size,
         connection' = "open" =>
           \A g \in Ids : \A c :
             c \in DOMAIN view' /\ view'[c].group = g
               <=> g \in RP!Groups' /\ c \in group_channels'[g].channel_ids
  PROVE  RegistryFollowsTheServer'
  <1>1. \A c : Registry!full_extranonce_size(c)' = RP!full_extranonce_size(c)'
    BY DEF Registry!full_extranonce_size, RP!full_extranonce_size
  <1>2. Registry!Groups' = RP!Groups'
    BY DEF Registry!Groups, RP!Groups
  <1>3. \A g : Served(g)' = {c \in DOMAIN view' : view'[c].group = g}
    BY DEF Served
  <1>4. connection' = "open" =>
          \A g \in Ids : Served(g)' = IF g \in Registry!Groups'
                                      THEN group_channels'[g].channel_ids ELSE {}
    <2> SUFFICES ASSUME connection' = "open", NEW g \in Ids
                 PROVE  Served(g)' = IF g \in RP!Groups'
                                     THEN group_channels'[g].channel_ids ELSE {}
      BY <1>2
    <2>1. \A c : c \in Served(g)' <=> g \in RP!Groups' /\ c \in group_channels'[g].channel_ids
      BY <1>3
    <2>2. CASE g \in RP!Groups'
      <3>1. \A c : c \in Served(g)' <=> c \in group_channels'[g].channel_ids
        BY <2>1, <2>2
      <3> QED
        BY <2>2, <3>1
    <2>3. CASE g \notin RP!Groups'
      BY <2>1, <2>3
    <2> QED
      BY <2>2, <2>3
  <1> QED
    BY <1>1, <1>4 DEF RegistryFollowsTheServer

\* The groups before a step, member by member.
LEMMA Members ==
  ASSUME Follows, connection = "open"
  PROVE  \A g \in Ids : \A c :
           c \in DOMAIN view /\ view[c].group = g
             <=> g \in RP!Groups /\ c \in group_channels[g].channel_ids
  BY SameNames DEF Served

\* A channel opened is the same for both.
LEMMA OpeningFollows ==
  ASSUME Follows, NEW kind \in Kinds, NEW c \in Ids, NEW g \in Ids, NEW size \in Nat,
         Answer(kind, c, g, size), RP!join_group(c, g, size),
         DOMAIN standard_channels'
           = DOMAIN standard_channels \cup (IF kind = "standard" THEN {c} ELSE {}),
         DOMAIN extended_channels'
           = DOMAIN extended_channels \cup (IF kind = "extended" THEN {c} ELSE {}),
         RP!full_extranonce_size(c)' = size,
         \A d \in RP!OpenChannels : RP!full_extranonce_size(d)' = RP!full_extranonce_size(d)
  PROVE  RegistryFollowsTheServer'
  <1>1. /\ connection = "open" /\ c \notin DOMAIN view
        /\ DOMAIN view' = DOMAIN view \cup {c}
        /\ view'[c].kind = kind /\ view'[c].size = size /\ view'[c].group = g
        /\ \A d \in DOMAIN view \ {c} : view'[d] = view[d]
    <2>1. Typed
      BY DEF Follows
    <2>2. /\ Idle /\ ServerMayOpen(c, g, size)
          /\ DOMAIN view' = DOMAIN view \cup {c}
          /\ view'[c] = [kind |-> kind, size |-> size, group |-> g, work |-> FirstWork]
          /\ \A d \in DOMAIN view \ {c} : view'[d] = view[d]
      BY <2>1, AnswerFacts
    <2> QED
      BY <2>2 DEF Idle, ServerMayOpen
  <1>2. /\ RP!Groups' = RP!Groups \cup {g}
        /\ group_channels'[g].channel_ids = RP!MembersOf(g) \cup {c}
        /\ \A h \in RP!Groups \ {g} : group_channels'[h] = group_channels[h]
    BY RegistryConstants, RP!JoinGroupFacts
    DEF Follows, RP!UniformGroups, RP!FreshLookups, RP!Lookups
  <1>3. ASSUME NEW h \in Ids, NEW d
        PROVE  d \in DOMAIN view' /\ view'[d].group = h
                 <=> h \in RP!Groups' /\ d \in group_channels'[h].channel_ids
    <2>1. d \in DOMAIN view /\ view[d].group = h
            <=> h \in RP!Groups /\ d \in group_channels[h].channel_ids
      BY <1>1, Members
    <2>2. CASE d = c
      <3>1. h \in RP!Groups => c \notin group_channels[h].channel_ids
        BY <1>1, <2>1, <2>2
      <3> QED
        BY <1>1, <1>2, <2>2, <3>1 DEF RP!MembersOf
    <2>3. CASE d # c
      BY <1>1, <1>2, <2>1, <2>3 DEF RP!MembersOf
    <2> QED
      BY <2>2, <2>3
  <1>4. /\ DOMAIN standard_channels = {d \in DOMAIN view : view[d].kind = "standard"}
        /\ DOMAIN extended_channels = {d \in DOMAIN view : view[d].kind = "extended"}
        /\ \A d \in DOMAIN view : RP!full_extranonce_size(d) = view[d].size
    BY SameState DEF Follows, RegistryFollowsTheServer
  <1>5. /\ DOMAIN standard_channels' = {d \in DOMAIN view' : view'[d].kind = "standard"}
        /\ DOMAIN extended_channels' = {d \in DOMAIN view' : view'[d].kind = "extended"}
    BY <1>1, <1>4 DEF Kinds
  <1>6. \A d \in DOMAIN view' : RP!full_extranonce_size(d)' = view'[d].size
    BY <1>1, <1>4, SameNames
  <1> QED
    BY <1>3, <1>5, <1>6, FollowsNext

\* So a standard channel the server opens is opened.
LEMMA OpenStandardFollows ==
  ASSUME Follows, NEW c \in Ids, NEW g \in Ids, NEW p \in PrefixSizes,
         handle_open_standard_mining_channel_success(c, g, p)
  PROVE  RegistryFollowsTheServer'
  <1>1. Answer("standard", c, g, p) /\ p \in Nat /\ "standard" \in Kinds
    BY SizesAreNumbers DEF handle_open_standard_mining_channel_success, Kinds
  <1>2. connection = "open" /\ ServerMayOpen(c, g, p)
    BY <1>1 DEF Answer, Idle
  <1>3. RP!OpenStandardSuccess(c, g, p)
    BY <1>1, <1>2, AnswersAreUsable, SameOpenStandard
    DEF handle_open_standard_mining_channel_success
  <1>4. /\ RP!join_group(c, g, p)
        /\ standard_channels' = RP!Insert(standard_channels, c, p)
        /\ extended_channels' = extended_channels
        /\ c \notin RP!OpenChannels
    BY <1>3 DEF RP!OpenStandardSuccess, RP!ServerMayOpen
  <1>5. /\ DOMAIN standard_channels' = DOMAIN standard_channels \cup {c}
        /\ standard_channels'[c] = p
        /\ \A d \in DOMAIN standard_channels : standard_channels'[d] = standard_channels[d]
    BY <1>4 DEF RP!Insert, RP!OpenChannels
  <1>6. /\ RP!full_extranonce_size(c)' = p
        /\ \A d \in RP!OpenChannels :
             RP!full_extranonce_size(d)' = RP!full_extranonce_size(d)
    BY <1>4, <1>5 DEF RP!full_extranonce_size, RP!OpenChannels
  <1> QED
    BY <1>1, <1>4, <1>5, <1>6, OpeningFollows

\* And an extended one.
LEMMA OpenExtendedFollows ==
  ASSUME Follows, NEW c \in Ids, NEW g \in Ids, NEW p \in PrefixSizes, NEW r \in RollableSizes,
         handle_open_extended_mining_channel_success(c, g, p, r)
  PROVE  RegistryFollowsTheServer'
  <1>1. Answer("extended", c, g, p + r) /\ p + r \in Nat /\ "extended" \in Kinds
    BY SizesAreNumbers DEF handle_open_extended_mining_channel_success, Kinds
  <1>2. connection = "open" /\ ServerMayOpen(c, g, p + r)
    BY <1>1 DEF Answer, Idle
  <1>3. RP!OpenExtendedSuccess(c, g, p, r)
    BY <1>1, <1>2, AnswersAreUsable, SameOpenExtended
    DEF handle_open_extended_mining_channel_success
  <1>4. /\ RP!join_group(c, g, p + r)
        /\ extended_channels' = RP!Insert(extended_channels, c, RP!new_extended(p, r))
        /\ standard_channels' = standard_channels
        /\ c \notin RP!OpenChannels
    BY <1>3 DEF RP!OpenExtendedSuccess, RP!ServerMayOpen
  <1>5. /\ DOMAIN extended_channels' = DOMAIN extended_channels \cup {c}
        /\ extended_channels'[c] = RP!new_extended(p, r)
        /\ \A d \in DOMAIN extended_channels : extended_channels'[d] = extended_channels[d]
    BY <1>4 DEF RP!Insert, RP!OpenChannels
  <1>6. RP!full_extranonce_size(c)' = p + r
    BY <1>4, <1>5 DEF RP!full_extranonce_size, RP!OpenChannels, RP!new_extended
  <1>7. \A d \in RP!OpenChannels : RP!full_extranonce_size(d)' = RP!full_extranonce_size(d)
    BY <1>4, <1>5 DEF RP!full_extranonce_size, RP!OpenChannels
  <1> QED
    BY <1>1, <1>4, <1>5, <1>6, <1>7, OpeningFollows

\* The channels closed are those the server meant.
LEMMA ClosingFollows ==
  ASSUME Follows, NEW id \in Ids, handle_close_channel(id)
  PROVE  RegistryFollowsTheServer'
  <1>1. /\ connection = "open" /\ RP!CloseChannel(id)
        /\ DOMAIN view' = DOMAIN view \ Meant(id)
        /\ \A c \in DOMAIN view' : view'[c] = view[c]
    BY CloseFacts, SameClose DEF Follows, Idle
  <1>2. Meant(id) = RP!Closed(id)
    BY <1>1, SameNames
  <1>3. RP!MapsOK /\ RP!KindsDisjoint
    BY DEF Follows, RP!UniformGroups, RP!FreshLookups, RP!Lookups
  <1>4. /\ DOMAIN standard_channels' = DOMAIN standard_channels \ Meant(id)
        /\ \A c \in DOMAIN standard_channels' : standard_channels'[c] = standard_channels[c]
    BY <1>1, <1>2, <1>3, RegistryConstants, RP!CloseFacts
  <1>5. /\ DOMAIN extended_channels' = DOMAIN extended_channels \ Meant(id)
        /\ \A c \in DOMAIN extended_channels' : extended_channels'[c] = extended_channels[c]
    <2>1. DOMAIN extended_channels'
            = DOMAIN extended_channels \ (Meant(id) \ DOMAIN standard_channels)
      BY <1>1, <1>2, <1>3, RegistryConstants, RP!CloseFacts
    <2>2. DOMAIN extended_channels' = DOMAIN extended_channels \ Meant(id)
      BY <1>3, <2>1 DEF RP!KindsDisjoint
    <2> QED
      BY <1>1, <1>2, <1>3, <2>2, RegistryConstants, RP!CloseFacts
  <1>6. /\ RP!Groups' = RP!Remaining(group_channels, Meant(id))
        /\ \A g \in RP!Groups' :
             group_channels'[g].channel_ids = group_channels[g].channel_ids \ Meant(id)
    BY <1>1, <1>2, <1>3, RegistryConstants, RP!CloseFacts
  <1>7. /\ DOMAIN standard_channels = {c \in DOMAIN view : view[c].kind = "standard"}
        /\ DOMAIN extended_channels = {c \in DOMAIN view : view[c].kind = "extended"}
        /\ \A c \in DOMAIN view : RP!full_extranonce_size(c) = view[c].size
    BY SameState DEF Follows, RegistryFollowsTheServer
  <1>8. /\ DOMAIN standard_channels' = {c \in DOMAIN view' : view'[c].kind = "standard"}
        /\ DOMAIN extended_channels' = {c \in DOMAIN view' : view'[c].kind = "extended"}
    BY <1>1, <1>4, <1>5, <1>7
  <1>9. \A c \in DOMAIN view' : RP!full_extranonce_size(c)' = view'[c].size
    <2> SUFFICES ASSUME NEW c \in DOMAIN view'
                 PROVE  RP!full_extranonce_size(c)' = RP!full_extranonce_size(c)
      BY <1>1, <1>7
    <2>1. c \in RP!OpenChannels /\ c \notin Meant(id)
      BY <1>1, SameNames
    <2> QED
      BY <1>4, <1>5, <2>1 DEF RP!full_extranonce_size, RP!OpenChannels
  <1>10. ASSUME NEW g \in Ids, NEW c
         PROVE  c \in DOMAIN view' /\ view'[c].group = g
                  <=> g \in RP!Groups' /\ c \in group_channels'[g].channel_ids
    <2>1. c \in DOMAIN view /\ view[c].group = g
            <=> g \in RP!Groups /\ c \in group_channels[g].channel_ids
      BY <1>1, Members
    <2> QED
      BY <1>1, <1>6, <2>1 DEF RP!Remaining, RP!Groups
  <1> QED
    BY <1>8, <1>9, <1>10, FollowsNext

\* A group is redefined for both, or the connection ends.
LEMMA RegroupingFollows ==
  ASSUME Follows, NEW g \in Ids, NEW S \in SUBSET Ids, handle_set_group_channel(g, S),
         RP!UniformGroups'
  PROVE  RegistryFollowsTheServer'
  <1>1. /\ connection = "open"
        /\ DOMAIN view' = DOMAIN view /\ S \subseteq DOMAIN view
        /\ \A c \in DOMAIN view :
             /\ view'[c].kind = view[c].kind
             /\ view'[c].size = view[c].size
             /\ view'[c].group = IF c \in S THEN g
                                 ELSE IF view[c].group = g THEN NoGroup ELSE view[c].group
        /\ Registry!SetGroupChannel(g, S) \/ Registry!PoisonLock
    BY SetGroupFacts DEF Follows, Idle
  <1>2. UNCHANGED <<standard_channels, extended_channels>>
    BY <1>1 DEF Registry!SetGroupChannel, Registry!PoisonLock, Registry!registry
  <1>3. /\ DOMAIN standard_channels = {c \in DOMAIN view : view[c].kind = "standard"}
        /\ DOMAIN extended_channels = {c \in DOMAIN view : view[c].kind = "extended"}
        /\ \A c \in DOMAIN view : RP!full_extranonce_size(c) = view[c].size
    BY SameState DEF Follows, RegistryFollowsTheServer
  <1>4. /\ DOMAIN standard_channels' = {c \in DOMAIN view' : view'[c].kind = "standard"}
        /\ DOMAIN extended_channels' = {c \in DOMAIN view' : view'[c].kind = "extended"}
        /\ \A c \in DOMAIN view' : RP!full_extranonce_size(c)' = view'[c].size
    BY <1>1, <1>2, <1>3 DEF RP!full_extranonce_size
  <1>5. ASSUME connection' = "open", NEW h \in Ids, NEW c
        PROVE  c \in DOMAIN view' /\ view'[c].group = h
                 <=> h \in RP!Groups' /\ c \in group_channels'[h].channel_ids
    <2>1. RP!SetGroupChannel(g, S)
      BY <1>1, <1>5, SameSetGroup DEF Registry!PoisonLock
    <2>2. /\ \A k \in RP!Groups' \ {g} :
               /\ k \in RP!Groups
               /\ group_channels'[k].channel_ids = group_channels[k].channel_ids \ S
          /\ g \in RP!Groups' => group_channels'[g].channel_ids = S
          /\ \A k \in RP!Groups \ {g} :
               group_channels[k].channel_ids \ S # {} => k \in RP!Groups'
          /\ S # {} => g \in RP!Groups'
      BY <2>1, RegistryConstants, RP!SetGroupFacts
      DEF Follows, RP!UniformGroups, RP!FreshLookups, RP!Lookups
    <2>3. NoGroup # h /\ NoGroup # g
      BY ConnectionAssumption
    <2>4. CASE h = g
      BY <1>1, <2>2, <2>3, <2>4
    <2>5. CASE h # g
      <3>1. c \in DOMAIN view /\ view[c].group = h
              <=> h \in RP!Groups /\ c \in group_channels[h].channel_ids
        BY <1>1, Members
      <3>2. c \in DOMAIN view' /\ view'[c].group = h
              <=> c \in DOMAIN view /\ view[c].group = h /\ c \notin S
        BY <1>1, <2>3, <2>5
      <3> QED
        BY <2>2, <2>5, <3>1, <3>2
    <2> QED
      BY <2>4, <2>5
  <1> QED
    BY <1>4, <1>5, FollowsNext

\* Where maps, kinds, sizes and groups stay, nothing is out of step.
LEMMA StayingFollows ==
  ASSUME Follows, UNCHANGED maps, connection' = "open" => connection = "open",
         DOMAIN view' = DOMAIN view,
         \A c \in DOMAIN view : /\ view'[c].kind = view[c].kind
                                /\ view'[c].size = view[c].size
                                /\ view'[c].group = view[c].group
  PROVE  RegistryFollowsTheServer'
  <1>1. /\ DOMAIN standard_channels = {c \in DOMAIN view : view[c].kind = "standard"}
        /\ DOMAIN extended_channels = {c \in DOMAIN view : view[c].kind = "extended"}
        /\ \A c \in DOMAIN view : RP!full_extranonce_size(c) = view[c].size
    BY SameState DEF Follows, RegistryFollowsTheServer
  <1>2. UNCHANGED <<standard_channels, extended_channels, group_channels>>
    BY DEF maps
  <1>3. /\ DOMAIN standard_channels' = {c \in DOMAIN view' : view'[c].kind = "standard"}
        /\ DOMAIN extended_channels' = {c \in DOMAIN view' : view'[c].kind = "extended"}
        /\ \A c \in DOMAIN view' : RP!full_extranonce_size(c)' = view'[c].size
    BY <1>1, <1>2 DEF RP!full_extranonce_size
  <1>4. ASSUME connection' = "open", NEW g \in Ids, NEW c
        PROVE  c \in DOMAIN view' /\ view'[c].group = g
                 <=> g \in RP!Groups' /\ c \in group_channels'[g].channel_ids
    <2>1. c \in DOMAIN view /\ view[c].group = g
            <=> g \in RP!Groups /\ c \in group_channels[g].channel_ids
      BY <1>4, Members
    <2> QED
      BY <1>2, <2>1 DEF RP!Groups
  <1> QED
    BY <1>3, <1>4, FollowsNext

\* Every step keeps the registry and the view in step.
LEMMA FollowsInductive ==
  ASSUME Follows, RP!UniformGroups', [Next]_vars
  PROVE  Follows'
  <1>1. Typed /\ RP!UniformGroups /\ Typed'
    BY TypedInductive DEF Follows
  <1>2. ASSUME NEW kind \in Kinds, handle_open_mining_channel_error(kind)
        PROVE  RegistryFollowsTheServer'
    BY <1>2, StayingFollows DEF handle_open_mining_channel_error, registry
  <1>3. ASSUME NEW id \in Ids,
               \/ handle_new_mining_job(id)
               \/ handle_new_extended_mining_job(id)
               \/ \E job \in Jobs : handle_set_new_prev_hash(id, job)
               \/ \E target \in Targets : handle_set_target(id, target)
        PROVE  RegistryFollowsTheServer'
    <2>1. PICK frame, receivers : frame \in Frames /\ PassOn(frame, id, receivers)
      BY <1>1, <1>3, PassingOn
    <2> QED
      BY <1>1, <2>1, PassOnFacts, StayingFollows DEF registry
  <1>4. ASSUME NEW c \in Ids, Reach(c)
        PROVE  RegistryFollowsTheServer'
    <2>1. UNCHANGED maps /\ UNCHANGED view /\ connection = "open"
      BY <1>4 DEF Reach, server
    <2> QED
      BY <2>1, StayingFollows
  <1>5. ASSUME NEW c \in Ids, TaskPanics(c)
        PROVE  RegistryFollowsTheServer'
    BY <1>1, <1>5, PanicFacts, StayingFollows DEF registry, server
  <1>6. ASSUME Returned \/ Silent \/ UNCHANGED vars
        PROVE  RegistryFollowsTheServer'
    <2>1. UNCHANGED maps /\ UNCHANGED view /\ UNCHANGED connection
      BY <1>6 DEF Returned, Silent, vars, server, Registry!Returned, Registry!vars,
                  Registry!registry, registry, maps
    <2> QED
      BY <2>1, StayingFollows
  <1>7. RegistryFollowsTheServer'
    BY <1>2, <1>3, <1>4, <1>5, <1>6, OpenStandardFollows, OpenExtendedFollows,
       ClosingFollows, RegroupingFollows, Zenon DEF Next
  <1> QED
    BY <1>1, <1>7 DEF Follows

\* Both are empty to begin with.
LEMMA FollowsInit == Init => RegistryFollowsTheServer
  <1> SUFFICES ASSUME Init  PROVE RegistryFollowsTheServer
    OBVIOUS
  <1>1. DOMAIN << >> = {}
    OBVIOUS
  <1> QED
    BY <1>1 DEF Init, Registry!Init, RegistryFollowsTheServer, Served, Registry!Groups

\* The invariant of the composition's state but for the miners' work.
LEMMA FollowsAlways == Spec => [](Follows /\ RP!UniformGroups)
  <1>1. Follows /\ RP!UniformGroups' /\ [Next]_vars => Follows'
    BY FollowsInductive
  <1>2. Init /\ RP!UniformGroups => Follows
    BY TypedInit, FollowsInit DEF Follows
  <1> QED
    BY <1>1, <1>2, UniformGroupsAlways, PTL DEF Spec

\* The registry never disagrees with a server that keeps to the protocol: no
\* OpenMiningChannel.Success of such a server is dropped by the checks of
\* ids_collide and join_group, a CloseChannel closes the channels the server
\* meant by its id and no others, and a SetGroupChannel leaves every channel in
\* the group the server put it in.
THEOREM RegistryFollows == Spec => []RegistryFollowsTheServer
  <1>1. Follows => RegistryFollowsTheServer
    BY DEF Follows
  <1> QED
    BY <1>1, FollowsAlways, PTL

-----------------------------------------------------------------------------
(* The miners' work and the server's view *)

\* Follows, with the work: a frame in hand has only channels left to reach that
\* are open and that will take it.
Working ==
  /\ Follows
  /\ WorkFollowsTheServer
  /\ handling.left \subseteq DOMAIN view
  /\ \A c \in handling.left : lib_takes(miners[c].work, handling.frame)

\* A channel of the view is open, whether the connection is or not.
MinersOfView == DOMAIN miners = DOMAIN view

LEMMA ViewIsMiners == Follows => MinersOfView
  <1> SUFFICES ASSUME Follows  PROVE DOMAIN miners = DOMAIN view
    BY DEF MinersOfView
  <1>1. \A c \in DOMAIN view : view[c].kind \in {"standard", "extended"}
    BY DEF Follows, Typed, TypeOK, Registry!IsMap, Entry, Kinds
  <1>2. DOMAIN view = Registry!OpenChannels
    BY <1>1 DEF Follows, RegistryFollowsTheServer, Registry!OpenChannels
  <1> QED
    BY <1>2 DEF Follows, Typed

\* What WorkFollowsTheServer says between frames.
LEMMA WorkBetweenFrames ==
  ASSUME Working, handling.left = {}
  PROVE  \A c \in DOMAIN view : c \in DOMAIN miners /\ view[c].work = miners[c].work
  BY DEF Working, WorkFollowsTheServer

\* WorkFollowsTheServer holds where no frame is in hand and work is the same.
LEMMA WorkingNext ==
  ASSUME Follows', handling'.left = {},
         \A c \in DOMAIN view' : view'[c].work = miners'[c].work
  PROVE  Working'
  <1>1. MinersOfView'
    BY ViewIsMiners, PTL
  <1> QED
    BY <1>1 DEF MinersOfView, Working, WorkFollowsTheServer

\* The channels the client passes a frame on to are those the server meant.
LEMMA ReceiversAreMeant ==
  ASSUME Follows, connection = "open", NEW id \in Ids, Meant(id) # {}, NEW receivers,
         \/ /\ id \in DOMAIN view /\ view[id].kind = "standard"
            /\ receivers = {id} \cap DOMAIN standard_channels
         \/ /\ id \in DOMAIN view => view[id].kind = "extended"
            /\ receivers = IF id \in Registry!Groups
                           THEN Registry!addressed_channels(id)
                           ELSE {id} \cap DOMAIN extended_channels
         \/ receivers = Registry!addressed_channels(id)
  PROVE  receivers = Meant(id)
  <1>1. /\ DOMAIN standard_channels = {c \in DOMAIN view : view[c].kind = "standard"}
        /\ DOMAIN extended_channels = {c \in DOMAIN view : view[c].kind = "extended"}
    BY DEF Follows, RegistryFollowsTheServer
  <1>2. Meant(id) = Registry!addressed_channels(id)
    BY SameNames, SameState
  <1>3. CASE id \in DOMAIN view
    <2>1. Meant(id) = {id} /\ id \notin Registry!Groups
      BY <1>3, SameNames, SameState DEF Meant
    <2> QED
      BY <1>1, <1>2, <1>3, <2>1
  <1>4. CASE id \notin DOMAIN view
    <2>1. id \in Registry!Groups
      BY <1>4, SameNames, SameState DEF Meant
    <2> QED
      BY <1>2, <1>4, <2>1
  <1> QED
    BY <1>3, <1>4

\* An answer gives both sides the same first work.
LEMMA AnsweringWorks ==
  ASSUME Working, Follows', NEW kind \in Kinds, NEW c \in Ids, NEW g \in Ids,
         NEW size \in Nat, Answer(kind, c, g, size)
  PROVE  Working'
  <1>1. Typed /\ Typed'
    BY DEF Working, Follows
  <1>2. /\ handling' = handling /\ handling.left = {}
        /\ DOMAIN view' = DOMAIN view \cup {c}
        /\ view'[c] = [kind |-> kind, size |-> size, group |-> g, work |-> FirstWork]
        /\ \A d \in DOMAIN view \ {c} : view'[d] = view[d]
        /\ c \in Registry!OpenChannels' =>
             /\ miners'[c] = [work |-> FirstWork, poisoned |-> FALSE]
             /\ \A d \in DOMAIN miners \ {c} : miners'[d] = miners[d]
    <2>1. /\ Idle /\ UNCHANGED <<handling, jobs>>
          /\ DOMAIN view' = DOMAIN view \cup {c}
          /\ view'[c] = [kind |-> kind, size |-> size, group |-> g, work |-> FirstWork]
          /\ \A d \in DOMAIN view \ {c} : view'[d] = view[d]
      BY <1>1, AnswerFacts
    <2>2. c \in Registry!OpenChannels' =>
            /\ miners'[c] = [work |-> FirstWork, poisoned |-> FALSE]
            /\ \A d \in DOMAIN miners \ {c} : miners'[d] = miners[d]
      BY <1>1, AnswerFacts
    <2> QED
      BY <2>1, <2>2 DEF Idle
  <1>3. MinersOfView'
    BY ViewIsMiners, PTL
  <1>4. c \in Registry!OpenChannels'
    BY <1>1, <1>2, <1>3 DEF MinersOfView, Typed
  <1>5. \A d \in DOMAIN view' : view'[d].work = miners'[d].work
    BY <1>2, <1>4, WorkBetweenFrames
  <1> QED
    BY <1>2, <1>5, WorkingNext

\* A frame passed on has all its channels to reach.
LEMMA PassingOnWorks ==
  ASSUME Working, Follows', NEW id \in Ids,
         \/ handle_new_mining_job(id)
         \/ handle_new_extended_mining_job(id)
         \/ \E job \in Jobs : handle_set_new_prev_hash(id, job)
         \/ \E target \in Targets : handle_set_target(id, target)
  PROVE  Working'
  <1>1. Follows /\ Typed
    BY DEF Working, Follows
  <1>2. PICK frame, receivers :
          /\ frame \in Frames
          /\ PassOn(frame, id, receivers)
          /\ \/ /\ id \in DOMAIN view /\ view[id].kind = "standard"
                /\ receivers = {id} \cap DOMAIN standard_channels
             \/ /\ id \in DOMAIN view => view[id].kind = "extended"
                /\ receivers = IF id \in Registry!Groups
                               THEN Registry!addressed_channels(id)
                               ELSE {id} \cap DOMAIN extended_channels
             \/ receivers = Registry!addressed_channels(id)
    BY <1>1, PassingOn
  <1>3. /\ connection = "open" /\ handling.left = {}
        /\ Meant(id) # {}
        /\ \A c \in Meant(id) : lib_takes(view[c].work, frame)
        /\ DOMAIN view' = DOMAIN view
        /\ \A c \in DOMAIN view :
             view'[c].work = IF c \in Meant(id) THEN taken(view[c].work, frame)
                                                ELSE view[c].work
        /\ handling' = [frame |-> frame, left |-> receivers]
        /\ UNCHANGED miners
    BY <1>1, <1>2, PassOnFacts DEF Idle, ServerMaySend
  <1>4. receivers = Meant(id)
    BY <1>1, <1>2, <1>3, ReceiversAreMeant
  <1>5. Meant(id) \subseteq DOMAIN view
    BY DEF Meant, Served
  <1>6. \A c \in DOMAIN view : c \in DOMAIN miners /\ view[c].work = miners[c].work
    BY <1>3, WorkBetweenFrames
  <1>7. handling'.frame = frame /\ handling'.left = Meant(id)
    BY <1>3, <1>4
  <1>8. \A c \in handling'.left : lib_takes(miners'[c].work, handling'.frame)
    BY <1>3, <1>5, <1>6, <1>7
  <1>9. \A c \in DOMAIN view' :
          /\ c \in DOMAIN miners'
          /\ view'[c].work = IF c \in handling'.left
                             THEN taken(miners'[c].work, handling'.frame)
                             ELSE miners'[c].work
    BY <1>3, <1>6, <1>7
  <1>10. \A c \in handling'.left : lib_takes(miners[c].work, handling.frame)'
    BY <1>8 DEF lib_takes
  <1>11. WorkFollowsTheServer'
    BY <1>9 DEF WorkFollowsTheServer, taken
  <1> QED
    BY <1>3, <1>5, <1>7, <1>10, <1>11 DEF Working

\* A channel reached has caught up with its frame, and the others wait for it.
LEMMA ReachingWorks ==
  ASSUME Working, Follows', NEW c \in Ids, Reach(c)
  PROVE  Working'
  <1>1. Follows /\ Typed
    BY DEF Working, Follows
  <1>2. /\ c \in handling.left
        /\ UNCHANGED view
        /\ DOMAIN miners' = DOMAIN miners
        /\ \A d \in DOMAIN miners \ {c} : miners'[d] = miners[d]
        /\ \/ UNCHANGED <<miners, handling>>
           \/ /\ c \in DOMAIN miners /\ lib_takes(miners[c].work, handling.frame)
                   => miners'[c].work = taken(miners[c].work, handling.frame)
              /\ handling'.left = handling.left \ {c}
              /\ handling'.left # {} => handling'.frame = handling.frame
    BY <1>1, ReachFacts DEF server
  <1>3. /\ \A d \in DOMAIN view :
             /\ d \in DOMAIN miners
             /\ view[d].work = IF d \in handling.left
                               THEN taken(miners[d].work, handling.frame)
                               ELSE miners[d].work
        /\ handling.left \subseteq DOMAIN view
        /\ \A d \in handling.left : lib_takes(miners[d].work, handling.frame)
    BY DEF Working, WorkFollowsTheServer
  <1>4. CASE UNCHANGED <<miners, handling>>
    BY <1>2, <1>3, <1>4 DEF Working, WorkFollowsTheServer
  <1>5. CASE /\ c \in DOMAIN miners /\ lib_takes(miners[c].work, handling.frame)
                  => miners'[c].work = taken(miners[c].work, handling.frame)
             /\ handling'.left = handling.left \ {c}
             /\ handling'.left # {} => handling'.frame = handling.frame
    <2>1. miners'[c].work = taken(miners[c].work, handling.frame)
      BY <1>2, <1>3, <1>5
    <2>2. ASSUME NEW d \in DOMAIN view
          PROVE  /\ d \in DOMAIN miners'
                 /\ view'[d].work = IF d \in handling'.left
                                    THEN taken(miners'[d].work, handling'.frame)
                                    ELSE miners'[d].work
      <3>1. CASE d = c
        BY <1>2, <1>3, <1>5, <2>1, <3>1
      <3>2. CASE d # c /\ d \in handling.left
        BY <1>2, <1>3, <1>5, <3>2
      <3>3. CASE d # c /\ d \notin handling.left
        BY <1>2, <1>3, <1>5, <3>3
      <3> QED
        BY <3>1, <3>2, <3>3
    <2>3. \A d \in handling'.left : lib_takes(miners'[d].work, handling'.frame)
      BY <1>2, <1>3, <1>5
    <2>4. \A d \in handling'.left : lib_takes(miners[d].work, handling.frame)'
      BY <2>3 DEF lib_takes
    <2>5. WorkFollowsTheServer'
      BY <1>2, <2>2 DEF WorkFollowsTheServer, taken
    <2> QED
      BY <1>2, <1>3, <1>5, <2>4, <2>5 DEF Working
  <1> QED
    BY <1>2, <1>4, <1>5

\* Every step keeps the miners' work and the view in step.
LEMMA WorkingInductive ==
  ASSUME Working, Follows', [Next]_vars
  PROVE  Working'
  <1>1. Follows /\ Typed
    BY DEF Working, Follows
  <1>2. ASSUME NEW c \in Ids, NEW g \in Ids, NEW p \in PrefixSizes,
               handle_open_standard_mining_channel_success(c, g, p)
        PROVE  Working'
    <2>1. Answer("standard", c, g, p) /\ "standard" \in Kinds /\ p \in Nat
      BY <1>2, SizesAreNumbers DEF handle_open_standard_mining_channel_success, Kinds
    <2> QED
      BY <2>1, AnsweringWorks
  <1>3. ASSUME NEW c \in Ids, NEW g \in Ids, NEW p \in PrefixSizes, NEW r \in RollableSizes,
               handle_open_extended_mining_channel_success(c, g, p, r)
        PROVE  Working'
    <2>1. Answer("extended", c, g, p + r) /\ "extended" \in Kinds /\ p + r \in Nat
      BY <1>3, SizesAreNumbers DEF handle_open_extended_mining_channel_success, Kinds
    <2> QED
      BY <2>1, AnsweringWorks
  <1>4. ASSUME NEW kind \in Kinds, handle_open_mining_channel_error(kind)
        PROVE  Working'
    <2>1. handling.left = {} /\ UNCHANGED <<miners, handling, view>>
      BY <1>4 DEF handle_open_mining_channel_error, Idle
    <2> QED
      BY <2>1, WorkBetweenFrames, WorkingNext
  <1>5. ASSUME NEW id \in Ids, handle_close_channel(id)
        PROVE  Working'
    <2>1. /\ handling.left = {} /\ UNCHANGED handling
          /\ DOMAIN view' \subseteq DOMAIN view
          /\ \A c \in DOMAIN view' : view'[c] = view[c]
          /\ \A c \in DOMAIN miners' : miners'[c] = miners[c]
      BY <1>1, <1>5, CloseFacts DEF Idle
    <2>2. MinersOfView'
      BY ViewIsMiners, PTL
    <2>3. \A c \in DOMAIN view' : view'[c].work = miners'[c].work
      BY <2>1, <2>2, WorkBetweenFrames DEF MinersOfView
    <2> QED
      BY <2>1, <2>3, WorkingNext
  <1>6. ASSUME NEW g \in Ids, NEW S \in SUBSET Ids, handle_set_group_channel(g, S)
        PROVE  Working'
    <2>1. /\ handling.left = {} /\ UNCHANGED <<miners, handling>>
          /\ DOMAIN view' = DOMAIN view
          /\ \A c \in DOMAIN view : view'[c].work = view[c].work
      BY <1>1, <1>6, SetGroupFacts DEF Idle
    <2> QED
      BY <2>1, WorkBetweenFrames, WorkingNext
  <1>7. ASSUME NEW id \in Ids,
               \/ handle_new_mining_job(id)
               \/ handle_new_extended_mining_job(id)
               \/ \E job \in Jobs : handle_set_new_prev_hash(id, job)
               \/ \E target \in Targets : handle_set_target(id, target)
        PROVE  Working'
    BY <1>7, PassingOnWorks
  <1>8. ASSUME NEW c \in Ids, Reach(c)
        PROVE  Working'
    BY <1>8, ReachingWorks
  <1>9. ASSUME NEW c \in Ids, TaskPanics(c)
        PROVE  Working'
    <2>1. /\ DOMAIN miners' = DOMAIN miners
          /\ \A d \in DOMAIN miners : miners'[d].work = miners[d].work
          /\ UNCHANGED <<handling, view>>
      BY <1>1, <1>9, PanicFacts DEF server
    <2>2. DOMAIN miners = DOMAIN view
      BY <1>1, ViewIsMiners DEF MinersOfView
    <2>3. WorkFollowsTheServer'
      BY <2>1, <2>2 DEF Working, WorkFollowsTheServer, taken
    <2>4. \A d \in handling'.left : lib_takes(miners[d].work, handling.frame)'
      BY <2>1, <2>2 DEF Working, lib_takes
    <2> QED
      BY <2>1, <2>3, <2>4 DEF Working
  <1>10. ASSUME Returned \/ Silent \/ UNCHANGED vars
         PROVE  Working'
    <2>1. UNCHANGED <<miners, handling, view>>
      BY <1>10 DEF Returned, Silent, vars, server
    <2> QED
      BY <2>1 DEF Working, WorkFollowsTheServer, taken, lib_takes
  <1> QED
    BY <1>2, <1>3, <1>4, <1>5, <1>6, <1>7, <1>8, <1>9, <1>10, Zenon DEF Next

\* No channel, no work.
LEMMA WorkingInit == Init /\ Follows => Working
  <1>1. DOMAIN << >> = {}
    OBVIOUS
  <1>2. Init => view = << >> /\ handling.left = {}
    BY DEF Init, Nothing
  <1> QED
    BY <1>1, <1>2 DEF Working, WorkFollowsTheServer

\* Every job, prev hash and target the server gives a channel, by its id or by
\* its group's, reaches that channel and no other, in the order the server gave
\* them: a channel is never more than the frame in hand behind the server,
\* whatever tasks panic and wherever a handler fails.
THEOREM WorkFollows == Spec => []WorkFollowsTheServer
  <1>1. Working /\ Follows' /\ [Next]_vars => Working'
    BY WorkingInductive
  <1>2. Working => WorkFollowsTheServer
    BY DEF Working
  <1> QED
    BY <1>1, <1>2, WorkingInit, FollowsAlways, PTL DEF Spec

===============================================================================
