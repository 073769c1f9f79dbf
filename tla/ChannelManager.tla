---------------------------- MODULE ChannelManager ----------------------------
(***************************************************************************)
(* The channel registry of one connection: the three maps of               *)
(* ChannelManager (channel_manager/mod.rs) and every mining message        *)
(* handler that changes them (channel_manager/mining_message_handler.rs).  *)
(*                                                                         *)
(* The client handles one frame at a time and a handler has no             *)
(* interleaving point between its first read and its last write of the     *)
(* maps, so a handler is one action.  A message a handler ignores leaves   *)
(* the registry as it is: it is a stuttering step, and the condition under *)
(* which the handler goes on is the action's guard.                        *)
(*                                                                         *)
(* A miner is represented by what the registry knows of it: the length of  *)
(* its extranonce prefix and, for an extended channel, of the part it may  *)
(* roll.  The miner itself is module ChannelMiner.                         *)
(*                                                                         *)
(* A definition named after another with a suffix, and introduced as a     *)
(* slip, is no part of the model: it is a mistake one could make in the    *)
(* definition that follows it, kept to see that the properties notice.     *)
(***************************************************************************)
EXTENDS Naturals, Functions

CONSTANTS
  Ids,                  \* the u32 ids a server uses, for channels and groups alike
  PrefixSizes,          \* lengths of the extranonce prefixes on the wire
  MaxPrefixSize,        \* the longest prefix ExtranoncePrefix::from_wire accepts
  RollableSizes,        \* extranonce_size values of OpenExtendedMiningChannel.Success
  ReusesIds,            \* may the server open a channel under the id of an open one?
  PrefixResizes,        \* does the channel library accept a prefix of another length?
  LocksMayPoison        \* may a mining task panic while it holds a channel's write lock?

ASSUME RegistryAssumption ==
  /\ PrefixSizes \subseteq Nat
  /\ RollableSizes \subseteq Nat
  /\ MaxPrefixSize \in Nat
  /\ ReusesIds \in BOOLEAN
  /\ PrefixResizes \in BOOLEAN
  /\ LocksMayPoison \in BOOLEAN

VARIABLES
  requires_standard_jobs,  \* as configured: was REQUIRES_STANDARD_JOBS declared?
  standard_channels,  \* open standard channel |-> length of its extranonce prefix
  extended_channels,  \* open extended channel |-> [prefix, rollable]
  group_channels,     \* group |-> [channel_ids, full_extranonce_size]
  connection          \* "open", or "failed" once a handler returned an error

registry == <<standard_channels, extended_channels, group_channels>>
vars == <<requires_standard_jobs, registry, connection>>

-----------------------------------------------------------------------------
(* Helpers *)

\* HashMap::insert
Insert(map, key, value) ==
  [k \in DOMAIN map \cup {key} |-> IF k = key THEN value ELSE map[k]]

OpenChannels == DOMAIN standard_channels \cup DOMAIN extended_channels
Groups == DOMAIN group_channels

addressed_channels(id) ==
  IF id \in Groups THEN group_channels[id].channel_ids ELSE {id}

\* For the id of an open channel.
full_extranonce_size(id) ==
  IF id \in DOMAIN standard_channels
  THEN standard_channels[id]
  ELSE extended_channels[id].prefix + extended_channels[id].rollable

from_wire_accepts(prefix) == prefix <= MaxPrefixSize

\* Slip: the group id is not looked up among the channels.
ids_collide_but_channels(channel_id, group_channel_id) ==
  channel_id = group_channel_id \/ channel_id \in Groups

\* Slip: the channel id is not looked up among the groups.
ids_collide_but_groups(channel_id, group_channel_id) ==
  group_channel_id \in OpenChannels \/ channel_id = group_channel_id

ids_collide(channel_id, group_channel_id) ==
  \/ group_channel_id \in OpenChannels
  \/ channel_id = group_channel_id
  \/ channel_id \in Groups

\* GroupChannel::add_channel_id: the first member gives a new group its size.
group_takes(group_channel_id, size) ==
  group_channel_id \in Groups =>
    group_channels[group_channel_id].full_extranonce_size = size

\* Slip: the groups left without a member stay.
without_members_unpruned(groups, S) ==
  [g \in DOMAIN groups |-> [groups[g] EXCEPT !.channel_ids = @ \ S]]

\* Slip: a group goes as soon as one of its members does.
without_members_pruned_early(groups, S) ==
  Restrict(groups, {g \in DOMAIN groups : groups[g].channel_ids \cap S = {}})

\* Every group forgets the channels of S; retain(|_, group| !group.is_empty()).
without_members(groups, S) ==
  LET kept == {g \in DOMAIN groups : groups[g].channel_ids \ S # {}}
  IN  [g \in kept |-> [groups[g] EXCEPT !.channel_ids = @ \ S]]

join_group(channel_id, group_channel_id, size) ==
  /\ ~ids_collide(channel_id, group_channel_id)
  /\ group_takes(group_channel_id, size)
  /\ LET members == IF group_channel_id \in Groups
                    THEN group_channels[group_channel_id].channel_ids ELSE {}
     IN  group_channels' =
           Insert(group_channels, group_channel_id,
                  [channel_ids |-> members \cup {channel_id},
                   full_extranonce_size |-> size])

-----------------------------------------------------------------------------
(* Handlers.  Each runs only while start() is in its loop. *)

Init ==
  /\ requires_standard_jobs \in BOOLEAN
  /\ standard_channels = << >>
  /\ extended_channels = << >>
  /\ group_channels = << >>
  /\ connection = "open"

\* The channel ids a server of this kind puts in an OpenMiningChannel.Success.
ServerMayOpen(channel_id) == ReusesIds \/ channel_id \notin OpenChannels

OpenStandardSuccess(channel_id, group_channel_id, prefix) ==
  /\ connection = "open"
  /\ ServerMayOpen(channel_id)
  /\ from_wire_accepts(prefix)
  /\ join_group(channel_id, group_channel_id, prefix)
  /\ standard_channels' = Insert(standard_channels, channel_id, prefix)
  /\ UNCHANGED <<requires_standard_jobs, extended_channels, connection>>

\* Slip: the two lengths are swapped.
new_extended_swapped(prefix, rollable) == [prefix |-> rollable, rollable |-> prefix]

\* ExtendedChannel::new
new_extended(prefix, rollable) == [prefix |-> prefix, rollable |-> rollable]

\* Slip: the group is joined with the length of the prefix alone.
OpenExtendedSuccess_prefix_only(channel_id, group_channel_id, prefix, rollable) ==
  /\ connection = "open"
  /\ ServerMayOpen(channel_id)
  /\ from_wire_accepts(prefix)
  /\ join_group(channel_id, group_channel_id, prefix)
  /\ extended_channels' =
       Insert(extended_channels, channel_id, new_extended(prefix, rollable))
  /\ UNCHANGED <<requires_standard_jobs, standard_channels, connection>>

OpenExtendedSuccess(channel_id, group_channel_id, prefix, rollable) ==
  /\ connection = "open"
  /\ ServerMayOpen(channel_id)
  /\ from_wire_accepts(prefix)
  /\ join_group(channel_id, group_channel_id, prefix + rollable)
  /\ extended_channels' =
       Insert(extended_channels, channel_id, new_extended(prefix, rollable))
  /\ UNCHANGED <<requires_standard_jobs, standard_channels, connection>>

\* An addressed id is looked up among the standard channels first; an id that
\* names no channel is skipped, its groups untouched.
CloseChannel(id) ==
  LET closed == addressed_channels(id) \cap OpenChannels
  IN  /\ connection = "open"
      /\ standard_channels' =
           Restrict(standard_channels, DOMAIN standard_channels \ closed)
      /\ extended_channels' =
           Restrict(extended_channels,
                    DOMAIN extended_channels \ (closed \ DOMAIN standard_channels))
      /\ group_channels' = without_members(group_channels, closed)
      /\ UNCHANGED <<requires_standard_jobs, connection>>

\* Each channel decides for itself whether it takes a prefix of another length.
takes(prefix, old) == PrefixResizes \/ prefix = old

standard_with_prefix(id, prefix) ==
  [c \in DOMAIN standard_channels |->
     IF c = id /\ takes(prefix, standard_channels[c])
     THEN prefix ELSE standard_channels[c]]

extended_with_prefix(id, prefix) ==
  [c \in DOMAIN extended_channels |->
     IF c = id /\ takes(prefix, extended_channels[c].prefix)
     THEN new_extended(prefix, extended_channels[c].rollable)
     ELSE extended_channels[c]]

\* A group id matches no channel, so the message is ignored for groups.  An id
\* of both kinds reaches both miners, the standard one first.
SetExtranoncePrefix(id, prefix) ==
  /\ connection = "open"
  /\ from_wire_accepts(prefix)
  /\ id \in OpenChannels
  /\ standard_channels' = standard_with_prefix(id, prefix)
  /\ extended_channels' = extended_with_prefix(id, prefix)
  /\ UNCHANGED <<requires_standard_jobs, group_channels, connection>>

\* The standard miner of such an id has its prefix by the time the lock of the
\* extended one turns out to be poisoned.
SetExtranoncePrefixHalfway(id, prefix) ==
  /\ connection = "open"
  /\ LocksMayPoison
  /\ from_wire_accepts(prefix)
  /\ id \in DOMAIN standard_channels \cap DOMAIN extended_channels
  /\ standard_channels' = standard_with_prefix(id, prefix)
  /\ connection' = "failed"
  /\ UNCHANGED <<requires_standard_jobs, extended_channels, group_channels>>

\* Slip: the listed channels stay where they were.
redefine_group_keeping(group_channel_id, channel_ids, size) ==
  IF channel_ids = {}
  THEN Restrict(group_channels, Groups \ {group_channel_id})
  ELSE Insert(group_channels, group_channel_id,
              [channel_ids |-> channel_ids, full_extranonce_size |-> size])

\* The listed channels leave their groups and the group becomes exactly them.
redefine_group(group_channel_id, channel_ids, size) ==
  LET others == without_members(
                  Restrict(group_channels, Groups \ {group_channel_id}), channel_ids)
  IN  IF channel_ids = {}
      THEN others
      ELSE Insert(others, group_channel_id,
                  [channel_ids |-> channel_ids, full_extranonce_size |-> size])

\* The whole redefinition is validated before any group is touched.
SetGroupChannel(group_channel_id, channel_ids) ==
  /\ connection = "open"
  /\ ~requires_standard_jobs
  /\ group_channel_id \notin OpenChannels
  /\ channel_ids \subseteq OpenChannels
  /\ \E size \in {full_extranonce_size(c) : c \in channel_ids} \cup {0} :
       /\ \A c \in channel_ids : full_extranonce_size(c) = size
       /\ group_channels' = redefine_group(group_channel_id, channel_ids, size)
  /\ UNCHANGED <<requires_standard_jobs, standard_channels, extended_channels, connection>>

\* SetCustomMiningJob.Success and .Error are never expected.
SetCustomMiningJobReply ==
  /\ connection = "open"
  /\ connection' = "failed"
  /\ UNCHANGED <<requires_standard_jobs, registry>>

\* A connection that declared REQUIRES_STANDARD_JOBS never sees extended jobs
\* or regrouping: NewExtendedMiningJob and SetGroupChannel are fatal.
StandardJobsOnlyViolation ==
  /\ connection = "open"
  /\ requires_standard_jobs
  /\ connection' = "failed"
  /\ UNCHANGED <<requires_standard_jobs, registry>>

\* Any other handler that locks a channel whose task panicked inside the lock
\* returns PoisonLock before it has changed the registry.
PoisonLock ==
  /\ connection = "open"
  /\ LocksMayPoison
  /\ OpenChannels # {}
  /\ connection' = "failed"
  /\ UNCHANGED <<requires_standard_jobs, registry>>

\* start() has returned: no frame is handled any more.
Returned == connection = "failed" /\ UNCHANGED vars

Next ==
  \/ \E c, g \in Ids, p \in PrefixSizes : OpenStandardSuccess(c, g, p)
  \/ \E c, g \in Ids, p \in PrefixSizes, r \in RollableSizes :
       OpenExtendedSuccess(c, g, p, r)
  \/ \E id \in Ids : CloseChannel(id)
  \/ \E id \in Ids, p \in PrefixSizes : SetExtranoncePrefix(id, p)
  \/ \E id \in Ids, p \in PrefixSizes : SetExtranoncePrefixHalfway(id, p)
  \/ \E g \in Ids, S \in SUBSET Ids : SetGroupChannel(g, S)
  \/ SetCustomMiningJobReply
  \/ StandardJobsOnlyViolation
  \/ PoisonLock
  \/ Returned

Spec == Init /\ [][Next]_vars

-----------------------------------------------------------------------------
(* Invariants *)

ExtendedEntry == [prefix : PrefixSizes, rollable : RollableSizes]
GroupEntry == [channel_ids : SUBSET Ids, full_extranonce_size : Nat]

\* map is a HashMap from ids to values.
IsMap(map, Value) == DOMAIN map \subseteq Ids /\ map \in [DOMAIN map -> Value]

MapsOK ==
  /\ IsMap(standard_channels, PrefixSizes)
  /\ IsMap(extended_channels, ExtendedEntry)
  /\ IsMap(group_channels, GroupEntry)
  /\ connection \in {"open", "failed"}

TypeOK == MapsOK /\ requires_standard_jobs \in BOOLEAN

\* No id names a channel and a group at once, whatever the server sends: the
\* lookup of addressed_channels is not shadowed by a group of the same id.
NamespaceDisjoint == OpenChannels \cap Groups = {}

\* A broadcast finds every channel it addresses: groups list open channels
\* only, and a group without members does not outlive its last one.
GroupsListOpenChannels ==
  \A g \in Groups :
    /\ group_channels[g].channel_ids # {}
    /\ group_channels[g].channel_ids \subseteq OpenChannels

\* The groups that list a channel.
GroupsOf(c) == {g \in Groups : c \in group_channels[g].channel_ids}

\* A channel receives a group's work once: no two groups list it.
OneGroupPerChannel ==
  \A g, h \in Groups :
    group_channels[g].channel_ids \cap group_channels[h].channel_ids # {} => g = h

\* An id names at most one miner: join_group refuses an id in use, so that a
\* lookup that tries the standard channels first cannot hide an extended channel.
KindsDisjoint == DOMAIN standard_channels \cap DOMAIN extended_channels = {}

\* Every member of a group has the extranonce size the group was built with,
\* so a coinbase built for the group fits every member.
GroupSharesExtranonceSize ==
  \A g \in Groups : \A c \in group_channels[g].channel_ids :
    full_extranonce_size(c) = group_channels[g].full_extranonce_size

\* Where regrouping is forbidden, every open channel can be addressed through a
\* group.
EveryChannelHasAGroup ==
  requires_standard_jobs => \A c \in OpenChannels : GroupsOf(c) # {}

-----------------------------------------------------------------------------
(* Action properties *)

\* Closing or opening one channel moves no other: a channel that stays open
\* changes groups only when a SetGroupChannel lists it or redefines its group.
OnlyRegroupingMovesChannels ==
  [][\A c \in OpenChannels \cap OpenChannels' :
       GroupsOf(c)' # GroupsOf(c) =>
         \E g \in Ids, S \in SUBSET Ids :
           /\ c \in S \/ g \in GroupsOf(c)
           /\ SetGroupChannel(g, S)]_vars

=============================================================================
