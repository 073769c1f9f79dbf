------------------------- MODULE ChannelManagerProofs -------------------------
(***************************************************************************)
(* What the channel registry guarantees for any set of ids, any prefix     *)
(* lengths and any configuration.                                          *)
(*                                                                         *)
(* The inductive invariants build on one another.  Lookups holds whatever  *)
(* the server sends: it is what makes the handlers' lookups meaningful.    *)
(* FreshLookups adds what a server that opens each channel under an id of  *)
(* its own can rely on.  On top of it, UniformGroups adds the extranonce   *)
(* sizes, for a library that keeps prefix lengths, and GroupedChannels     *)
(* that no channel is without a group, on a connection that forbids        *)
(* regrouping.                                                             *)
(***************************************************************************)
EXTENDS ChannelManager, TLAPS

\* No handler changes the configuration.
LEMMA ConfigurationStays ==
  ASSUME [Next]_vars
  PROVE  requires_standard_jobs' = requires_standard_jobs
  <1>1. ASSUME NEW c \in Ids, NEW g \in Ids, NEW p \in PrefixSizes,
               OpenStandardSuccess(c, g, p)
        PROVE  requires_standard_jobs' = requires_standard_jobs
    BY <1>1, Zenon DEF OpenStandardSuccess
  <1>2. ASSUME NEW c \in Ids, NEW g \in Ids, NEW p \in PrefixSizes, NEW r \in RollableSizes,
               OpenExtendedSuccess(c, g, p, r)
        PROVE  requires_standard_jobs' = requires_standard_jobs
    BY <1>2, Zenon DEF OpenExtendedSuccess
  <1>3. ASSUME NEW id \in Ids, CloseChannel(id)
        PROVE  requires_standard_jobs' = requires_standard_jobs
    BY <1>3, Zenon DEF CloseChannel
  <1>4. ASSUME NEW id \in Ids, NEW p \in PrefixSizes,
               SetExtranoncePrefix(id, p) \/ SetExtranoncePrefixHalfway(id, p)
        PROVE  requires_standard_jobs' = requires_standard_jobs
    BY <1>4, Zenon DEF SetExtranoncePrefix, SetExtranoncePrefixHalfway
  <1>5. ASSUME NEW g \in Ids, NEW S \in SUBSET Ids, SetGroupChannel(g, S)
        PROVE  requires_standard_jobs' = requires_standard_jobs
    BY <1>5, Zenon DEF SetGroupChannel
  <1>6. ASSUME SetCustomMiningJobReply \/ StandardJobsOnlyViolation \/ PoisonLock
                 \/ Returned \/ UNCHANGED vars
        PROVE  requires_standard_jobs' = requires_standard_jobs
    BY <1>6, Zenon
    DEF SetCustomMiningJobReply, StandardJobsOnlyViolation, PoisonLock, Returned, vars
  <1> QED
    BY <1>1, <1>2, <1>3, <1>4, <1>5, <1>6, Zenon DEF Next

-----------------------------------------------------------------------------
(* The operations on maps *)

\* Insert adds one key to a map and changes no other entry.
LEMMA InsertFacts ==
  ASSUME NEW Value, NEW map, IsMap(map, Value), NEW key \in Ids, NEW value \in Value
  PROVE  /\ IsMap(Insert(map, key, value), Value)
         /\ DOMAIN Insert(map, key, value) = DOMAIN map \cup {key}
         /\ Insert(map, key, value)[key] = value
         /\ \A k \in DOMAIN map \ {key} : Insert(map, key, value)[k] = map[k]
  BY DEF Insert, IsMap

\* Restrict removes keys and changes no entry that stays.
LEMMA RestrictFacts ==
  ASSUME NEW Value, NEW map, IsMap(map, Value), NEW S, S \subseteq DOMAIN map
  PROVE  /\ IsMap(Restrict(map, S), Value)
         /\ DOMAIN Restrict(map, S) = S
         /\ \A k \in S : Restrict(map, S)[k] = map[k]
  BY DEF Restrict, IsMap

\* The groups that keep a member when the channels of S leave.
Remaining(groups, S) == {g \in DOMAIN groups : groups[g].channel_ids \ S # {}}

\* without_members keeps exactly the groups with a member left, and takes from
\* them the channels of S.
LEMMA WithoutMembersFacts ==
  ASSUME NEW groups, IsMap(groups, GroupEntry), NEW S
  PROVE  /\ IsMap(without_members(groups, S), GroupEntry)
         /\ DOMAIN without_members(groups, S) = Remaining(groups, S)
         /\ \A g \in DOMAIN without_members(groups, S) :
              /\ without_members(groups, S)[g].channel_ids = groups[g].channel_ids \ S
              /\ without_members(groups, S)[g].full_extranonce_size
                   = groups[g].full_extranonce_size
  <1> DEFINE kept == Remaining(groups, S)
             result == [g \in kept |-> [groups[g] EXCEPT !.channel_ids = @ \ S]]
  <1>1. without_members(groups, S) = result
    BY DEF without_members, Remaining
  <1>2. ASSUME NEW g \in kept
        PROVE  /\ result[g].channel_ids = groups[g].channel_ids \ S
               /\ result[g].full_extranonce_size = groups[g].full_extranonce_size
               /\ result[g] \in GroupEntry
    <2>1. groups[g] \in GroupEntry
      BY DEF IsMap, Remaining
    <2>2. result[g] = [groups[g] EXCEPT !.channel_ids = @ \ S]
      OBVIOUS
    <2> QED
      BY <2>1, <2>2 DEF GroupEntry
  <1>3. DOMAIN result = kept /\ IsMap(result, GroupEntry)
    BY <1>2 DEF IsMap, Remaining
  <1> HIDE DEF result
  <1> QED
    BY <1>1, <1>2, <1>3

\* The members a group has before a channel joins it.
MembersOf(g) == IF g \in Groups THEN group_channels[g].channel_ids ELSE {}

\* A channel that joins a group is added to that group and to no other.
LEMMA JoinGroupFacts ==
  ASSUME MapsOK, NEW c \in Ids, NEW g \in Ids, NEW size \in Nat, join_group(c, g, size)
  PROVE  /\ IsMap(group_channels', GroupEntry)
         /\ Groups' = Groups \cup {g}
         /\ group_channels'[g].channel_ids = MembersOf(g) \cup {c}
         /\ group_channels'[g].full_extranonce_size = size
         /\ \A h \in Groups \ {g} : group_channels'[h] = group_channels[h]
         /\ g \notin OpenChannels /\ c # g /\ c \notin Groups
         /\ g \in Groups => group_channels[g].full_extranonce_size = size
  <1> DEFINE entry == [channel_ids |-> MembersOf(g) \cup {c}, full_extranonce_size |-> size]
  <1>1. IsMap(group_channels, GroupEntry)
    BY DEF MapsOK
  <1>2. MembersOf(g) \in SUBSET Ids
    BY <1>1 DEF MembersOf, IsMap, GroupEntry, Groups
  <1>3. entry \in GroupEntry
    BY <1>2 DEF GroupEntry
  <1>4. group_channels' = Insert(group_channels, g, entry)
    BY DEF join_group, MembersOf
  <1> HIDE DEF entry
  <1>5. /\ IsMap(group_channels', GroupEntry)
        /\ DOMAIN group_channels' = DOMAIN group_channels \cup {g}
        /\ group_channels'[g] = entry
        /\ \A h \in DOMAIN group_channels \ {g} : group_channels'[h] = group_channels[h]
    <2>1. ASSUME NEW e \in GroupEntry
          PROVE  /\ IsMap(Insert(group_channels, g, e), GroupEntry)
                 /\ DOMAIN Insert(group_channels, g, e) = DOMAIN group_channels \cup {g}
                 /\ Insert(group_channels, g, e)[g] = e
                 /\ \A h \in DOMAIN group_channels \ {g} :
                      Insert(group_channels, g, e)[h] = group_channels[h]
      BY <1>1 DEF Insert, IsMap
    <2> QED
      BY <1>3, <1>4, <2>1
  <1>6. /\ entry.channel_ids = MembersOf(g) \cup {c}
        /\ entry.full_extranonce_size = size
    BY DEF entry
  <1>7. /\ g \notin OpenChannels /\ c # g /\ c \notin Groups
        /\ g \in Groups => group_channels[g].full_extranonce_size = size
    BY DEF join_group, ids_collide, group_takes
  <1> QED
    BY <1>5, <1>6, <1>7 DEF Groups

\* The entries of an IsMap map.
LEMMA EntryFacts ==
  ASSUME MapsOK
  PROVE  /\ \A c \in DOMAIN standard_channels : standard_channels[c] \in Nat
         /\ \A c \in DOMAIN extended_channels :
              /\ extended_channels[c].prefix \in Nat
              /\ extended_channels[c].rollable \in Nat
         /\ \A c \in OpenChannels : full_extranonce_size(c) \in Nat
         /\ OpenChannels \subseteq Ids
         /\ \A g \in Groups : group_channels[g].channel_ids \subseteq Ids
  <1>1. \A c \in DOMAIN standard_channels : standard_channels[c] \in Nat
    BY RegistryAssumption DEF MapsOK, IsMap
  <1>2. \A c \in DOMAIN extended_channels : /\ extended_channels[c].prefix \in Nat
                                            /\ extended_channels[c].rollable \in Nat
    BY RegistryAssumption DEF MapsOK, IsMap, ExtendedEntry
  <1>3. \A c \in OpenChannels : full_extranonce_size(c) \in Nat
    BY <1>1, <1>2 DEF OpenChannels, full_extranonce_size
  <1>4. OpenChannels \subseteq Ids
    BY DEF MapsOK, IsMap, OpenChannels
  <1>5. \A g \in Groups : group_channels[g].channel_ids \subseteq Ids
    BY DEF MapsOK, IsMap, GroupEntry, Groups
  <1> QED
    BY <1>1, <1>2, <1>3, <1>4, <1>5

-----------------------------------------------------------------------------
(* Any server *)

\* The invariant behind every lookup of the handlers.
Lookups == MapsOK /\ NamespaceDisjoint /\ GroupsListOpenChannels

\* The empty registry has nothing to look up.
LEMMA LookupsInit == Init => Lookups
  <1> SUFFICES ASSUME Init PROVE Lookups
    OBVIOUS
  <1>1. DOMAIN << >> = {}
    OBVIOUS
  <1>2. \A Value : IsMap(<< >>, Value)
    BY DEF IsMap
  <1> QED
    BY <1>1, <1>2
    DEF Init, Lookups, MapsOK, NamespaceDisjoint, GroupsListOpenChannels, Groups, OpenChannels

\* What opening a channel does to the lookups, for both kinds: the channel is
\* open afterwards, and listed by its group.
LEMMA OpeningKeepsLookups ==
  ASSUME Lookups, NEW c \in Ids, NEW g \in Ids, NEW size \in Nat, join_group(c, g, size),
         OpenChannels' = OpenChannels \cup {c}
  PROVE  NamespaceDisjoint' /\ GroupsListOpenChannels'
  <1>1. MapsOK
    BY DEF Lookups
  <1>2. /\ Groups' = Groups \cup {g}
        /\ group_channels'[g].channel_ids = MembersOf(g) \cup {c}
        /\ \A h \in Groups \ {g} : group_channels'[h] = group_channels[h]
        /\ g \notin OpenChannels /\ c # g /\ c \notin Groups
    BY <1>1, JoinGroupFacts
  <1>3. NamespaceDisjoint'
    BY <1>2 DEF Lookups, NamespaceDisjoint
  <1>4. \A h \in Groups' : /\ group_channels'[h].channel_ids # {}
                           /\ group_channels'[h].channel_ids \subseteq OpenChannels'
    <2> SUFFICES ASSUME NEW h \in Groups'
                 PROVE  /\ group_channels'[h].channel_ids # {}
                        /\ group_channels'[h].channel_ids \subseteq OpenChannels'
      OBVIOUS
    <2>1. CASE h = g
      BY <2>1, <1>2 DEF Lookups, GroupsListOpenChannels, MembersOf
    <2>2. CASE h # g
      BY <2>2, <1>2 DEF Lookups, GroupsListOpenChannels
    <2> QED
      BY <2>1, <2>2
  <1> QED
    BY <1>3, <1>4 DEF GroupsListOpenChannels

\* A standard channel is open, and in its group, once it is registered.
LEMMA OpenStandardKeepsLookups ==
  ASSUME Lookups, NEW c \in Ids, NEW g \in Ids, NEW p \in PrefixSizes,
         OpenStandardSuccess(c, g, p)
  PROVE  Lookups'
  <1>1. MapsOK /\ p \in Nat /\ join_group(c, g, p)
    BY RegistryAssumption DEF Lookups, OpenStandardSuccess
  <1>2. /\ IsMap(standard_channels', PrefixSizes)
        /\ DOMAIN standard_channels' = DOMAIN standard_channels \cup {c}
    <2>1. standard_channels' = Insert(standard_channels, c, p)
      BY DEF OpenStandardSuccess
    <2>2. /\ IsMap(Insert(standard_channels, c, p), PrefixSizes)
          /\ DOMAIN Insert(standard_channels, c, p) = DOMAIN standard_channels \cup {c}
      <3>1. IsMap(standard_channels, PrefixSizes)
        BY <1>1 DEF MapsOK
      <3>2. IsMap(Insert(standard_channels, c, p), PrefixSizes)
        BY <3>1, InsertFacts
      <3>3. DOMAIN Insert(standard_channels, c, p) = DOMAIN standard_channels \cup {c}
        BY DEF Insert
      <3> QED
        BY <3>2, <3>3
    <2> QED
      BY <2>1, <2>2, Zenon DEF IsMap
  <1>3. OpenChannels' = OpenChannels \cup {c}
    BY <1>2 DEF OpenChannels, OpenStandardSuccess
  <1>4. NamespaceDisjoint' /\ GroupsListOpenChannels'
    BY <1>1, <1>3, OpeningKeepsLookups
  <1>5. IsMap(group_channels', GroupEntry)
    BY <1>1, JoinGroupFacts
  <1>6. MapsOK'
    BY <1>1, <1>2, <1>5 DEF MapsOK, OpenStandardSuccess, IsMap
  <1> QED
    BY <1>4, <1>6 DEF Lookups

\* So is an extended channel.
LEMMA OpenExtendedKeepsLookups ==
  ASSUME Lookups, NEW c \in Ids, NEW g \in Ids, NEW p \in PrefixSizes,
         NEW r \in RollableSizes, OpenExtendedSuccess(c, g, p, r)
  PROVE  Lookups'
  <1>1. MapsOK /\ p + r \in Nat /\ join_group(c, g, p + r)
    BY RegistryAssumption DEF Lookups, OpenExtendedSuccess
  <1>2. new_extended(p, r) \in ExtendedEntry
    BY DEF ExtendedEntry, new_extended
  <1>3. /\ IsMap(extended_channels', ExtendedEntry)
        /\ DOMAIN extended_channels' = DOMAIN extended_channels \cup {c}
    <2> DEFINE entry == new_extended(p, r)
    <2>1. extended_channels' = Insert(extended_channels, c, entry)
      BY DEF OpenExtendedSuccess
    <2>2. entry \in ExtendedEntry /\ IsMap(extended_channels, ExtendedEntry)
      BY <1>1, <1>2 DEF MapsOK
    <2> HIDE DEF entry
    <2>3. IsMap(Insert(extended_channels, c, entry), ExtendedEntry)
      BY <2>2, InsertFacts
    <2>4. DOMAIN Insert(extended_channels, c, entry) = DOMAIN extended_channels \cup {c}
      BY DEF Insert
    <2>5. IsMap(extended_channels', ExtendedEntry)
      BY <2>1, <2>3 DEF IsMap
    <2>6. DOMAIN extended_channels' = DOMAIN extended_channels \cup {c}
      BY <2>1, <2>4
    <2> QED
      BY <2>5, <2>6
  <1>4. OpenChannels' = OpenChannels \cup {c}
    BY <1>3 DEF OpenChannels, OpenExtendedSuccess
  <1>5. NamespaceDisjoint' /\ GroupsListOpenChannels'
    BY <1>1, <1>4, OpeningKeepsLookups
  <1>6. IsMap(group_channels', GroupEntry)
    BY <1>1, JoinGroupFacts
  <1>7. MapsOK'
    BY <1>1, <1>3, <1>6 DEF MapsOK, OpenExtendedSuccess, IsMap
  <1> QED
    BY <1>5, <1>7 DEF Lookups

\* The channels a CloseChannel closes.
Closed(id) == addressed_channels(id) \cap OpenChannels

\* A closed channel leaves the standard channels, or else the extended ones,
\* and every group.
LEMMA CloseFacts ==
  ASSUME MapsOK, NEW id \in Ids, CloseChannel(id)
  PROVE  /\ IsMap(standard_channels', PrefixSizes)
         /\ DOMAIN standard_channels' = DOMAIN standard_channels \ Closed(id)
         /\ \A c \in DOMAIN standard_channels' :
              standard_channels'[c] = standard_channels[c]
         /\ IsMap(extended_channels', ExtendedEntry)
         /\ DOMAIN extended_channels'
              = DOMAIN extended_channels \ (Closed(id) \ DOMAIN standard_channels)
         /\ \A c \in DOMAIN extended_channels' :
              extended_channels'[c] = extended_channels[c]
         /\ IsMap(group_channels', GroupEntry)
         /\ Groups' = Remaining(group_channels, Closed(id))
         /\ \A g \in Groups' :
              /\ group_channels'[g].channel_ids = group_channels[g].channel_ids \ Closed(id)
              /\ group_channels'[g].full_extranonce_size
                   = group_channels[g].full_extranonce_size
         /\ connection' = connection
  <1> DEFINE standard == DOMAIN standard_channels \ Closed(id)
             extended == DOMAIN extended_channels \ (Closed(id) \ DOMAIN standard_channels)
  <1>1. /\ standard_channels' = Restrict(standard_channels, standard)
        /\ extended_channels' = Restrict(extended_channels, extended)
        /\ group_channels' = without_members(group_channels, Closed(id))
        /\ connection' = connection
    BY DEF CloseChannel, Closed
  <1>2. standard \subseteq DOMAIN standard_channels /\ extended \subseteq DOMAIN extended_channels
    OBVIOUS
  <1>3. /\ IsMap(standard_channels, PrefixSizes)
        /\ IsMap(extended_channels, ExtendedEntry)
        /\ IsMap(group_channels, GroupEntry)
    BY DEF MapsOK
  <1>4. DOMAIN standard_channels' = standard /\ DOMAIN extended_channels' = extended
    <2> HIDE DEF standard, extended
    <2> QED
      BY <1>1, <1>2, <1>3, RestrictFacts
  <1>5. /\ IsMap(standard_channels', PrefixSizes)
        /\ \A c \in standard : standard_channels'[c] = standard_channels[c]
    <2> HIDE DEF standard
    <2> QED
      BY <1>1, <1>2, <1>3, RestrictFacts
  <1>6. /\ IsMap(extended_channels', ExtendedEntry)
        /\ \A c \in extended : extended_channels'[c] = extended_channels[c]
    <2> HIDE DEF extended
    <2> QED
      BY <1>1, <1>2, <1>3, RestrictFacts
  <1>7. IsMap(group_channels', GroupEntry)
    BY <1>1, <1>3, WithoutMembersFacts
  <1>8. Groups' = Remaining(group_channels, Closed(id))
    BY <1>1, <1>3, WithoutMembersFacts DEF Groups
  <1>9. \A g \in Groups' :
          /\ group_channels'[g].channel_ids = group_channels[g].channel_ids \ Closed(id)
          /\ group_channels'[g].full_extranonce_size
               = group_channels[g].full_extranonce_size
    BY <1>1, <1>3, WithoutMembersFacts DEF Groups
  <1> QED
    BY <1>1, <1>4, <1>5, <1>6, <1>7, <1>8, <1>9

\* A group loses every channel that is closed, and disappears with its last.
LEMMA CloseKeepsLookups ==
  ASSUME Lookups, NEW id \in Ids, CloseChannel(id)
  PROVE  Lookups'
  <1>1. MapsOK
    BY DEF Lookups
  <1>2. OpenChannels' \subseteq OpenChannels /\ OpenChannels \ Closed(id) \subseteq OpenChannels'
    BY <1>1, CloseFacts DEF OpenChannels
  <1>3. /\ Groups' = Remaining(group_channels, Closed(id))
        /\ \A g \in Groups' :
             group_channels'[g].channel_ids = group_channels[g].channel_ids \ Closed(id)
    BY <1>1, CloseFacts
  <1>4. MapsOK'
    BY <1>1, CloseFacts DEF MapsOK, IsMap
  <1>5. NamespaceDisjoint'
    BY <1>2, <1>3 DEF Lookups, NamespaceDisjoint, Remaining, Groups
  <1>6. GroupsListOpenChannels'
    BY <1>2, <1>3 DEF Lookups, GroupsListOpenChannels, Remaining, Groups
  <1> QED
    BY <1>4, <1>5, <1>6 DEF Lookups

\* The maps keep their keys when a prefix changes, and their entries where
\* channels keep the length of their prefix.
LEMMA WithPrefixFacts ==
  ASSUME MapsOK, NEW id \in Ids, NEW p \in PrefixSizes
  PROVE  /\ IsMap(standard_with_prefix(id, p), PrefixSizes)
         /\ IsMap(extended_with_prefix(id, p), ExtendedEntry)
         /\ DOMAIN standard_with_prefix(id, p) = DOMAIN standard_channels
         /\ DOMAIN extended_with_prefix(id, p) = DOMAIN extended_channels
         /\ ~PrefixResizes => /\ standard_with_prefix(id, p) = standard_channels
                              /\ extended_with_prefix(id, p) = extended_channels
  <1> DEFINE standard(c) == IF c = id /\ takes(p, standard_channels[c])
                            THEN p ELSE standard_channels[c]
             extended(c) == IF c = id /\ takes(p, extended_channels[c].prefix)
                            THEN new_extended(p, extended_channels[c].rollable)
                            ELSE extended_channels[c]
  <1>1. /\ standard_with_prefix(id, p) = [c \in DOMAIN standard_channels |-> standard(c)]
        /\ extended_with_prefix(id, p) = [c \in DOMAIN extended_channels |-> extended(c)]
    BY DEF standard_with_prefix, extended_with_prefix
  <1>2. IsMap(standard_channels, PrefixSizes) /\ IsMap(extended_channels, ExtendedEntry)
    BY DEF MapsOK
  <1>3. \A c \in DOMAIN standard_channels : standard(c) \in PrefixSizes
    BY <1>2 DEF IsMap
  <1>4. \A c \in DOMAIN extended_channels : extended(c) \in ExtendedEntry
    BY <1>2 DEF IsMap, ExtendedEntry, new_extended
  <1>5. ASSUME ~PrefixResizes
        PROVE  \A c \in DOMAIN standard_channels : standard(c) = standard_channels[c]
    BY <1>5 DEF takes
  <1>6. ASSUME ~PrefixResizes
        PROVE  \A c \in DOMAIN extended_channels : extended(c) = extended_channels[c]
    BY <1>6, <1>2 DEF IsMap, ExtendedEntry, takes, new_extended
  <1> HIDE DEF standard, extended
  <1>7. /\ IsMap(standard_with_prefix(id, p), PrefixSizes)
        /\ DOMAIN standard_with_prefix(id, p) = DOMAIN standard_channels
    BY <1>1, <1>2, <1>3 DEF IsMap
  <1>8. /\ IsMap(extended_with_prefix(id, p), ExtendedEntry)
        /\ DOMAIN extended_with_prefix(id, p) = DOMAIN extended_channels
    BY <1>1, <1>2, <1>4 DEF IsMap
  <1>9. ~PrefixResizes => /\ standard_with_prefix(id, p) = standard_channels
                          /\ extended_with_prefix(id, p) = extended_channels
    BY <1>1, <1>2, <1>5, <1>6 DEF IsMap
  <1> QED
    BY <1>7, <1>8, <1>9

\* So does the handler, whether it gets to both miners or not.
LEMMA SetPrefixFacts ==
  ASSUME MapsOK, NEW id \in Ids, NEW p \in PrefixSizes,
         SetExtranoncePrefix(id, p) \/ SetExtranoncePrefixHalfway(id, p)
  PROVE  /\ IsMap(standard_channels', PrefixSizes)
         /\ IsMap(extended_channels', ExtendedEntry)
         /\ DOMAIN standard_channels' = DOMAIN standard_channels
         /\ DOMAIN extended_channels' = DOMAIN extended_channels
         /\ ~PrefixResizes => UNCHANGED <<standard_channels, extended_channels>>
         /\ UNCHANGED group_channels
         /\ connection' \in {"open", "failed"}
  <1>1. IsMap(standard_channels, PrefixSizes) /\ IsMap(extended_channels, ExtendedEntry)
    BY DEF MapsOK
  <1>2. CASE SetExtranoncePrefix(id, p)
    BY <1>2, WithPrefixFacts DEF SetExtranoncePrefix
  <1>3. CASE SetExtranoncePrefixHalfway(id, p)
    BY <1>1, <1>3, WithPrefixFacts DEF SetExtranoncePrefixHalfway, IsMap
  <1> QED
    BY <1>2, <1>3

\* A new prefix touches no id and no group.
LEMMA SetPrefixKeepsLookups ==
  ASSUME Lookups, NEW id \in Ids, NEW p \in PrefixSizes,
         SetExtranoncePrefix(id, p) \/ SetExtranoncePrefixHalfway(id, p)
  PROVE  Lookups'
  <1>1. /\ IsMap(standard_channels', PrefixSizes)
        /\ IsMap(extended_channels', ExtendedEntry)
        /\ DOMAIN standard_channels' = DOMAIN standard_channels
        /\ DOMAIN extended_channels' = DOMAIN extended_channels
    BY SetPrefixFacts DEF Lookups
  <1>2. group_channels' = group_channels /\ connection' \in {"open", "failed"}
    BY SetPrefixFacts DEF Lookups
  <1> QED
    BY <1>1, <1>2
    DEF Lookups, MapsOK, NamespaceDisjoint, GroupsListOpenChannels, OpenChannels, Groups,
        IsMap

\* A redefined group has exactly the listed members, a new size, and takes its
\* members from every other group.
LEMMA SetGroupFacts ==
  ASSUME MapsOK, NEW g \in Ids, NEW S \in SUBSET Ids, SetGroupChannel(g, S)
  PROVE  /\ IsMap(group_channels', GroupEntry)
         /\ \A h \in Groups' \ {g} :
              /\ h \in Groups
              /\ group_channels'[h].channel_ids = group_channels[h].channel_ids \ S
              /\ group_channels'[h].channel_ids # {}
              /\ group_channels'[h].full_extranonce_size
                   = group_channels[h].full_extranonce_size
         /\ g \in Groups' =>
              /\ S # {}
              /\ group_channels'[g].channel_ids = S
              /\ \A c \in S :
                   full_extranonce_size(c) = group_channels'[g].full_extranonce_size
         /\ \A h \in Groups \ {g} : group_channels[h].channel_ids \ S # {} => h \in Groups'
         /\ S # {} => g \in Groups'
         /\ g \notin OpenChannels /\ S \subseteq OpenChannels
         /\ UNCHANGED <<standard_channels, extended_channels, connection>>
  <1> DEFINE rest == Restrict(group_channels, Groups \ {g})
             others == without_members(rest, S)
  <1>1. PICK size \in {full_extranonce_size(c) : c \in S} \cup {0} :
          /\ \A c \in S : full_extranonce_size(c) = size
          /\ group_channels' = redefine_group(g, S, size)
    BY DEF SetGroupChannel
  <1>2. /\ g \notin OpenChannels /\ S \subseteq OpenChannels
        /\ UNCHANGED <<standard_channels, extended_channels, connection>>
    BY DEF SetGroupChannel
  <1>3. size \in Nat
    BY <1>1, <1>2, EntryFacts
  <1>4. /\ IsMap(rest, GroupEntry)
        /\ DOMAIN rest = Groups \ {g}
        /\ \A h \in Groups \ {g} : rest[h] = group_channels[h]
    <2>1. IsMap(group_channels, GroupEntry) /\ Groups \ {g} \subseteq DOMAIN group_channels
      BY DEF MapsOK, Groups
    <2> QED
      BY <2>1, RestrictFacts
  <1> HIDE DEF rest
  <1>5. IsMap(others, GroupEntry)
    BY <1>4, WithoutMembersFacts
  <1>6. DOMAIN others = Remaining(rest, S)
    BY <1>4, WithoutMembersFacts
  <1>7. \A h \in DOMAIN others :
          /\ others[h].channel_ids = rest[h].channel_ids \ S
          /\ others[h].full_extranonce_size = rest[h].full_extranonce_size
    BY <1>4, WithoutMembersFacts
  <1>8. \A h \in DOMAIN others :
          /\ h \in Groups \ {g}
          /\ others[h].channel_ids = group_channels[h].channel_ids \ S
          /\ others[h].channel_ids # {}
          /\ others[h].full_extranonce_size = group_channels[h].full_extranonce_size
    BY <1>4, <1>6, <1>7 DEF Remaining
  <1>8a. \A h \in Groups \ {g} :
           group_channels[h].channel_ids \ S # {} => h \in DOMAIN others
    BY <1>4, <1>6 DEF Remaining
  <1>9. redefine_group(g, S, size) =
          IF S = {} THEN others
          ELSE Insert(others, g, [channel_ids |-> S, full_extranonce_size |-> size])
    BY DEF redefine_group, rest
  <1> HIDE DEF others
  <1>10. CASE S = {}
    <2>1. group_channels' = others
      BY <1>1, <1>9, <1>10
    <2> QED
      BY <1>2, <1>5, <1>8, <1>8a, <1>10, <2>1 DEF Groups
  <1>11. CASE S # {}
    <2> DEFINE entry == [channel_ids |-> S, full_extranonce_size |-> size]
    <2>1. /\ entry \in GroupEntry
          /\ entry.channel_ids = S
          /\ entry.full_extranonce_size = size
      BY <1>3 DEF GroupEntry
    <2>2. group_channels' = Insert(others, g, entry)
      BY <1>1, <1>9, <1>11
    <2> HIDE DEF entry
    <2>3. /\ IsMap(group_channels', GroupEntry)
          /\ DOMAIN group_channels' = DOMAIN others \cup {g}
          /\ group_channels'[g] = entry
          /\ \A h \in DOMAIN others \ {g} : group_channels'[h] = others[h]
      BY <1>5, <2>1, <2>2 DEF Insert, IsMap
    <2> QED
      BY <1>1, <1>2, <1>8, <1>8a, <1>11, <2>1, <2>3 DEF Groups
  <1> QED
    BY <1>10, <1>11

\* Regrouping lists open channels only, under an id no channel has.
LEMMA SetGroupKeepsLookups ==
  ASSUME Lookups, NEW g \in Ids, NEW S \in SUBSET Ids, SetGroupChannel(g, S)
  PROVE  Lookups'
  <1>1. MapsOK
    BY DEF Lookups
  <1>2. OpenChannels' = OpenChannels
    BY <1>1, SetGroupFacts DEF OpenChannels
  <1>3. MapsOK'
    BY <1>1, SetGroupFacts DEF MapsOK, IsMap
  <1>4. NamespaceDisjoint'
    BY <1>1, <1>2, SetGroupFacts DEF Lookups, NamespaceDisjoint
  <1>5. GroupsListOpenChannels'
    <2> SUFFICES ASSUME NEW h \in Groups'
                 PROVE  /\ group_channels'[h].channel_ids # {}
                        /\ group_channels'[h].channel_ids \subseteq OpenChannels'
      BY DEF GroupsListOpenChannels
    <2>1. CASE h = g
      BY <1>1, <1>2, <2>1, SetGroupFacts
    <2>2. CASE h # g
      BY <1>1, <1>2, <2>2, SetGroupFacts DEF Lookups, GroupsListOpenChannels
    <2> QED
      BY <2>1, <2>2
  <1> QED
    BY <1>3, <1>4, <1>5 DEF Lookups

\* The steps that end the connection leave the maps alone.
LEMMA FailingSteps ==
  ASSUME MapsOK, SetCustomMiningJobReply \/ StandardJobsOnlyViolation \/ PoisonLock
                   \/ Returned \/ UNCHANGED vars
  PROVE  UNCHANGED registry /\ connection' \in {"open", "failed"}
  BY DEF MapsOK, SetCustomMiningJobReply, StandardJobsOnlyViolation, PoisonLock, Returned,
         vars, registry

\* Every handler preserves Lookups.
LEMMA LookupsInductive == Lookups /\ [Next]_vars => Lookups'
  <1> SUFFICES ASSUME Lookups, [Next]_vars PROVE Lookups'
    OBVIOUS
  <1>1. ASSUME NEW c \in Ids, NEW g \in Ids, NEW p \in PrefixSizes,
               OpenStandardSuccess(c, g, p)
        PROVE  Lookups'
    BY <1>1, OpenStandardKeepsLookups
  <1>2. ASSUME NEW c \in Ids, NEW g \in Ids, NEW p \in PrefixSizes, NEW r \in RollableSizes,
               OpenExtendedSuccess(c, g, p, r)
        PROVE  Lookups'
    BY <1>2, OpenExtendedKeepsLookups
  <1>3. ASSUME NEW id \in Ids, CloseChannel(id)
        PROVE  Lookups'
    BY <1>3, CloseKeepsLookups
  <1>4. ASSUME NEW id \in Ids, NEW p \in PrefixSizes,
               SetExtranoncePrefix(id, p) \/ SetExtranoncePrefixHalfway(id, p)
        PROVE  Lookups'
    BY <1>4, SetPrefixKeepsLookups
  <1>5. ASSUME NEW g \in Ids, NEW S \in SUBSET Ids, SetGroupChannel(g, S)
        PROVE  Lookups'
    BY <1>5, SetGroupKeepsLookups
  <1>6. ASSUME SetCustomMiningJobReply \/ StandardJobsOnlyViolation \/ PoisonLock
                 \/ Returned \/ UNCHANGED vars
        PROVE  Lookups'
    <2>1. UNCHANGED registry /\ connection' \in {"open", "failed"}
      BY <1>6, FailingSteps DEF Lookups
    <2> QED
      BY <2>1 DEF Lookups, MapsOK, NamespaceDisjoint, GroupsListOpenChannels, registry,
                  OpenChannels, Groups, IsMap
  <1> QED
    BY <1>1, <1>2, <1>3, <1>4, <1>5, <1>6 DEF Next

\* Lookups always holds.
LEMMA LookupsAlways == Spec => []Lookups
  <1> QED
    BY LookupsInit, LookupsInductive, PTL DEF Spec

\* The registry's maps are well formed.
THEOREM TypeCorrect == Spec => []TypeOK
  <1>1. Lookups => MapsOK
    BY DEF Lookups
  <1>2. Init => requires_standard_jobs \in BOOLEAN
    BY DEF Init
  <1>3. ASSUME requires_standard_jobs \in BOOLEAN, [Next]_vars
        PROVE  (requires_standard_jobs \in BOOLEAN)'
    <2>1. requires_standard_jobs' = requires_standard_jobs
      BY <1>3, ConfigurationStays
    <2> QED
      BY <1>3, <2>1, Zenon
  <1>4. MapsOK /\ requires_standard_jobs \in BOOLEAN => TypeOK
    BY DEF TypeOK
  <1> QED
    BY <1>1, <1>2, <1>3, <1>4, LookupsAlways, PTL DEF Spec

\* No id ever names a channel and a group at once, whatever ids the server
\* uses and reuses: the checks of join_group and handle_set_group_channel suffice.
THEOREM NamespaceStaysDisjoint == Spec => []NamespaceDisjoint
  <1>1. Lookups => NamespaceDisjoint
    BY DEF Lookups
  <1> QED
    BY <1>1, LookupsAlways, PTL

\* Groups never list a closed channel and never outlive their last member.
THEOREM GroupsAlwaysListOpenChannels == Spec => []GroupsListOpenChannels
  <1>1. Lookups => GroupsListOpenChannels
    BY DEF Lookups
  <1> QED
    BY <1>1, LookupsAlways, PTL

-----------------------------------------------------------------------------
(* A server that opens each channel under a fresh id *)

\* What holds as long as no open channel's id is reused.
FreshLookups == Lookups /\ KindsDisjoint /\ OneGroupPerChannel

\* The empty registry again.
LEMMA FreshLookupsInit == Init => FreshLookups
  <1> SUFFICES ASSUME Init PROVE FreshLookups
    OBVIOUS
  <1>1. DOMAIN << >> = {}
    OBVIOUS
  <1> QED
    BY <1>1, LookupsInit DEF Init, FreshLookups, KindsDisjoint, OneGroupPerChannel, Groups

\* A channel that was not open is in no group, so joining one puts it in one.
LEMMA FreshChannelJoinsOneGroup ==
  ASSUME FreshLookups, NEW c \in Ids, NEW g \in Ids, NEW size \in Nat,
         join_group(c, g, size), c \notin OpenChannels
  PROVE  OneGroupPerChannel'
  <1>1. /\ Groups' = Groups \cup {g}
        /\ group_channels'[g].channel_ids = MembersOf(g) \cup {c}
        /\ \A h \in Groups \ {g} : group_channels'[h] = group_channels[h]
    BY JoinGroupFacts DEF FreshLookups, Lookups
  <1>2. \A h \in Groups : c \notin group_channels[h].channel_ids
    BY DEF FreshLookups, Lookups, GroupsListOpenChannels
  <1>3. \A h \in Groups \ {g} :
          group_channels'[h].channel_ids \cap group_channels'[g].channel_ids = {}
    BY <1>1, <1>2 DEF FreshLookups, OneGroupPerChannel, MembersOf
  <1>4. ASSUME NEW h \in Groups', NEW k \in Groups',
               group_channels'[h].channel_ids \cap group_channels'[k].channel_ids # {}
        PROVE  h = k
    <2>1. CASE h # g /\ k # g
      BY <1>1, <1>4, <2>1 DEF FreshLookups, OneGroupPerChannel
    <2>2. CASE h = g \/ k = g
      BY <1>1, <1>3, <1>4, <2>2
    <2> QED
      BY <2>1, <2>2
  <1> QED
    BY <1>4 DEF OneGroupPerChannel

\* The id of a new standard channel names no extended channel.
LEMMA OpenStandardKeepsFreshLookups ==
  ASSUME ~ReusesIds, FreshLookups, NEW c \in Ids, NEW g \in Ids, NEW p \in PrefixSizes,
         OpenStandardSuccess(c, g, p)
  PROVE  FreshLookups'
  <1>1. /\ p \in Nat
        /\ join_group(c, g, p)
        /\ c \notin OpenChannels
        /\ standard_channels' = Insert(standard_channels, c, p)
        /\ extended_channels' = extended_channels
    BY RegistryAssumption DEF OpenStandardSuccess, ServerMayOpen
  <1>2. DOMAIN standard_channels' = DOMAIN standard_channels \cup {c}
    BY <1>1 DEF Insert
  <1>3. KindsDisjoint'
    BY <1>1, <1>2 DEF FreshLookups, KindsDisjoint, OpenChannels
  <1>4. OneGroupPerChannel'
    BY <1>1, FreshChannelJoinsOneGroup
  <1> QED
    BY <1>3, <1>4, OpenStandardKeepsLookups DEF FreshLookups

\* Nor does the id of a new extended channel name a standard one.
LEMMA OpenExtendedKeepsFreshLookups ==
  ASSUME ~ReusesIds, FreshLookups, NEW c \in Ids, NEW g \in Ids, NEW p \in PrefixSizes,
         NEW r \in RollableSizes, OpenExtendedSuccess(c, g, p, r)
  PROVE  FreshLookups'
  <1>1. /\ p + r \in Nat
        /\ join_group(c, g, p + r)
        /\ c \notin OpenChannels
        /\ extended_channels' = Insert(extended_channels, c, new_extended(p, r))
        /\ standard_channels' = standard_channels
    BY RegistryAssumption DEF OpenExtendedSuccess, ServerMayOpen
  <1>2. DOMAIN extended_channels' = DOMAIN extended_channels \cup {c}
    BY <1>1 DEF Insert
  <1>3. KindsDisjoint'
    BY <1>1, <1>2 DEF FreshLookups, KindsDisjoint, OpenChannels
  <1>4. OneGroupPerChannel'
    BY <1>1, FreshChannelJoinsOneGroup
  <1> QED
    BY <1>3, <1>4, OpenExtendedKeepsLookups DEF FreshLookups

\* Closing only removes channels and members.
LEMMA CloseKeepsFreshLookups ==
  ASSUME FreshLookups, NEW id \in Ids, CloseChannel(id)
  PROVE  FreshLookups'
  <1>1. MapsOK
    BY DEF FreshLookups, Lookups
  <1>2. KindsDisjoint'
    BY <1>1, CloseFacts DEF FreshLookups, KindsDisjoint
  <1>3. OneGroupPerChannel'
    <2> SUFFICES ASSUME NEW g \in Groups', NEW h \in Groups',
                        group_channels'[g].channel_ids \cap group_channels'[h].channel_ids
                          # {}
                 PROVE  g = h
      BY DEF OneGroupPerChannel
    <2>1. g \in Groups /\ h \in Groups
      BY <1>1, CloseFacts DEF Remaining, Groups
    <2>2. /\ group_channels'[g].channel_ids \subseteq group_channels[g].channel_ids
          /\ group_channels'[h].channel_ids \subseteq group_channels[h].channel_ids
      BY <1>1, CloseFacts
    <2> QED
      BY <2>1, <2>2 DEF FreshLookups, OneGroupPerChannel
  <1> QED
    BY <1>2, <1>3, CloseKeepsLookups DEF FreshLookups

\* The members of a redefined group leave every other group.
LEMMA SetGroupKeepsFreshLookups ==
  ASSUME FreshLookups, NEW g \in Ids, NEW S \in SUBSET Ids, SetGroupChannel(g, S)
  PROVE  FreshLookups'
  <1>1. MapsOK
    BY DEF FreshLookups, Lookups
  <1>2. KindsDisjoint'
    BY <1>1, SetGroupFacts DEF FreshLookups, KindsDisjoint
  <1>3. \A h \in Groups' \ {g} :
          /\ h \in Groups
          /\ group_channels'[h].channel_ids = group_channels[h].channel_ids \ S
    BY <1>1, SetGroupFacts
  <1>4. g \in Groups' => group_channels'[g].channel_ids = S
    BY <1>1, SetGroupFacts
  <1>5. OneGroupPerChannel'
    <2> SUFFICES ASSUME NEW h \in Groups', NEW k \in Groups',
                        group_channels'[h].channel_ids \cap group_channels'[k].channel_ids
                          # {}
                 PROVE  h = k
      BY DEF OneGroupPerChannel
    <2>1. CASE h # g /\ k # g
      <3>1. group_channels[h].channel_ids \cap group_channels[k].channel_ids # {}
        BY <1>3, <2>1
      <3> QED
        BY <1>3, <2>1, <3>1 DEF FreshLookups, OneGroupPerChannel
    <2>2. CASE h = g \/ k = g
      BY <1>3, <1>4, <2>2
    <2> QED
      BY <2>1, <2>2
  <1> QED
    BY <1>2, <1>5, SetGroupKeepsLookups DEF FreshLookups

\* Every handler preserves FreshLookups.
LEMMA FreshLookupsInductive ==
  ASSUME ~ReusesIds, FreshLookups, [Next]_vars
  PROVE  FreshLookups'
  <1>1. ASSUME NEW c \in Ids, NEW g \in Ids, NEW p \in PrefixSizes,
               OpenStandardSuccess(c, g, p)
        PROVE  FreshLookups'
    BY <1>1, OpenStandardKeepsFreshLookups
  <1>2. ASSUME NEW c \in Ids, NEW g \in Ids, NEW p \in PrefixSizes, NEW r \in RollableSizes,
               OpenExtendedSuccess(c, g, p, r)
        PROVE  FreshLookups'
    BY <1>2, OpenExtendedKeepsFreshLookups
  <1>3. ASSUME NEW id \in Ids, CloseChannel(id)
        PROVE  FreshLookups'
    BY <1>3, CloseKeepsFreshLookups
  <1>4. ASSUME NEW id \in Ids, NEW p \in PrefixSizes,
               SetExtranoncePrefix(id, p) \/ SetExtranoncePrefixHalfway(id, p)
        PROVE  FreshLookups'
    <2>1. /\ DOMAIN standard_channels' = DOMAIN standard_channels
          /\ DOMAIN extended_channels' = DOMAIN extended_channels
      BY <1>4, SetPrefixFacts DEF FreshLookups, Lookups
    <2>2. group_channels' = group_channels
      BY <1>4, SetPrefixFacts DEF FreshLookups, Lookups
    <2>3. Lookups'
      BY <1>4, SetPrefixKeepsLookups DEF FreshLookups
    <2> QED
      BY <2>1, <2>2, <2>3 DEF FreshLookups, KindsDisjoint, OneGroupPerChannel, Groups
  <1>5. ASSUME NEW g \in Ids, NEW S \in SUBSET Ids, SetGroupChannel(g, S)
        PROVE  FreshLookups'
    BY <1>5, SetGroupKeepsFreshLookups
  <1>6. ASSUME SetCustomMiningJobReply \/ StandardJobsOnlyViolation \/ PoisonLock
                 \/ Returned \/ UNCHANGED vars
        PROVE  FreshLookups'
    <2>1. UNCHANGED registry
      BY <1>6, FailingSteps DEF FreshLookups, Lookups
    <2>2. Lookups'
      BY LookupsInductive DEF FreshLookups
    <2> QED
      BY <2>1, <2>2 DEF FreshLookups, KindsDisjoint, OneGroupPerChannel, registry, Groups
  <1> QED
    BY <1>1, <1>2, <1>3, <1>4, <1>5, <1>6 DEF Next

\* FreshLookups always holds.
LEMMA FreshLookupsAlways == ~ReusesIds /\ Spec => []FreshLookups
  <1>1. ~ReusesIds /\ FreshLookups /\ [Next]_vars => FreshLookups'
    BY FreshLookupsInductive
  <1>2. CASE ~ReusesIds
    <2>1. FreshLookups /\ [Next]_vars => FreshLookups'
      BY <1>1, <1>2
    <2> QED
      BY <2>1, FreshLookupsInit, PTL DEF Spec
  <1> QED
    BY <1>2

\* A channel is in one group at most: it receives a group's work once.
THEOREM AtMostOneGroup == ~ReusesIds /\ Spec => []OneGroupPerChannel
  <1>1. FreshLookups => OneGroupPerChannel
    BY DEF FreshLookups
  <1> QED
    BY <1>1, FreshLookupsAlways, PTL

-----------------------------------------------------------------------------
(* What moves a channel from group to group *)

\* A step moves a channel only if it regroups it.
Moves(c) ==
  GroupsOf(c)' # GroupsOf(c) =>
    \E g \in Ids, S \in SUBSET Ids :
      /\ c \in S \/ g \in GroupsOf(c)
      /\ SetGroupChannel(g, S)

\* A channel that joins a group takes no other channel with it.
LEMMA JoiningMovesNoOther ==
  ASSUME MapsOK, NEW c \in Ids, NEW g \in Ids, NEW size \in Nat, join_group(c, g, size),
         NEW d, d # c
  PROVE  GroupsOf(d)' = GroupsOf(d)
  <1>1. /\ Groups' = Groups \cup {g}
        /\ group_channels'[g].channel_ids = MembersOf(g) \cup {c}
        /\ \A h \in Groups \ {g} : group_channels'[h] = group_channels[h]
    BY JoinGroupFacts
  <1>2. \A h \in Groups' : d \in group_channels'[h].channel_ids
                            <=> h \in Groups /\ d \in group_channels[h].channel_ids
    BY <1>1 DEF MembersOf
  <1>3. Groups \subseteq Groups'
    BY <1>1
  <1> QED
    BY <1>2, <1>3 DEF GroupsOf

\* A channel that stays open when others close keeps its groups.
LEMMA ClosingMovesNoOther ==
  ASSUME MapsOK, KindsDisjoint, NEW id \in Ids, CloseChannel(id),
         NEW d \in OpenChannels, d \in OpenChannels'
  PROVE  GroupsOf(d)' = GroupsOf(d)
  <1>1. d \notin Closed(id)
    BY CloseFacts DEF OpenChannels, KindsDisjoint
  <1>2. /\ Groups' = Remaining(group_channels, Closed(id))
        /\ \A g \in Groups' :
             group_channels'[g].channel_ids = group_channels[g].channel_ids \ Closed(id)
    BY CloseFacts
  <1>3. \A g \in Groups : d \in group_channels[g].channel_ids => g \in Groups'
    BY <1>1, <1>2 DEF Remaining, Groups
  <1>4. Groups' \subseteq Groups
    BY <1>2 DEF Remaining, Groups
  <1> QED
    BY <1>1, <1>2, <1>3, <1>4 DEF GroupsOf

\* A channel that is neither listed nor in the redefined group keeps its groups.
LEMMA RegroupingMovesNoOther ==
  ASSUME MapsOK, NEW g \in Ids, NEW S \in SUBSET Ids, SetGroupChannel(g, S),
         NEW d, d \notin S, g \notin GroupsOf(d)
  PROVE  GroupsOf(d)' = GroupsOf(d)
  <1>1. /\ \A h \in Groups' \ {g} :
             /\ h \in Groups
             /\ group_channels'[h].channel_ids = group_channels[h].channel_ids \ S
        /\ g \in Groups' => group_channels'[g].channel_ids = S
        /\ \A h \in Groups \ {g} : group_channels[h].channel_ids \ S # {} => h \in Groups'
    BY SetGroupFacts
  <1>2. \A h \in Groups : d \in group_channels[h].channel_ids => h # g /\ h \in Groups'
    BY <1>1 DEF GroupsOf
  <1> QED
    BY <1>1, <1>2 DEF GroupsOf

\* No other handler and no failure moves a channel.
LEMMA StepMovesByRegrouping ==
  ASSUME ~ReusesIds, FreshLookups, [Next]_vars, NEW d \in OpenChannels, d \in OpenChannels'
  PROVE  Moves(d)
  <1>0. MapsOK /\ KindsDisjoint
    BY DEF FreshLookups, Lookups
  <1>1. ASSUME NEW c \in Ids, NEW g \in Ids, NEW p \in PrefixSizes,
               OpenStandardSuccess(c, g, p)
        PROVE  Moves(d)
    <2>1. p \in Nat /\ join_group(c, g, p) /\ c \notin OpenChannels
      BY <1>1, RegistryAssumption DEF OpenStandardSuccess, ServerMayOpen
    <2> QED
      BY <1>0, <2>1, JoiningMovesNoOther DEF Moves
  <1>2. ASSUME NEW c \in Ids, NEW g \in Ids, NEW p \in PrefixSizes, NEW r \in RollableSizes,
               OpenExtendedSuccess(c, g, p, r)
        PROVE  Moves(d)
    <2>1. p + r \in Nat /\ join_group(c, g, p + r) /\ c \notin OpenChannels
      BY <1>2, RegistryAssumption DEF OpenExtendedSuccess, ServerMayOpen
    <2> QED
      BY <1>0, <2>1, JoiningMovesNoOther DEF Moves
  <1>3. ASSUME NEW id \in Ids, CloseChannel(id)
        PROVE  Moves(d)
    BY <1>0, <1>3, ClosingMovesNoOther DEF Moves
  <1>4. ASSUME NEW id \in Ids, NEW p \in PrefixSizes,
               SetExtranoncePrefix(id, p) \/ SetExtranoncePrefixHalfway(id, p)
        PROVE  Moves(d)
    <2>1. group_channels' = group_channels
      BY <1>0, <1>4, SetPrefixFacts
    <2> QED
      BY <2>1 DEF Moves, GroupsOf, Groups
  <1>5. ASSUME NEW g \in Ids, NEW S \in SUBSET Ids, SetGroupChannel(g, S)
        PROVE  Moves(d)
    <2>1. CASE d \in S \/ g \in GroupsOf(d)
      BY <1>5, <2>1 DEF Moves
    <2>2. CASE d \notin S /\ g \notin GroupsOf(d)
      BY <1>0, <1>5, <2>2, RegroupingMovesNoOther DEF Moves
    <2> QED
      BY <2>1, <2>2
  <1>6. ASSUME SetCustomMiningJobReply \/ StandardJobsOnlyViolation \/ PoisonLock
                 \/ Returned \/ UNCHANGED vars
        PROVE  Moves(d)
    <2>1. UNCHANGED registry
      BY <1>0, <1>6, FailingSteps
    <2> QED
      BY <2>1 DEF Moves, GroupsOf, Groups, registry
  <1> QED
    BY <1>1, <1>2, <1>3, <1>4, <1>5, <1>6 DEF Next

\* Closing or opening one channel moves no other between groups, nor does
\* anything else but a SetGroupChannel that lists it or redefines its group.
THEOREM OnlyRegroupingMoves == ~ReusesIds /\ Spec => OnlyRegroupingMovesChannels
  <1> DEFINE A == \A c \in OpenChannels \cap OpenChannels' :
                    GroupsOf(c)' # GroupsOf(c) =>
                      \E g \in Ids, S \in SUBSET Ids :
                        /\ c \in S \/ g \in GroupsOf(c)
                        /\ SetGroupChannel(g, S)
  <1>1. ASSUME ~ReusesIds, FreshLookups, [Next]_vars  PROVE A
    BY <1>1, StepMovesByRegrouping DEF Moves
  <1>2. CASE ~ReusesIds
    <2>1. FreshLookups /\ [Next]_vars => [A]_vars
      BY <1>1, <1>2
    <2>2. [][A]_vars => OnlyRegroupingMovesChannels
      BY DEF OnlyRegroupingMovesChannels
    <2> HIDE DEF A
    <2> QED
      BY <1>2, <2>1, <2>2, FreshLookupsAlways, PTL DEF Spec
  <1> QED
    BY <1>2

-----------------------------------------------------------------------------
(* Groups of one extranonce size *)

\* FreshLookups, for channels that keep the length of their prefix.
UniformGroups == FreshLookups /\ GroupSharesExtranonceSize

\* Entries that stay keep the size of their channel.
LEMMA SizeFacts ==
  ASSUME KindsDisjoint, KindsDisjoint', NEW c \in OpenChannels, c \in OpenChannels',
         c \in DOMAIN standard_channels => c \in DOMAIN standard_channels',
         c \in DOMAIN standard_channels => standard_channels'[c] = standard_channels[c],
         c \in DOMAIN extended_channels => c \in DOMAIN extended_channels',
         c \in DOMAIN extended_channels => extended_channels'[c] = extended_channels[c]
  PROVE  full_extranonce_size(c)' = full_extranonce_size(c)
  BY DEF KindsDisjoint, OpenChannels, full_extranonce_size

\* A channel joins a group of its own size only.
LEMMA OpeningKeepsUniformGroups ==
  ASSUME UniformGroups, NEW c \in Ids, NEW g \in Ids, NEW size \in Nat,
         join_group(c, g, size), c \notin OpenChannels,
         full_extranonce_size(c)' = size,
         \A d \in OpenChannels : full_extranonce_size(d)' = full_extranonce_size(d)
  PROVE  GroupSharesExtranonceSize'
  <1>1. /\ Groups' = Groups \cup {g}
        /\ group_channels'[g].channel_ids = MembersOf(g) \cup {c}
        /\ group_channels'[g].full_extranonce_size = size
        /\ \A h \in Groups \ {g} : group_channels'[h] = group_channels[h]
        /\ g \in Groups => group_channels[g].full_extranonce_size = size
    BY JoinGroupFacts DEF UniformGroups, FreshLookups, Lookups
  <1>2. \A h \in Groups : group_channels[h].channel_ids \subseteq OpenChannels
    BY DEF UniformGroups, FreshLookups, Lookups, GroupsListOpenChannels
  <1> SUFFICES ASSUME NEW h \in Groups', NEW d \in group_channels'[h].channel_ids
               PROVE  full_extranonce_size(d)' = group_channels'[h].full_extranonce_size
    BY DEF GroupSharesExtranonceSize
  <1>3. CASE h # g
    BY <1>1, <1>2, <1>3 DEF UniformGroups, GroupSharesExtranonceSize
  <1>4. CASE h = g /\ d = c
    BY <1>1, <1>4
  <1>5. CASE h = g /\ d # c
    <2>1. g \in Groups /\ d \in group_channels[g].channel_ids
      BY <1>1, <1>5 DEF MembersOf
    <2> QED
      BY <1>1, <1>2, <1>5, <2>1 DEF UniformGroups, GroupSharesExtranonceSize
  <1> QED
    BY <1>3, <1>4, <1>5

\* The empty registry has no group.
LEMMA UniformGroupsInit == Init => UniformGroups
  <1>1. DOMAIN << >> = {}
    OBVIOUS
  <1>2. Init => Groups = {}
    BY <1>1 DEF Init, Groups
  <1> QED
    BY <1>2, FreshLookupsInit DEF UniformGroups, GroupSharesExtranonceSize

\* Every handler preserves UniformGroups.
LEMMA UniformGroupsInductive ==
  ASSUME ~ReusesIds, ~PrefixResizes, UniformGroups, [Next]_vars
  PROVE  UniformGroups'
  <1>1. FreshLookups /\ Lookups /\ MapsOK /\ KindsDisjoint
    BY DEF UniformGroups, FreshLookups, Lookups
  <1>2. FreshLookups' /\ KindsDisjoint'
    BY <1>1, FreshLookupsInductive DEF FreshLookups
  <1>3. ASSUME NEW c \in Ids, NEW g \in Ids, NEW p \in PrefixSizes,
               OpenStandardSuccess(c, g, p)
        PROVE  GroupSharesExtranonceSize'
    <2>1. /\ p \in Nat
          /\ join_group(c, g, p)
          /\ c \notin OpenChannels
          /\ standard_channels' = Insert(standard_channels, c, p)
          /\ extended_channels' = extended_channels
      BY <1>3, RegistryAssumption DEF OpenStandardSuccess, ServerMayOpen
    <2>2. /\ DOMAIN standard_channels' = DOMAIN standard_channels \cup {c}
          /\ standard_channels'[c] = p
          /\ \A d \in DOMAIN standard_channels : standard_channels'[d] = standard_channels[d]
      BY <1>1, <2>1 DEF Insert, OpenChannels
    <2>3. \A d \in OpenChannels : full_extranonce_size(d)' = full_extranonce_size(d)
      BY <1>1, <1>2, <2>1, <2>2, SizeFacts DEF OpenChannels
    <2>4. full_extranonce_size(c)' = p
      BY <2>2 DEF full_extranonce_size
    <2> QED
      BY <2>1, <2>3, <2>4, OpeningKeepsUniformGroups
  <1>4. ASSUME NEW c \in Ids, NEW g \in Ids, NEW p \in PrefixSizes, NEW r \in RollableSizes,
               OpenExtendedSuccess(c, g, p, r)
        PROVE  GroupSharesExtranonceSize'
    <2>1. /\ p + r \in Nat
          /\ join_group(c, g, p + r)
          /\ c \notin OpenChannels
          /\ extended_channels'
               = Insert(extended_channels, c, new_extended(p, r))
          /\ standard_channels' = standard_channels
      BY <1>4, RegistryAssumption DEF OpenExtendedSuccess, ServerMayOpen
    <2>2. /\ DOMAIN extended_channels' = DOMAIN extended_channels \cup {c}
          /\ extended_channels'[c] = new_extended(p, r)
          /\ \A d \in DOMAIN extended_channels : extended_channels'[d] = extended_channels[d]
      BY <1>1, <2>1 DEF Insert, OpenChannels
    <2>3. \A d \in OpenChannels : full_extranonce_size(d)' = full_extranonce_size(d)
      BY <1>1, <1>2, <2>1, <2>2, SizeFacts DEF OpenChannels
    <2>4. full_extranonce_size(c)' = p + r
      BY <2>1, <2>2 DEF full_extranonce_size, OpenChannels, new_extended
    <2> QED
      BY <2>1, <2>3, <2>4, OpeningKeepsUniformGroups
  <1>5. ASSUME NEW id \in Ids, CloseChannel(id)
        PROVE  GroupSharesExtranonceSize'
    <2> SUFFICES ASSUME NEW h \in Groups', NEW d \in group_channels'[h].channel_ids
                 PROVE  full_extranonce_size(d)' = group_channels'[h].full_extranonce_size
      BY DEF GroupSharesExtranonceSize
    <2>1. /\ h \in Groups
          /\ d \in group_channels[h].channel_ids
          /\ d \notin Closed(id)
          /\ group_channels'[h].full_extranonce_size = group_channels[h].full_extranonce_size
      <3>1. h \in Groups
        BY <1>1, <1>5, CloseFacts DEF Remaining, Groups
      <3> QED
        BY <1>1, <1>5, <3>1, CloseFacts
    <2>2. d \in OpenChannels
      BY <1>1, <2>1 DEF Lookups, GroupsListOpenChannels
    <2>3. /\ d \in OpenChannels'
          /\ d \in DOMAIN standard_channels =>
               /\ d \in DOMAIN standard_channels'
               /\ standard_channels'[d] = standard_channels[d]
          /\ d \in DOMAIN extended_channels =>
               /\ d \in DOMAIN extended_channels'
               /\ extended_channels'[d] = extended_channels[d]
      BY <1>1, <1>5, <2>1, <2>2, CloseFacts DEF OpenChannels
    <2>4. full_extranonce_size(d)' = full_extranonce_size(d)
      BY <1>1, <1>2, <2>2, <2>3, SizeFacts
    <2> QED
      BY <2>1, <2>4 DEF UniformGroups, GroupSharesExtranonceSize
  <1>6. ASSUME NEW id \in Ids, NEW p \in PrefixSizes,
               SetExtranoncePrefix(id, p) \/ SetExtranoncePrefixHalfway(id, p)
        PROVE  GroupSharesExtranonceSize'
    <2>1. UNCHANGED <<standard_channels, extended_channels>>
      BY <1>1, <1>6, SetPrefixFacts
    <2>2. UNCHANGED group_channels
      BY <1>1, <1>6, SetPrefixFacts
    <2> QED
      BY <2>1, <2>2 DEF UniformGroups, GroupSharesExtranonceSize, full_extranonce_size, Groups
  <1>7. ASSUME NEW g \in Ids, NEW S \in SUBSET Ids, SetGroupChannel(g, S)
        PROVE  GroupSharesExtranonceSize'
    <2> SUFFICES ASSUME NEW h \in Groups', NEW d \in group_channels'[h].channel_ids
                 PROVE  full_extranonce_size(d)' = group_channels'[h].full_extranonce_size
      BY DEF GroupSharesExtranonceSize
    <2>1. full_extranonce_size(d)' = full_extranonce_size(d)
      BY <1>1, <1>7, SetGroupFacts DEF full_extranonce_size
    <2>2. CASE h = g
      BY <1>1, <1>7, <2>1, <2>2, SetGroupFacts
    <2>3. CASE h # g
      <3>1. /\ h \in Groups
            /\ d \in group_channels[h].channel_ids
            /\ group_channels'[h].full_extranonce_size
                 = group_channels[h].full_extranonce_size
        BY <1>1, <1>7, <2>3, SetGroupFacts
      <3> QED
        BY <2>1, <3>1 DEF UniformGroups, GroupSharesExtranonceSize
    <2> QED
      BY <2>2, <2>3
  <1>8. ASSUME SetCustomMiningJobReply \/ StandardJobsOnlyViolation \/ PoisonLock
                 \/ Returned \/ UNCHANGED vars
        PROVE  GroupSharesExtranonceSize'
    <2>1. UNCHANGED registry
      BY <1>1, <1>8, FailingSteps
    <2> QED
      BY <2>1 DEF UniformGroups, GroupSharesExtranonceSize, full_extranonce_size, Groups,
                  registry
  <1>9. GroupSharesExtranonceSize'
    BY <1>3, <1>4, <1>5, <1>6, <1>7, <1>8 DEF Next
  <1> QED
    BY <1>2, <1>9 DEF UniformGroups

\* The members of a group share one extranonce size, so a job built for the
\* group fits each of them: join_group, handle_set_group_channel and the length
\* check of the prefix setters suffice.
THEOREM GroupsStayUniform ==
  ~ReusesIds /\ ~PrefixResizes /\ Spec => []GroupSharesExtranonceSize
  <1>1. UniformGroups => GroupSharesExtranonceSize
    BY DEF UniformGroups
  <1>2. CASE ~ReusesIds /\ ~PrefixResizes
    <2>1. UniformGroups /\ [Next]_vars => UniformGroups'
      BY <1>2, UniformGroupsInductive
    <2> QED
      BY <1>1, <2>1, UniformGroupsInit, PTL DEF Spec
  <1> QED
    BY <1>2

-----------------------------------------------------------------------------
(* Connections of standard jobs only *)

\* FreshLookups, where no SetGroupChannel is accepted.
GroupedChannels == FreshLookups /\ EveryChannelHasAGroup

\* EveryChannelHasAGroup without the set GroupsOf.
LEMMA HasAGroup ==
  ASSUME EveryChannelHasAGroup, requires_standard_jobs
  PROVE  \A c \in OpenChannels : \E g \in Groups : c \in group_channels[g].channel_ids
  BY DEF EveryChannelHasAGroup, GroupsOf

\* Opening puts the channel in a group and takes none away.
LEMMA OpeningKeepsGroups ==
  ASSUME GroupedChannels, requires_standard_jobs,
         NEW c \in Ids, NEW g \in Ids, NEW size \in Nat, join_group(c, g, size),
         OpenChannels' = OpenChannels \cup {c}
  PROVE  EveryChannelHasAGroup'
  <1>1. /\ Groups' = Groups \cup {g}
        /\ group_channels'[g].channel_ids = MembersOf(g) \cup {c}
        /\ \A h \in Groups \ {g} : group_channels'[h] = group_channels[h]
    BY JoinGroupFacts DEF GroupedChannels, FreshLookups, Lookups
  <1>2. \A h \in Groups :
          h \in Groups' /\ group_channels[h].channel_ids \subseteq group_channels'[h].channel_ids
    BY <1>1 DEF MembersOf
  <1>3. \A d \in OpenChannels : \E h \in Groups : d \in group_channels[h].channel_ids
    BY HasAGroup DEF GroupedChannels
  <1>4. \A d \in OpenChannels' : \E h \in Groups' : d \in group_channels'[h].channel_ids
    BY <1>1, <1>2, <1>3
  <1> QED
    BY <1>4 DEF EveryChannelHasAGroup, GroupsOf

\* With REQUIRES_STANDARD_JOBS declared every open channel stays in the group
\* it was opened in: SetGroupChannel, the one handler that can take a channel's
\* last group, ends the connection instead.
THEOREM StandardChannelsStayGrouped ==
  ~ReusesIds /\ Spec => []EveryChannelHasAGroup
  <1>1. Init => GroupedChannels
    <2>1. Init => OpenChannels = {}
      <3>1. DOMAIN << >> = {}
        OBVIOUS
      <3> QED
        BY <3>1 DEF Init, OpenChannels
    <2> QED
      BY <2>1, FreshLookupsInit DEF GroupedChannels, EveryChannelHasAGroup
  <1>2. GroupedChannels => EveryChannelHasAGroup
    BY DEF GroupedChannels
  <1>3. ASSUME ~ReusesIds, GroupedChannels, [Next]_vars
        PROVE  GroupedChannels'
    <2>1. FreshLookups /\ Lookups /\ MapsOK /\ KindsDisjoint
      BY <1>3 DEF GroupedChannels, FreshLookups, Lookups
    <2>2. FreshLookups'
      BY <1>3, <2>1, FreshLookupsInductive
    <2>3. ASSUME ~requires_standard_jobs
          PROVE  EveryChannelHasAGroup'
      BY <1>3, <2>3, ConfigurationStays, Zenon DEF EveryChannelHasAGroup
    <2>4. ASSUME requires_standard_jobs
          PROVE  EveryChannelHasAGroup'
      <3>1. ASSUME NEW c \in Ids, NEW g \in Ids, NEW p \in PrefixSizes,
                   OpenStandardSuccess(c, g, p)
            PROVE  EveryChannelHasAGroup'
        <4>1. p \in Nat /\ join_group(c, g, p) /\ OpenChannels' = OpenChannels \cup {c}
          BY <3>1, RegistryAssumption DEF OpenStandardSuccess, Insert, OpenChannels
        <4> QED
          BY <1>3, <2>4, <4>1, OpeningKeepsGroups
      <3>2. ASSUME NEW c \in Ids, NEW g \in Ids, NEW p \in PrefixSizes, NEW r \in RollableSizes,
                   OpenExtendedSuccess(c, g, p, r)
            PROVE  EveryChannelHasAGroup'
        <4>1. p + r \in Nat /\ join_group(c, g, p + r) /\ OpenChannels' = OpenChannels \cup {c}
          BY <3>2, RegistryAssumption DEF OpenExtendedSuccess, Insert, OpenChannels
        <4> QED
          BY <1>3, <2>4, <4>1, OpeningKeepsGroups
      <3>3. ASSUME NEW id \in Ids, CloseChannel(id)
            PROVE  EveryChannelHasAGroup'
        <4> SUFFICES ASSUME NEW c \in OpenChannels'
                     PROVE  \E g \in Groups' : c \in group_channels'[g].channel_ids
          BY DEF EveryChannelHasAGroup, GroupsOf
        <4>1. c \in OpenChannels /\ c \notin Closed(id)
          BY <2>1, <3>3, CloseFacts DEF OpenChannels, KindsDisjoint
        <4>2. PICK g \in Groups : c \in group_channels[g].channel_ids
          BY <1>3, <2>4, <4>1, HasAGroup DEF GroupedChannels
        <4>3. g \in Groups'
          BY <2>1, <3>3, <4>1, <4>2, CloseFacts DEF Remaining, Groups
        <4> QED
          BY <2>1, <3>3, <4>1, <4>2, <4>3, CloseFacts
      <3>4. ASSUME NEW id \in Ids, NEW p \in PrefixSizes,
                   SetExtranoncePrefix(id, p) \/ SetExtranoncePrefixHalfway(id, p)
            PROVE  EveryChannelHasAGroup'
        <4>1. OpenChannels' = OpenChannels
          BY <2>1, <3>4, SetPrefixFacts DEF OpenChannels
        <4>2. group_channels' = group_channels
          BY <2>1, <3>4, SetPrefixFacts
        <4>3. \A c \in OpenChannels : \E g \in Groups : c \in group_channels[g].channel_ids
          BY <1>3, <2>4, HasAGroup DEF GroupedChannels
        <4> QED
          BY <4>1, <4>2, <4>3 DEF EveryChannelHasAGroup, GroupsOf, Groups
      <3>5. ASSUME NEW g \in Ids, NEW S \in SUBSET Ids, SetGroupChannel(g, S)
            PROVE  EveryChannelHasAGroup'
        BY <2>4, <3>5 DEF SetGroupChannel
      <3>6. ASSUME SetCustomMiningJobReply \/ StandardJobsOnlyViolation \/ PoisonLock
                     \/ Returned \/ UNCHANGED vars
            PROVE  EveryChannelHasAGroup'
        <4>1. UNCHANGED registry
          BY <2>1, <3>6, FailingSteps
        <4>2. \A c \in OpenChannels : \E g \in Groups : c \in group_channels[g].channel_ids
          BY <1>3, <2>4, HasAGroup DEF GroupedChannels
        <4> QED
          BY <4>1, <4>2 DEF EveryChannelHasAGroup, GroupsOf, Groups, OpenChannels, registry
      <3> QED
        BY <1>3, <3>1, <3>2, <3>3, <3>4, <3>5, <3>6 DEF Next
    <2>5. EveryChannelHasAGroup'
      BY <2>3, <2>4
    <2> QED
      BY <2>2, <2>5 DEF GroupedChannels
  <1>4. CASE ~ReusesIds
    <2>1. GroupedChannels /\ [Next]_vars => GroupedChannels'
      BY <1>3, <1>4
    <2> QED
      BY <1>1, <1>2, <2>1, PTL DEF Spec
  <1> QED
    BY <1>4

===============================================================================
