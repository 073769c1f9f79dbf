--------------------------- MODULE MembershipProofs ---------------------------
(***************************************************************************)
(* The registry implements GroupMembership, for any ids and prefix         *)
(* lengths, with a server that opens every channel under a fresh id and a  *)
(* channel library that keeps prefix lengths: each handler's step is one   *)
(* of the membership's, or leaves the membership as it is.                 *)
(***************************************************************************)
EXTENDS MCChannelManager, ChannelManagerProofs

\* The values of the refinement mapping.
size_of == [c \in OpenChannels |-> full_extranonce_size(c)]
group_of == [c \in Grouped |-> CHOOSE g \in GroupsOf(c) : TRUE]

\* The three maps seen as one membership: a channel has one group, so the
\* choice of the mapping is none.
OneMembership ==
  /\ \A c \in Grouped : /\ c \in OpenChannels
                        /\ group_of[c] \in Groups
                        /\ c \in group_channels[group_of[c]].channel_ids
  /\ \A c, g : g \in Groups /\ c \in group_channels[g].channel_ids
                 => c \in Grouped /\ group_of[c] = g
  /\ Membership!Open = OpenChannels
  /\ Membership!Groups = Groups
  /\ \A g \in Groups : Membership!Members(g) = group_channels[g].channel_ids
  /\ \A g : g \notin Groups => Membership!Members(g) = {}
  /\ OpenChannels \subseteq Ids

LEMMA MembershipFacts == FreshLookups => OneMembership
  <1> SUFFICES ASSUME FreshLookups  PROVE OneMembership
    OBVIOUS
  <1>1. \A c \in Grouped : c \in OpenChannels /\ group_of[c] \in GroupsOf(c)
    BY DEF Grouped, group_of
  <1>2. \A c \in Grouped : /\ group_of[c] \in Groups
                           /\ c \in group_channels[group_of[c]].channel_ids
    BY <1>1 DEF GroupsOf
  <1>3. ASSUME NEW c, NEW g \in Groups, c \in group_channels[g].channel_ids
        PROVE  c \in Grouped /\ group_of[c] = g
    <2>1. c \in OpenChannels /\ g \in GroupsOf(c)
      BY <1>3 DEF FreshLookups, Lookups, GroupsListOpenChannels, GroupsOf
    <2>2. c \in Grouped
      BY <2>1 DEF Grouped
    <2> QED
      BY <1>2, <1>3, <2>2 DEF FreshLookups, OneGroupPerChannel
  <1>4. Membership!Open = OpenChannels
    BY DEF Membership!Open
  <1>5. \A g : Membership!Members(g) = {c \in Grouped : group_of[c] = g}
    BY DEF Membership!Members, group_of
  <1>6. \A g \in Groups : Membership!Members(g) = group_channels[g].channel_ids
    BY <1>2, <1>3, <1>5
  <1>7. \A g : g \notin Groups => Membership!Members(g) = {}
    BY <1>2, <1>5
  <1>8. Membership!Groups = {group_of[c] : c \in Grouped}
    BY DEF Membership!Groups, Membership!Range, group_of
  <1>9. Groups \subseteq {group_of[c] : c \in Grouped}
    <2> SUFFICES ASSUME NEW g \in Groups  PROVE \E c \in Grouped : group_of[c] = g
      OBVIOUS
    <2>1. PICK c : c \in group_channels[g].channel_ids
      BY DEF FreshLookups, Lookups, GroupsListOpenChannels
    <2> QED
      BY <1>3, <2>1
  <1>10. OpenChannels \subseteq Ids
    BY EntryFacts DEF FreshLookups, Lookups
  <1> QED
    BY <1>1, <1>2, <1>3, <1>4, <1>6, <1>7, <1>8, <1>9, <1>10 DEF OneMembership

\* The empty registry is the empty membership.
LEMMA InitImplements == Init => Membership!Init
  <1> SUFFICES ASSUME Init  PROVE Membership!Init
    OBVIOUS
  <1>1. DOMAIN << >> = {}
    OBVIOUS
  <1>2. OpenChannels = {} /\ Grouped = {}
    BY <1>1 DEF Init, OpenChannels, Grouped
  <1> QED
    BY <1>2 DEF Membership!Init

-----------------------------------------------------------------------------
(* The membership after a step *)

\* A step's effect on size_of and group_of, told by its effect on the maps.
LEMMA AfterStep ==
  ASSUME FreshLookups', NEW size, NEW group,
         OpenChannels' = DOMAIN size, size = [c \in DOMAIN size |-> size[c]],
         group = [c \in DOMAIN group |-> group[c]],
         \A c \in DOMAIN size : full_extranonce_size(c)' = size[c],
         \A c \in DOMAIN group : /\ group[c] \in Groups'
                                 /\ c \in group_channels'[group[c]].channel_ids,
         \A g \in Groups' : group_channels'[g].channel_ids \subseteq DOMAIN group
  PROVE  size_of' = size /\ group_of' = group
  <1>1. OneMembership'
    BY MembershipFacts, PTL
  <1>2. Grouped' = DOMAIN group
    BY <1>1 DEF OneMembership
  <1>3. \A c \in DOMAIN group : group_of'[c] = group[c]
    BY <1>1 DEF OneMembership
  <1>4. group_of' = group
    BY <1>2, <1>3 DEF group_of
  <1>5. size_of' = size
    BY DEF size_of
  <1> QED
    BY <1>4, <1>5

\* A channel opened is a channel that joins.
LEMMA OpeningJoins ==
  ASSUME UniformGroups, FreshLookups', NEW c \in Ids, NEW g \in Ids, NEW size \in Nat,
         join_group(c, g, size), c \notin OpenChannels,
         OpenChannels' = OpenChannels \cup {c}, full_extranonce_size(c)' = size,
         \A d \in OpenChannels : full_extranonce_size(d)' = full_extranonce_size(d)
  PROVE  Membership!Join(c, g, size)
  <1> DEFINE sizes == [x \in OpenChannels \cup {c} |-> IF x = c THEN size ELSE size_of[x]]
             groups == [x \in Grouped \cup {c} |-> IF x = c THEN g ELSE group_of[x]]
  <1>1. OneMembership
    BY MembershipFacts DEF UniformGroups
  <1>2. /\ Groups' = Groups \cup {g}
        /\ group_channels'[g].channel_ids = MembersOf(g) \cup {c}
        /\ \A h \in Groups \ {g} : group_channels'[h] = group_channels[h]
        /\ g \notin OpenChannels /\ c # g /\ c \notin Groups
        /\ g \in Groups => group_channels[g].full_extranonce_size = size
    BY JoinGroupFacts DEF UniformGroups, FreshLookups, Lookups
  <1>3. \A m \in Membership!Members(g) : size_of[m] = size
    <2>1. \A m \in Membership!Members(g) : g \in Groups /\ m \in group_channels[g].channel_ids
      BY <1>1 DEF OneMembership
    <2>2. \A m \in Membership!Members(g) : m \in OpenChannels /\ full_extranonce_size(m) = size
      BY <1>2, <2>1 DEF UniformGroups, GroupSharesExtranonceSize, FreshLookups, Lookups,
                        GroupsListOpenChannels
    <2> QED
      BY <2>2 DEF size_of
  <1>4. \A x \in OpenChannels' : full_extranonce_size(x)' = sizes[x]
    BY DEF size_of
  <1>5. \A x \in Grouped \cup {c} : /\ groups[x] \in Groups'
                                    /\ x \in group_channels'[groups[x]].channel_ids
    BY <1>1, <1>2 DEF OneMembership, MembersOf
  <1>6. \A h \in Groups' : group_channels'[h].channel_ids \subseteq Grouped \cup {c}
    <2> SUFFICES ASSUME NEW h \in Groups', NEW x \in group_channels'[h].channel_ids, x # c
                 PROVE  x \in Grouped
      OBVIOUS
    <2>1. h \in Groups /\ x \in group_channels[h].channel_ids
      BY <1>2 DEF MembersOf
    <2> QED
      BY <1>1, <2>1 DEF OneMembership
  <1>7. /\ DOMAIN sizes = OpenChannels \cup {c}
        /\ DOMAIN groups = Grouped \cup {c}
        /\ sizes = [x \in DOMAIN sizes |-> sizes[x]]
        /\ groups = [x \in DOMAIN groups |-> groups[x]]
    OBVIOUS
  <1>8. size_of' = sizes /\ group_of' = groups
    <2> HIDE DEF sizes, groups
    <2> QED
      BY <1>4, <1>5, <1>6, <1>7, AfterStep
  <1>9. /\ c \notin OpenChannels \cup Membership!Groups
        /\ g \notin OpenChannels \cup {c}
    BY <1>1, <1>2 DEF OneMembership
  <1>10. DOMAIN group_of = Grouped
    BY DEF group_of
  <1> QED
    BY <1>1, <1>3, <1>8, <1>9, <1>10 DEF Membership!Join, OneMembership, size_of, group_of

\* Channels closed are channels that leave, one or a whole group; an id that
\* names none leaves the membership as it is.
LEMMA ClosingLeaves ==
  ASSUME FreshLookups, FreshLookups', NEW id \in Ids, CloseChannel(id)
  PROVE  IF Closed(id) = {} THEN UNCHANGED <<size_of, group_of>>
                            ELSE Membership!Leave(Closed(id))
  <1> DEFINE sizes == [x \in OpenChannels \ Closed(id) |-> size_of[x]]
             groups == [x \in Grouped \ Closed(id) |-> group_of[x]]
  <1>1. OneMembership
    BY MembershipFacts
  <1>2. MapsOK /\ GroupsListOpenChannels /\ KindsDisjoint /\ KindsDisjoint'
    BY DEF FreshLookups, Lookups
  <1>3. /\ DOMAIN standard_channels' = DOMAIN standard_channels \ Closed(id)
        /\ \A c \in DOMAIN standard_channels' : standard_channels'[c] = standard_channels[c]
        /\ DOMAIN extended_channels' = DOMAIN extended_channels \ Closed(id)
        /\ \A c \in DOMAIN extended_channels' : extended_channels'[c] = extended_channels[c]
    <2>1. DOMAIN extended_channels'
            = DOMAIN extended_channels \ (Closed(id) \ DOMAIN standard_channels)
      BY <1>2, CloseFacts
    <2>2. DOMAIN extended_channels' = DOMAIN extended_channels \ Closed(id)
      BY <1>2, <2>1 DEF KindsDisjoint
    <2> QED
      BY <1>2, <2>2, CloseFacts
  <1>4. /\ Groups' = Remaining(group_channels, Closed(id))
        /\ \A g \in Groups' :
             group_channels'[g].channel_ids = group_channels[g].channel_ids \ Closed(id)
    BY <1>2, CloseFacts
  <1>5. OpenChannels' = OpenChannels \ Closed(id)
    BY <1>3 DEF OpenChannels
  <1>6. \A x \in OpenChannels' : full_extranonce_size(x)' = sizes[x]
    <2> SUFFICES ASSUME NEW x \in OpenChannels'
                 PROVE  full_extranonce_size(x)' = full_extranonce_size(x)
      BY <1>5 DEF size_of
    <2> QED
      BY <1>2, <1>3, <1>5, SizeFacts DEF OpenChannels
  <1>7. \A x \in Grouped \ Closed(id) : /\ groups[x] \in Groups'
                                        /\ x \in group_channels'[groups[x]].channel_ids
    BY <1>1, <1>4 DEF OneMembership, Remaining, Groups
  <1>8. \A h \in Groups' : group_channels'[h].channel_ids \subseteq Grouped \ Closed(id)
    BY <1>1, <1>4 DEF OneMembership, Remaining, Groups
  <1>9. /\ DOMAIN sizes = OpenChannels \ Closed(id)
        /\ DOMAIN groups = Grouped \ Closed(id)
        /\ sizes = [x \in DOMAIN sizes |-> sizes[x]]
        /\ groups = [x \in DOMAIN groups |-> groups[x]]
    OBVIOUS
  <1>10. size_of' = sizes /\ group_of' = groups
    <2> HIDE DEF sizes, groups
    <2> QED
      BY <1>5, <1>6, <1>7, <1>8, <1>9, AfterStep
  <1>11. CASE Closed(id) = {}
    <2>1. sizes = size_of /\ groups = group_of
      BY <1>11 DEF size_of, group_of
    <2> QED
      BY <1>10, <1>11, <2>1
  <1>12. CASE Closed(id) # {}
    <2>1. Closed(id) \in {Membership!Members(g) : g \in Membership!Groups}
                           \cup {{c} : c \in OpenChannels}
      <3>1. CASE id \in Groups
        <4>1. Closed(id) = Membership!Members(id)
          BY <1>1, <1>2, <3>1
          DEF Closed, addressed_channels, OneMembership, GroupsListOpenChannels
        <4> QED
          BY <1>1, <3>1, <4>1 DEF OneMembership
      <3>2. CASE id \notin Groups
        BY <1>12, <3>2 DEF Closed, addressed_channels
      <3> QED
        BY <3>1, <3>2
    <2>2. Closed(id) \subseteq OpenChannels
      BY DEF Closed
    <2>3. DOMAIN group_of = Grouped
      BY DEF group_of
    <2>4. /\ size_of' = Membership!Restrict(size_of, OpenChannels \ Closed(id))
          /\ group_of' = Membership!Restrict(group_of, DOMAIN group_of \ Closed(id))
      BY <1>10, <2>3 DEF Membership!Restrict
    <2>5. Membership!Leave(Closed(id))
      BY <1>1, <2>1, <2>2, <2>4 DEF Membership!Leave, OneMembership, size_of, group_of
    <2> QED
      BY <1>12, <2>5
  <1> QED
    BY <1>11, <1>12

\* A redefined group becomes exactly the channels listed.
LEMMA SetGroupRegroups ==
  ASSUME UniformGroups, FreshLookups', NEW g \in Ids, NEW S \in SUBSET Ids,
         SetGroupChannel(g, S)
  PROVE  Membership!Regroup(g, S)
  <1> DEFINE kept == (Grouped \ Membership!Members(g)) \cup S
             groups == [x \in kept |-> IF x \in S THEN g ELSE group_of[x]]
  <1>1. OneMembership
    BY MembershipFacts DEF UniformGroups
  <1>2. MapsOK /\ GroupsListOpenChannels
    BY DEF UniformGroups, FreshLookups, Lookups
  <1>3. /\ g \notin OpenChannels /\ S \subseteq OpenChannels
        /\ UNCHANGED <<standard_channels, extended_channels>>
        /\ \A c, d \in S : full_extranonce_size(c) = full_extranonce_size(d)
    BY DEF SetGroupChannel
  <1>4. /\ \A h \in Groups' \ {g} :
             /\ h \in Groups
             /\ group_channels'[h].channel_ids = group_channels[h].channel_ids \ S
        /\ g \in Groups' => group_channels'[g].channel_ids = S
        /\ \A h \in Groups \ {g} : group_channels[h].channel_ids \ S # {} => h \in Groups'
        /\ S # {} => g \in Groups'
    BY <1>2, SetGroupFacts
  <1>5. OpenChannels' = OpenChannels
    BY <1>3 DEF OpenChannels
  <1>6. \A x \in OpenChannels' : full_extranonce_size(x)' = size_of[x]
    BY <1>3, <1>5 DEF full_extranonce_size, size_of
  <1>7. \A x \in kept : groups[x] \in Groups' /\ x \in group_channels'[groups[x]].channel_ids
    <2> SUFFICES ASSUME NEW x \in kept
                 PROVE  groups[x] \in Groups' /\ x \in group_channels'[groups[x]].channel_ids
      OBVIOUS
    <2>1. CASE x \in S
      BY <1>4, <2>1
    <2>2. CASE x \notin S
      <3>1. /\ x \in Grouped /\ x \notin Membership!Members(g)
            /\ group_of[x] \in Groups /\ x \in group_channels[group_of[x]].channel_ids
        BY <1>1, <2>2 DEF OneMembership
      <3>2. group_of[x] # g
        BY <1>1, <3>1 DEF OneMembership
      <3> QED
        BY <1>4, <2>2, <3>1, <3>2
    <2> QED
      BY <2>1, <2>2
  <1>8. \A h \in Groups' : group_channels'[h].channel_ids \subseteq kept
    <2> SUFFICES ASSUME NEW h \in Groups', NEW x \in group_channels'[h].channel_ids,
                        x \notin S
                 PROVE  x \in Grouped \ Membership!Members(g)
      OBVIOUS
    <2>1. h # g /\ h \in Groups /\ x \in group_channels[h].channel_ids
      BY <1>4
    <2>2. x \in Grouped /\ group_of[x] = h
      BY <1>1, <2>1 DEF OneMembership
    <2>3. x \notin Membership!Members(g)
      <3> SUFFICES ASSUME x \in Membership!Members(g)  PROVE FALSE
        OBVIOUS
      <3>1. g \in Groups /\ x \in group_channels[g].channel_ids
        BY <1>1 DEF OneMembership
      <3> QED
        BY <1>1, <2>1, <2>2, <3>1 DEF OneMembership
    <2> QED
      BY <2>2, <2>3
  <1>9. /\ DOMAIN size_of = OpenChannels
        /\ DOMAIN groups = kept
        /\ size_of = [x \in DOMAIN size_of |-> size_of[x]]
        /\ groups = [x \in DOMAIN groups |-> groups[x]]
    BY DEF size_of
  <1>10. size_of' = size_of /\ group_of' = groups
    <2> HIDE DEF kept, groups
    <2> QED
      BY <1>5, <1>6, <1>7, <1>8, <1>9, AfterStep
  <1>11. /\ DOMAIN group_of = Grouped
         /\ \A c, d \in S : size_of[c] = size_of[d]
    BY <1>3 DEF group_of, size_of
  <1> QED
    BY <1>1, <1>3, <1>10, <1>11 DEF Membership!Regroup, OneMembership, size_of, group_of

\* Where the maps stay, the membership does.
LEMMA RegistryStays ==
  ASSUME UNCHANGED registry
  PROVE  UNCHANGED <<size_of, group_of>>
  BY DEF registry, size_of, group_of, OpenChannels, Grouped, GroupsOf, Groups,
         full_extranonce_size

\* Every handler's step is one of the membership's, or leaves it as it is.
LEMMA StepImplements ==
  ASSUME ~ReusesIds, ~PrefixResizes, UniformGroups, [Next]_vars
  PROVE  [Membership!Next]_(Membership!vars)
  <1>1. FreshLookups /\ MapsOK /\ KindsDisjoint
    BY DEF UniformGroups, FreshLookups, Lookups
  <1>2. FreshLookups' /\ KindsDisjoint'
    BY <1>1, FreshLookupsInductive DEF FreshLookups
  <1>3. ASSUME UNCHANGED <<size_of, group_of>>  PROVE UNCHANGED Membership!vars
    BY <1>3, Zenon DEF Membership!vars, size_of, group_of
  <1>4. ASSUME NEW c \in Ids, NEW g \in Ids, NEW p \in PrefixSizes,
               OpenStandardSuccess(c, g, p)
        PROVE  Membership!Next
    <2>1. /\ p \in Nat
          /\ join_group(c, g, p)
          /\ c \notin OpenChannels
          /\ standard_channels' = Insert(standard_channels, c, p)
          /\ extended_channels' = extended_channels
      BY <1>4, RegistryAssumption DEF OpenStandardSuccess, ServerMayOpen
    <2>2. /\ DOMAIN standard_channels' = DOMAIN standard_channels \cup {c}
          /\ standard_channels'[c] = p
          /\ \A d \in DOMAIN standard_channels : standard_channels'[d] = standard_channels[d]
      BY <1>1, <2>1 DEF Insert, OpenChannels
    <2>3. \A d \in OpenChannels : full_extranonce_size(d)' = full_extranonce_size(d)
      BY <1>1, <1>2, <2>1, <2>2, SizeFacts DEF OpenChannels
    <2>4. full_extranonce_size(c)' = p /\ OpenChannels' = OpenChannels \cup {c}
      BY <2>1, <2>2 DEF full_extranonce_size, OpenChannels
    <2>5. Membership!Join(c, g, p)
      BY <1>2, <2>1, <2>3, <2>4, OpeningJoins
    <2>6. p \in Sizes
      BY DEF Sizes
    <2> QED
      BY <2>5, <2>6, Zenon DEF Membership!Next
  <1>5. ASSUME NEW c \in Ids, NEW g \in Ids, NEW p \in PrefixSizes, NEW r \in RollableSizes,
               OpenExtendedSuccess(c, g, p, r)
        PROVE  Membership!Next
    <2>1. /\ p + r \in Nat
          /\ join_group(c, g, p + r)
          /\ c \notin OpenChannels
          /\ extended_channels' = Insert(extended_channels, c, new_extended(p, r))
          /\ standard_channels' = standard_channels
      BY <1>5, RegistryAssumption DEF OpenExtendedSuccess, ServerMayOpen
    <2>2. /\ DOMAIN extended_channels' = DOMAIN extended_channels \cup {c}
          /\ extended_channels'[c] = new_extended(p, r)
          /\ \A d \in DOMAIN extended_channels : extended_channels'[d] = extended_channels[d]
      BY <1>1, <2>1 DEF Insert, OpenChannels
    <2>3. \A d \in OpenChannels : full_extranonce_size(d)' = full_extranonce_size(d)
      BY <1>1, <1>2, <2>1, <2>2, SizeFacts DEF OpenChannels
    <2>4. full_extranonce_size(c)' = p + r /\ OpenChannels' = OpenChannels \cup {c}
      BY <2>1, <2>2 DEF full_extranonce_size, OpenChannels, new_extended
    <2>5. Membership!Join(c, g, p + r)
      BY <1>2, <2>1, <2>3, <2>4, OpeningJoins
    <2>6. p + r \in Sizes
      BY DEF Sizes
    <2> QED
      BY <2>5, <2>6, Zenon DEF Membership!Next
  <1>6. ASSUME NEW id \in Ids, CloseChannel(id)
        PROVE  [Membership!Next]_(Membership!vars)
    <2>1. CASE Closed(id) = {}
      BY <1>1, <1>2, <1>3, <1>6, <2>1, ClosingLeaves
    <2>2. CASE Closed(id) # {}
      <3>1. Membership!Leave(Closed(id))
        BY <1>1, <1>2, <1>6, <2>2, ClosingLeaves
      <3>2. Closed(id) \in SUBSET Ids
        BY <1>1, EntryFacts DEF Closed
      <3> QED
        BY <3>1, <3>2, Zenon DEF Membership!Next
    <2> QED
      BY <2>1, <2>2
  <1>7. ASSUME NEW id \in Ids, NEW p \in PrefixSizes,
               SetExtranoncePrefix(id, p) \/ SetExtranoncePrefixHalfway(id, p)
        PROVE  UNCHANGED Membership!vars
    <2>1. UNCHANGED registry
      BY <1>1, <1>7, SetPrefixFacts DEF registry
    <2> QED
      BY <1>3, <2>1, RegistryStays
  <1>8. ASSUME NEW g \in Ids, NEW S \in SUBSET Ids, SetGroupChannel(g, S)
        PROVE  Membership!Next
    <2>1. Membership!Regroup(g, S)
      BY <1>2, <1>8, SetGroupRegroups
    <2> QED
      BY <2>1, Zenon DEF Membership!Next
  <1>9. ASSUME SetCustomMiningJobReply \/ StandardJobsOnlyViolation \/ PoisonLock
                 \/ Returned \/ UNCHANGED vars
        PROVE  UNCHANGED Membership!vars
    <2>1. UNCHANGED registry
      BY <1>1, <1>9, FailingSteps
    <2> QED
      BY <1>3, <2>1, RegistryStays
  <1> QED
    BY <1>4, <1>5, <1>6, <1>7, <1>8, <1>9 DEF Next

\* The registry keeps the promise of GroupMembership: a channel joins its group
\* when it is opened, leaves when it is closed, is regrouped by a
\* SetGroupChannel, and nothing else moves it or changes its size.
THEOREM RegistryImplementsMembership ==
  ~ReusesIds /\ ~PrefixResizes /\ Spec => ImplementsMembership
  <1>1. CASE ~ReusesIds /\ ~PrefixResizes
    <2>1. UniformGroups /\ [Next]_vars => [Membership!Next]_(Membership!vars)
      BY <1>1, StepImplements
    <2>2. UniformGroups /\ [Next]_vars => UniformGroups'
      BY <1>1, UniformGroupsInductive
    <2> QED
      BY <2>1, <2>2, InitImplements, UniformGroupsInit, PTL
      DEF Spec, ImplementsMembership, Membership!Spec
  <1> QED
    BY <1>1

===============================================================================
