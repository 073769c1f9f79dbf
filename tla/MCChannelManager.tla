--------------------------- MODULE MCChannelManager ---------------------------
(* Instances of ChannelManager for TLC, and the membership it implements. *)
EXTENDS ChannelManager, TLC

Sizes == PrefixSizes \cup {p + r : p \in PrefixSizes, r \in RollableSizes}

\* The ids are interchangeable.
IdSymmetry == Permutations(Ids)

\* The group a channel is in, where it is in one.
Grouped == {c \in OpenChannels : GroupsOf(c) # {}}

Membership == INSTANCE GroupMembership WITH
  size_of <- [c \in OpenChannels |-> full_extranonce_size(c)],
  group_of <- [c \in Grouped |-> CHOOSE g \in GroupsOf(c) : TRUE]

\* With a server that opens every channel under a fresh id, and a library that
\* keeps prefix lengths, the three maps behave as one membership function.
ImplementsMembership == Membership!Spec

=============================================================================
