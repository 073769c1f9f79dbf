--------------------------- MODULE GroupMembership ---------------------------
(***************************************************************************)
(* What the channel registry promises a server that gives each channel an  *)
(* id of its own: a set of open channels, each with its full extranonce    *)
(* size and at most one group, and groups whose members agree on that      *)
(* size.  There are no group records to keep in step: a group exists while *)
(* some channel is in it, and its size is its members' size.               *)
(***************************************************************************)
EXTENDS Naturals, Functions

CONSTANTS Ids, Sizes

VARIABLES
  size_of,   \* open channel |-> its full extranonce size
  group_of   \* channel |-> the group it is in; absent when it is in none

vars == <<size_of, group_of>>

Open == DOMAIN size_of
Groups == Range(group_of)
Members(g) == {c \in DOMAIN group_of : group_of[c] = g}

Init == size_of = << >> /\ group_of = << >>

\* A new channel enters its group, under ids nothing else uses.
Join(c, g, s) ==
  /\ c \notin Open \cup Groups
  /\ g \notin Open \cup {c}
  /\ \A m \in Members(g) : size_of[m] = s
  /\ size_of' = [x \in Open \cup {c} |-> IF x = c THEN s ELSE size_of[x]]
  /\ group_of' = [x \in DOMAIN group_of \cup {c} |-> IF x = c THEN g ELSE group_of[x]]

\* One channel, or all the members of one group, are gone.
Leave(S) ==
  /\ S \subseteq Open
  /\ S \in {Members(g) : g \in Groups} \cup {{c} : c \in Open}
  /\ size_of' = Restrict(size_of, Open \ S)
  /\ group_of' = Restrict(group_of, DOMAIN group_of \ S)

\* Group g becomes exactly S.
Regroup(g, S) ==
  /\ g \notin Open
  /\ S \subseteq Open
  /\ \A c, d \in S : size_of[c] = size_of[d]
  /\ group_of' = [c \in (DOMAIN group_of \ Members(g)) \cup S |->
                    IF c \in S THEN g ELSE group_of[c]]
  /\ UNCHANGED size_of

Next ==
  \/ \E c, g \in Ids, s \in Sizes : Join(c, g, s)
  \/ \E S \in SUBSET Ids : Leave(S)
  \/ \E g \in Ids, S \in SUBSET Ids : Regroup(g, S)

Spec == Init /\ [][Next]_vars

=============================================================================
