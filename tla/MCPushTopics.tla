---------------------------- MODULE MCPushTopics ----------------------------
(***************************************************************************)
(* Instances of PushTopics for TLC.                                        *)
(***************************************************************************)
EXTENDS PushTopics, TLC

TopicSymmetry ==
    Permutations(Ids) \union Permutations(Names) \union Permutations(Calls)

=============================================================================
