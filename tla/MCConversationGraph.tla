------------------------ MODULE MCConversationGraph -------------------------
(* Instances of ConversationGraph for TLC.                                 *)
EXTENDS ConversationGraph, TLC

MCIds == 1 .. MaxTurns
MCSymmetry == Permutations(Texts) \cup Permutations(Conversations)
=============================================================================
