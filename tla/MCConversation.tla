---------------------------- MODULE MCConversation ----------------------------
(***************************************************************************)
(* Two hooks, a word of the user with a directive and a constraint of the  *)
(* host; retrievals that find nothing, memory, canon or both, whose text   *)
(* has directives and constraints of its own.                              *)
(***************************************************************************)
EXTENDS Conversation, TLC

CONSTANTS h1, h2

Part(kind, directive, constraint) ==
  [kind |-> kind, directive |-> directive, constraint |-> constraint, block |-> FALSE]
MCSaid == { Part("words", TRUE, FALSE), Part("reminder", FALSE, TRUE) }
MCRetrieved ==
  { <<>>, <<Part("memory", TRUE, TRUE)>>, <<Part("canon", FALSE, FALSE)>>,
    <<Part("memory", FALSE, FALSE), Part("canon", FALSE, TRUE)>> }
=============================================================================
