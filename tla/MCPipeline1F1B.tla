-------------------------- MODULE MCPipeline1F1B ----------------------------
(* TLC instance of Pipeline1F1B.  Four stages make middle stages, with a   *)
(* neighbour on either side; one micro-batch more than there are stages    *)
(* leaves steady pairs on every stage; two rounds let a stage begin one    *)
(* while its neighbour drains the other; channels buffer nothing or one.   *)
EXTENDS Pipeline1F1B
=============================================================================
