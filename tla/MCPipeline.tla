----------------------------- MODULE MCPipeline -----------------------------
(* Pipeline for TLC: a channel and a kernel buffer of two frames each, small
   enough that both are often full and large enough to hold both tagged
   frames at once. *)
EXTENDS Pipeline
=============================================================================
