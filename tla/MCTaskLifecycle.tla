--------------------------- MODULE MCTaskLifecycle ---------------------------
(* A builder in the shared workspace, one in a worktree of its own, and a   *)
(* reviewer, which only reads.                                              *)
EXTENDS TaskLifecycle

CONSTANTS builder, isolated, reviewer
=============================================================================
