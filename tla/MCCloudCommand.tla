--------------------------- MODULE MCCloudCommand ---------------------------
(* CloudCommand with two calls that share a token and both retry delays. *)
EXTENDS CloudCommand
=============================================================================
