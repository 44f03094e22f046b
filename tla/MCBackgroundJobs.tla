-------------------------- MODULE MCBackgroundJobs --------------------------
(* Two calls of Kill race with the end of one command. *)
EXTENDS BackgroundJobs

=============================================================================
