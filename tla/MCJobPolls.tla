----------------------------- MODULE MCJobPolls -----------------------------
(* The instance of JobPolls for TLC, with the jobs and agents of MCJobDelivery. *)
EXTENDS JobPolls, MCJobDelivery
=============================================================================
