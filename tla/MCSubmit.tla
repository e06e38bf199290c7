------------------------------ MODULE MCSubmit ------------------------------
(* The instance of Submit, and through it of ArrowThreadPool, for TLC. *)
EXTENDS Submit
=============================================================================
