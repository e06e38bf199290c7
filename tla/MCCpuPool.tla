----------------------------- MODULE MCCpuPool -----------------------------
(* The instance of CpuPool for TLC. *)
EXTENDS CpuPool

\* What a cfg cannot write: a list with a second level, a negative number, one
\* that is out of range, and no number.
AnyText == {<<1>>, <<2, 1>>, <<-1>>, <<9>>, <<None>>}
=============================================================================
