----------------------------- MODULE MCCollect ------------------------------
(* Small instances of Collect for TLC. *)
EXTENDS Collect

\* A program that retires and does nothing else: it neither forces an
\* iteration nor switches the automatic mode off.
OnlyRetiring == ~g_force_iteration /\ auto_run
=============================================================================
