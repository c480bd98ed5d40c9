-------------------------- MODULE MCDesktopLifecycle --------------------------
(***************************************************************************)
(* The safety runs: the properties of DesktopLifecycle, and the inductive  *)
(* invariants the proofs establish them from.                              *)
(***************************************************************************)
EXTENDS LifecycleInvariant
=============================================================================
