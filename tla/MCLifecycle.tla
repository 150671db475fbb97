---------------------------- MODULE MCLifecycle ----------------------------
(***************************************************************************)
(* Small instances of Lifecycle: a few starts and reconnections.           *)
(***************************************************************************)
EXTENDS Lifecycle

=============================================================================
