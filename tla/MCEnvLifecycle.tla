---------------------------- MODULE MCEnvLifecycle ---------------------------
(***************************************************************************)
(* Instance of EnvLifecycle for TLC.  Requests and experiments are         *)
(* interchangeable (for the safety run only: not with liveness).           *)
(***************************************************************************)
EXTENDS EnvLifecycle, TLC

MCSymmetry == Permutations(Requests) \cup Permutations(Experiments)
=============================================================================
