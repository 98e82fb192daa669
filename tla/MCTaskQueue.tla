----------------------------- MODULE MCTaskQueue -----------------------------
(***************************************************************************)
(* Instance of TaskQueue for TLC: the types of tasks 2, 3, ... have no     *)
(* registered handler.                                                     *)
(***************************************************************************)
EXTENDS TaskQueue

MCHasHandler == Tasks \cap {1}
=============================================================================
