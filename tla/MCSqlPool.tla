----------------------------- MODULE MCSqlPool -----------------------------
(***************************************************************************)
(* SqlPool for TLC: up to two goroutines and two connections.               *)
(***************************************************************************)
EXTENDS SqlPool, TLC

CONSTANTS u1, u2, s1, s2

\* Between them the goroutines make every call; Stmt's Exec includes Exec.
MCKinds == (u1 :> {"query", "raw"}) @@ (u2 :> {"stmt", "ping", "begin"})
ExecOnly == (u1 :> {"exec"})
=============================================================================
