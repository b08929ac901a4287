----------------------------- MODULE MCIOThread -----------------------------
(***************************************************************************)
(* An instance of IOThread for TLC. `main` is the simulation thread, which  *)
(* posts, starts and stops; `a` is a further thread, which only posts       *)
(* (IOThread.hpp documents post() as callable from any thread).             *)
(***************************************************************************)
EXTENDS IOThread

CONSTANTS main, a

MCThreads == {main, a}
=============================================================================
