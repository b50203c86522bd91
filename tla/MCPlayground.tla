---------------------------- MODULE MCPlayground ----------------------------
(* The instance of Playground for TLC: Playground_chat.cfg. *)
EXTENDS Playground
=============================================================================
