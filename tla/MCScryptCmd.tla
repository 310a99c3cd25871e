----------------------------- MODULE MCScryptCmd -----------------------------
(* ScryptCmd with two existing files, one to be created and 2 output blocks. *)
EXTENDS ScryptCmd
=============================================================================
