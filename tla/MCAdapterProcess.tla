-------------------------- MODULE MCAdapterProcess --------------------------
(* Instances of AdapterProcess for TLC. *)
EXTENDS AdapterProcess
=============================================================================
