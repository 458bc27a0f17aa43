------------------------------- MODULE MCOrder -------------------------------
(* The instances of MCDispatcher, with the order of the calls. *)
EXTENDS MCDispatcher, DispatcherOrder
=============================================================================
