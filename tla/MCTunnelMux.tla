----------------------------- MODULE MCTunnelMux -----------------------------
(* TLC entry point for the mux. *)
EXTENDS TunnelMux
=============================================================================
