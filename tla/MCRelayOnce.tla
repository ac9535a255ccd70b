---------------------------- MODULE MCRelayOnce ----------------------------
(* A POST that exit_node_matches sends through the exit node first, and one that
   goes straight to the relay. *)
EXTENDS RelayCoalesce

Posts == [r \in Reqs |-> "POST"]
OneUrl == [r \in Reqs |-> "u"]
=============================================================================
