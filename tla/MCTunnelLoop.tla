---------------------------- MODULE MCTunnelLoop ----------------------------
(* What the node may answer, for the run of TunnelLoop by itself. *)
EXTENDS TunnelLoop

Resp(size, eof) == [size |-> size, eof |-> eof, hasSeq |-> TRUE]

\* Replies that decode: every size, eof together with data, and a node that does not
\* echo seq.
EofNode ==
    {Resp("none", FALSE), Resp("large", FALSE), Resp("large", TRUE),
     [Resp("small", FALSE) EXCEPT !.hasSeq = FALSE]}
=============================================================================
