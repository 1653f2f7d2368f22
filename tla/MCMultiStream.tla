---------------------------- MODULE MCMultiStream ----------------------------
(***************************************************************************)
(* Instances of MultiStream: two streams, and buffers whose memory belongs  *)
(* to the first.                                                            *)
(***************************************************************************)
EXTENDS MultiStream

MCTwoStreams == {0, 1}
MCBuffers == {1, 2}
MCHome == [b \in MCBuffers |-> 0]
MCNone == {}
MCDedicated == {2}
=============================================================================
