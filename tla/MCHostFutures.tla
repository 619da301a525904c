---------------------------- MODULE MCHostFutures ----------------------------
(* Three calls, three batches deep, a driver that is made again once, and a  *)
(* stream of two items.                                                      *)
EXTENDS HostStreams
=============================================================================
