--------------------------- MODULE MCActionWorker ---------------------------
(* ActionWorker for TLC: one poller, one stream, and the bounds of the cfg. *)
EXTENDS ActionWorker

CONSTANTS p1, s1

MCPollers == {p1}
MCStreams == {s1}
=============================================================================
