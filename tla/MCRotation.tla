----------------------------- MODULE MCRotation -----------------------------
(* Rotation with queues of two entries: a first rotation, the second one that *)
(* the once_flags of the stops do not survive, and every way to shut down.    *)
EXTENDS Rotation
=============================================================================
