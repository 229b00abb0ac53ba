---------------------------- MODULE MCRingQueue ----------------------------
(* Model values for RingQueue: cells of four, so that the cursors wrap.    *)
EXTENDS RingQueue
=============================================================================
