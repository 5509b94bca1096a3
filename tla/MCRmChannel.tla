---------------------------- MODULE MCRmChannel ----------------------------
(* Instances of RmChannel for TLC: one channel, a TCH/F or an SDCCH/4.       *)
EXTENDS RmChannel
=============================================================================
