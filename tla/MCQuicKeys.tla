----------------------------- MODULE MCQuicKeys -----------------------------
(***************************************************************************)
(* The 1-RTT exchange for TLC.  A packet number byte has two values, so a  *)
(* number of one or two bytes wraps within a few packets, and packet       *)
(* numbers end at 16.                                                      *)
(***************************************************************************)
EXTENDS QuicKeys

=============================================================================
