---------------------------- MODULE MCEpochStore ----------------------------
(***************************************************************************)
(* A device with a few sessions and a few epochs for TLC.                  *)
(***************************************************************************)
EXTENDS EpochStore, TLC

AnySession == Permutations(Sessions)

=============================================================================
