------------------------------ MODULE Record ------------------------------
(***************************************************************************)
(* The record protection of one direction (src/src/record.c, record.h).    *)
(*                                                                         *)
(* A direction is the key it runs, named by the number of KeyUpdates since *)
(* the handshake installed the first one, and the sequence number of the   *)
(* next record.  The nonce of a record is the static IV of the key xor the *)
(* sequence number, so a record is named by its <<gen, seq>> pair.  The    *)
(* AEAD is ideal: a record opens under a direction exactly when it was     *)
(* sealed by the peer under the same key and sequence number.  The traffic *)
(* secret moves with the key in every caller, so gen stands for both.      *)
(***************************************************************************)
EXTENDS Naturals

CONSTANTS
    AesGcm,      \* TRUE when the suite is AES-GCM, FALSE for ChaCha20-Poly1305
    RecordsMax,  \* REC_AES_GCM_RECORDS_MAX, 2^24: the records an AES-GCM key seals
    SeqMax       \* UINT64_MAX: the sequence number no record may take

ASSUME RecordAssumption ==
    /\ AesGcm \in BOOLEAN
    /\ RecordsMax \in Nat /\ SeqMax \in Nat
    /\ 2 <= RecordsMax /\ RecordsMax <= SeqMax

Dir == [live : BOOLEAN, gen : Nat, seq : Nat]

\* What ct_wipe leaves of a rec_dir.
Wiped == [live |-> FALSE, gen |-> 0, seq |-> 0]

rec_dir_init == [live |-> TRUE, gen |-> 0, seq |-> 0]

\* Mutant: a KeyUpdate that moves the key and keeps counting.
rec_dir_update_NoReset(d) == [d EXCEPT !.gen = d.gen + 1]
\* Mutant: a KeyUpdate that restarts the count under the old key.
rec_dir_update_SameKey(d) == [d EXCEPT !.seq = 0]

rec_dir_update(d) == [d EXCEPT !.gen = d.gen + 1, !.seq = 0]

\* The refusals of rec_seal: the wrap of the counter and, under AES-GCM, the
\* usage limit of the key.  (Its length refusals are out of reach: every caller
\* bounds the plaintext by its buffer.)
rec_seal_ok(d) ==
    /\ d.seq # SeqMax
    /\ AesGcm => d.seq < RecordsMax

rec_seal(d) == [d EXCEPT !.seq = d.seq + 1]

\* Mutant: a reader that takes any record sealed under its key.
rec_open_ok_AnySeq(d, r) == d.live /\ d.seq # SeqMax /\ r.gen = d.gen
\* Mutant: a reader that takes any record at its sequence number.
rec_open_ok_AnyKey(d, r) == d.live /\ d.seq # SeqMax /\ r.seq = d.seq

\* A record r sealed as <<r.gen, r.seq>> opens under d.
rec_open_ok(d, r) ==
    /\ d.live
    /\ d.seq # SeqMax
    /\ r.gen = d.gen /\ r.seq = d.seq

rec_open(d) == [d EXCEPT !.seq = d.seq + 1]
=============================================================================
