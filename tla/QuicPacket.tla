----------------------------- MODULE QuicPacket -----------------------------
(***************************************************************************)
(* QUIC packet protection (quic_packet.c, quic_keys.c): recovering a       *)
(* packet number from the low bytes a header carries, choosing the receive *)
(* key set of a 1-RTT packet, and the two AEAD limits of RFC 9001.         *)
(*                                                                         *)
(* A key set is the traffic secret and the version it was derived under,   *)
(* with the packets sealed under it.  The AEAD is ideal: a packet opens    *)
(* under the key set, the number and the header protection key it was      *)
(* sealed under and no other, and the all-zero set of a wipe opens none.   *)
(***************************************************************************)
EXTENDS Handshake

CONSTANTS
    PnBase,                \* the values of a packet number byte: 256
    PnLimit,               \* QUIC_PN_LIMIT: packet numbers are below it
    ConfidentialityLimit,  \* QUIC_CONFIDENTIALITY_LIMIT
    IntegrityLimit         \* QUIC_INTEGRITY_LIMIT

ASSUME PacketAssumption ==
    /\ PnBase \in Nat \ {0, 1} /\ PnBase % 2 = 0
    /\ PnLimit \in Nat /\ ConfidentialityLimit \in Nat \ {0} /\ IntegrityLimit \in Nat

-----------------------------------------------------------------------------
(* Packet numbers *)

\* pn_win: how many numbers len bytes tell apart
PnWin(len) == PnBase ^ len

\* the field a header carries, and quic_pn_read takes out of it again
Truncated(pn, win) == pn % win

\* the number with these low digits that is closest to the one after the largest
quic_pn_decode(largest, truncated, win) ==
    LET expected  == largest + 1
        hwin      == win \div 2
        candidate == expected - (expected % win) + truncated
    IN  IF candidate + hwin <= expected /\ candidate < PnLimit - win THEN candidate + win
        ELSE IF candidate > expected + hwin /\ candidate >= win THEN candidate - win
        ELSE candidate

\* the numbers a receiver that processed `largest` recovers from such a header
InWindow(pn, largest, win) ==
    largest + 1 < pn + win \div 2 /\ pn <= largest + 1 + win \div 2

-----------------------------------------------------------------------------
(* Key sets *)

NoKeys   == [secret |-> NoSecret, version |-> 0, sealed |-> 0]
KeySets  == {"PREVIOUS", "CURRENT", "NEXT"}

quic_keys_init(secret, version) == [secret |-> secret, version |-> version, sealed |-> 0]

\* the "quic ku" step: the advanced secret, from which the set is derived anew
Advanced(secret) == [secret EXCEPT !.ku = @ + 1]
quic_keys_update(secret, version) == quic_keys_init(Advanced(secret), version)

\* Mutant: the key phase bit alone chooses the set
quic_key_set_select_Bit(key_phase, phase, pn, lowest) ==
    IF phase = key_phase THEN "CURRENT" ELSE "NEXT"

\* lowest is the lowest number processed in the current phase
quic_key_set_select(key_phase, phase, pn, lowest) ==
    IF phase = key_phase THEN "CURRENT" ELSE IF pn < lowest THEN "PREVIOUS" ELSE "NEXT"

-----------------------------------------------------------------------------
(* Limits *)

quic_integrity_limit_exceeded(open_failures) == open_failures > IntegrityLimit

\* Mutant: the limit is met one packet late
quic_confidentiality_limit_reached_Late(sealed) == sealed >= ConfidentialityLimit

quic_confidentiality_limit_reached(sealed) == sealed >= ConfidentialityLimit - 1

=============================================================================
