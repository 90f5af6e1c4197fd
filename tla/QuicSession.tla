---------------------------- MODULE QuicSession ----------------------------
(***************************************************************************)
(* A QUIC session and what every call on it shares, whichever role it      *)
(* plays: keys installed and wiped level by level, the failure funnel, the *)
(* packet calls, key updates and the closes (quic_session.h, quic_fail.c,  *)
(* and the part of quic.c below the client's driver).                      *)
(*                                                                         *)
(* Levels are 0 (Initial), 1 (Handshake) and 2 (Application).  q.ready is  *)
(* levels_ready, a set of <<level, direction>>.  q.tx is the staged        *)
(* message, empty for none.  The Initial level holds a connection ID and   *)
(* no key; q.initial_dcid says that there is one.                          *)
(***************************************************************************)
EXTENDS TcpFrame, QuicPacket

Levels   == 0..2
Versions == {1, 2}   \* quic_version_derived

\* a zeroed ch_quic; made and room are the server's sink, as in SrvFlight
Blank(cfg) ==
    [t |-> NoTls(cfg), hs |-> NoHs, step |-> "none", rx_level |-> 0, tx_level |-> 0,
     tx |-> << >>, alert |-> "none", error_code |-> 0, key_phase |-> 0, ready |-> {},
     initial_dcid |-> FALSE, initial_sealed |-> 0, open_failures |-> 0,
     handshake_rx |-> NoKeys, handshake_tx |-> NoKeys,
     handshake_hp_rx |-> NoSecret, handshake_hp_tx |-> NoSecret,
     app_tx |-> NoKeys, app_rx |-> [s \in KeySets |-> NoKeys],
     app_hp_rx |-> NoSecret, app_hp_tx |-> NoSecret, made |-> << >>, room |-> 0]

Ready(q, level, dir) == <<level, dir>> \in q.ready
Announce(q, level, dirs) == [q EXCEPT !.ready = @ \cup ({level} \X dirs)]

\* quic_refuse_init keeps the three epoch fields and nothing else
quic_refuse_init(q) ==
    [Blank(q.t.cfg) EXCEPT !.t.state = "FAILED", !.t.epoch = q.t.epoch,
                           !.t.epoch_seen = q.t.epoch_seen,
                           !.t.epoch_status = q.t.epoch_status]

-----------------------------------------------------------------------------
(* Keys *)

\* rd and wr are the peer's and this endpoint's handshake secret
install_handshake_keys(q, rd, wr) ==
    LET v == q.t.quic_negotiated_version IN
    Announce([q EXCEPT !.handshake_rx = quic_keys_init(rd, v), !.handshake_hp_rx = rd,
                       !.handshake_tx = quic_keys_init(wr, v), !.handshake_hp_tx = wr],
             1, {"READ", "WRITE"})

\* The next receive set is derived at once, and t.rd_secret names that one.  A
\* client announces both directions here, a server only the one it writes.
install_application_keys(q, dirs) ==
    LET v  == q.t.quic_negotiated_version
        rd == q.t.rd_secret
        wr == q.t.wr_secret
    IN  Announce([q EXCEPT !.app_tx = quic_keys_init(wr, v), !.app_hp_tx = wr,
                           !.app_rx["CURRENT"] = quic_keys_init(rd, v), !.app_hp_rx = rd,
                           !.app_rx["NEXT"] = quic_keys_update(rd, v),
                           !.t.rd_secret = Advanced(rd)], 2, dirs)

quic_initial_keys(q) ==
    Announce([q EXCEPT !.initial_dcid = TRUE], 0, {"READ", "WRITE"})

\* Mutant: the next set is derived from the secret of the current one
quic_key_update_Behind(q) ==
    LET v == q.t.quic_negotiated_version IN
    [q EXCEPT !.app_tx = quic_keys_update(q.t.wr_secret, v), !.t.wr_secret = Advanced(@),
              !.key_phase = 1 - @,
              !.app_rx = [PREVIOUS |-> q.app_rx["CURRENT"], CURRENT |-> q.app_rx["NEXT"],
                          NEXT |-> quic_keys_init(q.t.rd_secret, v)]]

quic_key_update(q) ==
    LET v == q.t.quic_negotiated_version IN
    [q EXCEPT !.app_tx = quic_keys_update(q.t.wr_secret, v), !.t.wr_secret = Advanced(@),
              !.key_phase = 1 - @,
              !.app_rx = [PREVIOUS |-> q.app_rx["CURRENT"], CURRENT |-> q.app_rx["NEXT"],
                          NEXT |-> quic_keys_update(q.t.rd_secret, v)],
              !.t.rd_secret = Advanced(@)]

quic_drop_previous_keys(q) == [q EXCEPT !.app_rx["PREVIOUS"] = NoKeys]

-----------------------------------------------------------------------------
(* Wipes and failures *)

quic_wipe_write_keys(q, level) ==
    [q EXCEPT !.initial_dcid = @ /\ level # 0,
              !.handshake_tx = IF level = 1 THEN NoKeys ELSE @,
              !.handshake_hp_tx = IF level = 1 THEN NoSecret ELSE @,
              !.app_tx = IF level = 2 THEN NoKeys ELSE @,
              !.app_hp_tx = IF level = 2 THEN NoSecret ELSE @,
              !.ready = @ \ {<<level, "WRITE">>}]

wipe_read_keys(q, level) ==
    [q EXCEPT !.handshake_rx = IF level = 1 THEN NoKeys ELSE @,
              !.handshake_hp_rx = IF level = 1 THEN NoSecret ELSE @,
              !.app_rx = IF level = 2 THEN [s \in KeySets |-> NoKeys] ELSE @,
              !.app_hp_rx = IF level = 2 THEN NoSecret ELSE @,
              !.ready = @ \ {<<level, "READ">>}]

wipe_all_but_write_keys(q) ==
    [wipe_read_keys(wipe_read_keys(wipe_read_keys(q, 0), 1), 2) EXCEPT
        !.hs = NoHs, !.t.rd_secret = NoSecret, !.t.wr_secret = NoSecret,
        !.t.res_master = NoSecret, !.tx = << >>, !.t.buf = << >>]

wipe_write_keys_unless_ready(q, level) ==
    IF Ready(q, level, "WRITE") THEN q ELSE quic_wipe_write_keys(q, level)

quic_wipe(q) ==
    quic_wipe_write_keys(quic_wipe_write_keys(quic_wipe_write_keys(
        wipe_all_but_write_keys(q), 0), 1), 2)

\* Mutant: the alert is read after the wipe
quic_fail_Late(q) ==
    LET kept == wipe_write_keys_unless_ready(wipe_write_keys_unless_ready(
                    wipe_write_keys_unless_ready(wipe_all_but_write_keys(q), 0), 1), 2)
    IN  [kept EXCEPT !.alert = kept.hs.alert, !.t.alert_sent = kept.hs.alert,
                     !.t.state = "FAILED"]

\* the write keys of a level whose bit is set stay, for one CONNECTION_CLOSE
quic_fail(q) ==
    LET kept == wipe_write_keys_unless_ready(wipe_write_keys_unless_ready(
                    wipe_write_keys_unless_ready(wipe_all_but_write_keys(q), 0), 1), 2)
    IN  [kept EXCEPT !.alert = q.hs.alert, !.t.alert_sent = q.hs.alert,
                     !.t.state = "FAILED"]

Unexpected(q) == [q EXCEPT !.hs.alert = "unexpected_message"]
Violation(q)  == [q EXCEPT !.error_code = 10]   \* QUIC_PROTOCOL_VIOLATION, 0x0a

quic_fail_level(q) == quic_fail(Unexpected(Violation(q)))

\* bytes left behind at a level, unless they open a KeyUpdate
quic_refuse_unread(q) ==
    IF q.t.buf # << >> /\ Head(q.t.buf).msg.type = "key_update" THEN Unexpected(q)
    ELSE Unexpected(Violation(q))

quic_discard(q, level) == wipe_read_keys(quic_wipe_write_keys(q, level), level)
quic_close(q) == [quic_wipe(q) EXCEPT !.t.state = "CLOSED"]

-----------------------------------------------------------------------------
(* Packets *)

version_ok(q, level, version) ==
    \/ version = q.t.quic_negotiated_version
    \/ level = 0 /\ version = q.t.cfg.quic_original_version

\* how much of a level's confidentiality limit is used up; ChaCha20 has none
SealedAt(q, level) ==
    CASE level = 0 -> q.initial_sealed
      [] level = 1 -> q.handshake_tx.sealed
      [] level = 2 -> q.app_tx.sealed
LimitReached(q, level) ==
    /\ level = 0 \/ suite_runs_aes_gcm(q.t.suite)
    /\ quic_confidentiality_limit_reached(SealedAt(q, level))

\* what seal_at_level admits; a refusal changes nothing
CanSeal(q, level, version) ==
    version_ok(q, level, version) /\ Ready(q, level, "WRITE") /\ ~LimitReached(q, level)

seal_at_level(q, level) ==
    LET one == IF suite_runs_aes_gcm(q.t.suite) THEN 1 ELSE 0 IN
    [q EXCEPT !.initial_sealed = IF level = 0 THEN @ + 1 ELSE @,
              !.handshake_tx.sealed = IF level = 1 THEN @ + one ELSE @,
              !.app_tx.sealed = IF level = 2 THEN @ + one ELSE @]

CanSealNow(q, level, version) == ~session_dead(q) /\ CanSeal(q, level, version)

CanSealClose(q, level, version) == q.t.state = "FAILED" /\ CanSeal(q, level, version)
quic_seal_close(q, level) == quic_wipe_write_keys(seal_at_level(q, level), level)

\* what ch_quic_open admits before it looks at the packet
CanOpen(q, level, version) ==
    /\ ~session_dead(q) /\ version_ok(q, level, version) /\ Ready(q, level, "READ")
    /\ level = 2 => q.t.state = "CONNECTED"

\* the tag did not match
open_failed(q) ==
    LET counted == [q EXCEPT !.open_failures = @ + 1] IN
    IF quic_integrity_limit_exceeded(counted.open_failures)
    THEN quic_fail([counted EXCEPT !.hs.alert = "bad_record_mac"])
    ELSE counted

=============================================================================
