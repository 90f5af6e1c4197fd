---------------------------- MODULE QuicEndpoint ----------------------------
(***************************************************************************)
(* One QUIC endpoint, a client (quic.c, quic_step.c) or a server           *)
(* (srv_quic.c), with every call its application may make: the handshake   *)
(* driven by CRYPTO bytes at each encryption level, the message it stages, *)
(* the version it settles on, and the packet, key, discard and close calls *)
(* in any order between them.                                              *)
(*                                                                         *)
(* ch_quic_crypto_in runs every whole message it was given before it       *)
(* returns.  `driving` is TRUE during such a call, and `rest` is the part  *)
(* of the delivery the buffer had no room for yet.  The cells in the       *)
(* buffer remember the level they were delivered at, which the code does   *)
(* not: it has rx_level for all of them.                                   *)
(*                                                                         *)
(* The peer is any holder of the keys of this handshake, and delivers each *)
(* level's bytes once and in order, as quic_cfg.h asks.  PeerMessages says *)
(* which messages those are.                                               *)
(***************************************************************************)
EXTENDS QuicSession, Flight, SrvFlight

CONSTANTS
    Configs,          \* the configurations a caller may pass, each with its role
    Rooms,            \* bound: the messages a server's sink may take before it refuses one
    MaxUpdates,       \* bound: the key updates
    DeliveryCells,    \* bound: the most cells in one delivery
    \* what the peer may say, by the session and the transcript it will be read
    \* after; and what it may put behind that in one delivery
    PeerMessages(_, _), PeerFollows(_, _)

\* a server here speaks QUIC, and its chain is so many cells long
ASSUME EndpointAssumption ==
    /\ Rooms \subseteq Nat /\ DeliveryCells \in Nat \ {0}
    /\ \A cfg \in Configs : /\ cfg.stored \in Nat
                            /\ cfg.role = "server" => cfg.quic /\ cfg.chain \in Nat

VARIABLES
    q,        \* the session, ch_quic
    driving,  \* TRUE inside ch_quic_crypto_in
    rest,     \* the cells of its delivery that are not in the buffer yet
    cut,      \* what is left of the message the peer's last delivery broke off
    store,    \* the epoch in a client's storage
    closes    \* the CONNECTION_CLOSE packets sealed at each level

vars == <<q, driving, rest, cut, store, closes>>

IsServer == q.t.cfg.role = "server"

-----------------------------------------------------------------------------
(* ch_quic_init and ch_srv_quic_init *)

quic_init(cfg, stored) ==
    LET checked == EpochInit(Blank(cfg), stored) IN
    IF ~cfg.valid THEN quic_refuse_init(Blank(cfg))
    ELSE IF ~checked.ok THEN quic_refuse_init(checked.h)
    ELSE LET begun == hsf_begin([checked.h EXCEPT
                 !.hs.alert = "decode_error",
                 !.t.quic_negotiated_version = cfg.quic_original_version])
         IN  [hsf_build_client_hello(begun) EXCEPT
                 !.tx = << ClientHello(begun) >>, !.step = "AWAIT_SERVER_HELLO"]

srv_quic_init(cfg) ==
    IF ~cfg.valid THEN quic_refuse_init(Blank(cfg))
    ELSE srv_begin([Blank(cfg) EXCEPT
             !.hs.alert = "decode_error", !.step = "AWAIT_CLIENT_HELLO",
             !.t.quic_negotiated_version = cfg.quic_original_version])

Init ==
    /\ \E cfg \in Configs :
          /\ store = cfg.stored
          /\ q = IF cfg.role = "server" THEN srv_quic_init(cfg) ELSE quic_init(cfg, cfg.stored)
    /\ driving = FALSE /\ rest = << >> /\ cut = << >> /\ closes = [l \in Levels |-> 0]

-----------------------------------------------------------------------------
(* ch_quic_crypto_in *)

\* hsr_feed takes what fits
Fits(h, cells) == Fewer(Len(cells), BufLen - Len(h.t.buf))
Feed(h, cells) ==
    /\ q' = [h EXCEPT !.t.buf = @ \o SubSeq(cells, 1, Fits(h, cells))]
    /\ rest' = SubSeq(cells, Fits(h, cells) + 1, Len(cells))
    /\ driving' = TRUE

fail(h) == q' = quic_fail(h) /\ rest' = << >> /\ driving' = FALSE

\* Mutant: the client takes input while it owes the peer a message
InAllowed_Staged(h) == ~session_dead(h)

\* a server stages nothing
InAllowed(h) == ~session_dead(h) /\ h.tx = << >>

\* A level whose keys are still to come is no error, unless the level below it was
\* left in the middle of a message; a level that was left is.
crypto_in(level, cells) ==
    /\ ~driving /\ InAllowed(q)
    /\ IF level = q.rx_level
       THEN Feed(q, [i \in 1..Len(cells) |->
                        [msg |-> cells[i].msg, at |-> cells[i].at, level |-> level]])
       ELSE /\ level < q.rx_level \/ q.t.buf # << >>
            /\ q' = quic_fail_level(q) /\ UNCHANGED <<driving, rest>>
    /\ UNCHANGED <<store, closes>>

drive_done ==
    /\ driving /\ ~Whole(q) /\ ~Oversize(q)
    /\ driving' = FALSE
    /\ UNCHANGED <<q, rest, cut, store, closes>>

drive_oversize ==
    /\ driving /\ Oversize(q)
    /\ fail([q EXCEPT !.hs.alert = OversizeAlert(q)])
    /\ UNCHANGED <<cut, store, closes>>

\* Mutant: the buffer alone is asked for bytes left over
Left_Buffer(h, more) == h.t.buf # << >>

\* the delivery holds more than the step consumed
Left(h, more) == h.t.buf # << >> \/ more # << >>

\* the end of one turn of the drive loop
Advance(result) ==
    LET h     == [result.h EXCEPT !.room = 0]
        moved == h.rx_level # q.rx_level \/ h.tx # << >>
    IN  /\ IF ~result.ok THEN fail(h)
           ELSE IF moved /\ Left(h, rest) THEN fail(quic_refuse_unread(h))
           ELSE Feed(h, rest)
        /\ UNCHANGED <<cut, closes>>

At(role, steps) == driving /\ Whole(q) /\ q.t.cfg.role = role /\ q.step \in steps

Goto(result, step) == IF result.ok THEN Ok([result.h EXCEPT !.step = step]) ELSE result

-----------------------------------------------------------------------------
(* The client's steps *)

\* the second HelloRetryRequest is refused
Retried(h) ==
    IF h.step = "AWAIT_RETRY_HELLO" THEN No(h, "unexpected_message")
    ELSE Ok([hsf_build_client_hello(h) EXCEPT
                !.tx = << ClientHello(h) >>, !.tx_level = 0, !.step = "AWAIT_RETRY_HELLO"])

Accepted(h, m) ==
    Then(hsf_accept_server_hello(h, m), LAMBDA h1 :
    Then(hsf_derive_handshake_secrets(h1, m), LAMBDA h2 :
    Ok([install_handshake_keys(h2, h2.hs.s_hs, h2.hs.c_hs) EXCEPT
           !.rx_level = 1, !.step = "AWAIT_ENCRYPTED_EXTENSIONS"])))

step_server_hello ==
    /\ At("client", {"AWAIT_SERVER_HELLO", "AWAIT_RETRY_HELLO"})
    /\ Advance(Then(hsf_read_server_hello(Taken(q), NextMsg(q)), LAMBDA h :
                    IF NextMsg(q).hrr THEN Retried(h) ELSE Accepted(h, NextMsg(q))))
    /\ UNCHANGED store

step_encrypted_extensions ==
    /\ At("client", {"AWAIT_ENCRYPTED_EXTENSIONS"})
    /\ Advance(Goto(hsf_read_encrypted_extensions(Taken(q), NextMsg(q)),
                    IF q.t.psk_selected THEN "AWAIT_FINISHED" ELSE "AWAIT_CERTIFICATE"))
    /\ UNCHANGED store

step_certificate ==
    /\ At("client", {"AWAIT_CERTIFICATE"})
    /\ Advance(Goto(hsa_server_auth(Taken(q), NextMsg(q)), "AWAIT_CERTIFICATE_VERIFY"))
    /\ UNCHANGED store

step_certificate_verify ==
    /\ At("client", {"AWAIT_CERTIFICATE_VERIFY"})
    /\ Advance(Goto(hsa_read_certificate_verify(Taken(q), NextMsg(q)), "AWAIT_FINISHED"))
    /\ UNCHANGED store

\* the Finished is staged at the Handshake level; the state is not raised yet
Finished(h) ==
    [install_application_keys(hsf_complete(h), {"READ", "WRITE"}) EXCEPT
        !.tx = << ClientFinished(h) >>, !.tx_level = 1, !.rx_level = 2,
        !.hs = NoHs, !.step = "COMPLETE"]

\* failed is what the caller's epoch_store answers, when it is asked
step_finished(failed) ==
    /\ At("client", {"AWAIT_FINISHED"})
    /\ LET read == hsf_read_finished(Taken(q), NextMsg(q)) IN
       /\ Advance(Then(read, LAMBDA h : Ok(Finished(hsa_epoch_commit(h, failed)))))
       /\ store' = IF read.ok /\ EpochRaised(read.h) /\ ~failed
                   THEN read.h.hs.leaf.epoch ELSE store

\* hspost_take_ticket up to the caller's on_ticket.  m.fault is "none", "syntax",
\* or "early_data" for an early_data extension that is not the one QUIC allows.
take_ticket(h, m) ==
    CASE m.fault = "none"   -> Ok(h)
      [] m.fault = "syntax" -> No(h, "decode_error")
      [] OTHER              -> No(Violation(h), "illegal_parameter")

step_complete ==
    /\ At("client", {"COMPLETE"})
    /\ LET m == NextMsg(q) IN
       Advance(CASE m.type = "new_session_ticket"  -> take_ticket(Taken(q), m)
                 [] m.type = "certificate_request" ->
                        No(Violation(Taken(q)), "unexpected_message")
                 [] OTHER -> No(Taken(q), "unexpected_message"))
    /\ UNCHANGED store

-----------------------------------------------------------------------------
(* The client's own calls *)

\* the whole message, or nothing; the Finished on its way makes the session connected
crypto_out(level) ==
    /\ ~driving /\ ~session_dead(q) /\ q.tx # << >> /\ level = q.tx_level
    /\ q' = [q EXCEPT
                !.made = Append(@, Made(CryptoFrames(level, Cells(q.tx[1])), TRUE)), !.tx = << >>,
                !.t.state = IF q.step = "COMPLETE" /\ @ = "START" THEN "CONNECTED" ELSE @]
    /\ UNCHANGED <<driving, rest, cut, store, closes>>

\* Mutant: a client may switch as long as it has not connected
switch_open_Late(h) ==
    /\ h.t.cfg.role = "client" /\ h.t.state = "START"
    /\ h.t.quic_negotiated_version = h.t.cfg.quic_original_version

\* before the first byte of the server
switch_open(h) ==
    /\ h.t.cfg.role = "client" /\ h.t.state = "START" /\ h.step = "AWAIT_SERVER_HELLO"
    /\ h.t.buf = << >> /\ h.t.quic_negotiated_version = h.t.cfg.quic_original_version

switch_version(version) ==
    /\ ~driving /\ switch_open(q) /\ version # q.t.quic_negotiated_version
    /\ q' = [q EXCEPT !.t.quic_negotiated_version = version]
    /\ UNCHANGED <<driving, rest, cut, store, closes>>

-----------------------------------------------------------------------------
(* The server's steps; room and signs are how its sink and its signer answer *)

\* all the server owes once a hello is accepted: the ServerHello at the Initial
\* level, the rest at the Handshake level
server_flight(h, m, sel, signs) ==
    Then(srv_send_server_hello([h EXCEPT !.hs.level = 0], m, sel), LAMBDA h1 :
    Then(srv_derive_handshake_secrets(srv_store_selection(h1, m, sel), m, sel), LAMBDA h2 :
    LET keyed == [install_handshake_keys(h2, h2.hs.c_hs, h2.hs.s_hs) EXCEPT !.hs.level = 1] IN
    Then(srv_send_encrypted_extensions(keyed), LAMBDA h3 :
    Then(IF sel.psk_selected THEN Ok(h3)
         ELSE Then(srv_send_certificate(h3), LAMBDA h4 : srv_send_certificate_verify(h4, signs)),
         LAMBDA h5 : Then(srv_send_finished(h5), LAMBDA h6 :
         Ok([install_application_keys(h6, {"WRITE"}) EXCEPT
                !.rx_level = 1, !.step = "AWAIT_CLIENT_FINISHED"]))))))

take_transport_params(h, m) ==
    IF "transport_params" \in m.has THEN Ok(h) ELSE No(h, "missing_extension")

\* version is the caller's answer, 0 where it gave no choose_version
choose_version(h, version) ==
    IF version = 0 THEN Ok(h)
    ELSE IF version \in Versions THEN Ok([h EXCEPT !.t.quic_negotiated_version = version])
    ELSE No(h, "internal_error")

step_client_hello(room, signs, version) ==
    /\ At("server", {"AWAIT_CLIENT_HELLO"})
    /\ LET m     == NextMsg(q)
           read  == Then(srv_read_client_hello([Taken(q) EXCEPT !.room = room], m), LAMBDA h :
                    Then(take_transport_params(h, m), LAMBDA g : choose_version(g, version)))
           chose == srv_select(read.h, m)
       IN  Advance(
             IF ~read.ok THEN read
             ELSE IF ~chose.ok THEN chose
             ELSE IF ~chose.sel.need_retry THEN server_flight(chose.h, m, chose.sel, signs)
             ELSE Goto(srv_send_hello_retry_request([chose.h EXCEPT !.hs.level = 0], m, chose.sel),
                       "AWAIT_RETRY_HELLO"))
    /\ UNCHANGED store

step_retry_hello(room, signs) ==
    /\ At("server", {"AWAIT_RETRY_HELLO"})
    /\ LET m     == NextMsg(q)
           read  == srv_read_client_hello([Taken(q) EXCEPT !.room = room], m)
           chose == srv_check_retry_hello(read.h, m)
       IN  Advance(IF ~read.ok THEN read
                   ELSE IF ~chose.ok THEN chose
                   ELSE server_flight(chose.h, m, chose.sel, signs))
    /\ UNCHANGED store

\* the read direction is usable from here on; the handshake state lives until the
\* ticket is out
Completed(h) ==
    Then(srv_send_new_session_ticket([Announce(srv_complete(h), 2, {"READ"}) EXCEPT
             !.rx_level = 2, !.step = "COMPLETE", !.hs.level = 2]),
         LAMBDA g : Ok([g EXCEPT !.hs = NoHs]))

step_client_finished(room) ==
    /\ At("server", {"AWAIT_CLIENT_FINISHED"})
    /\ Advance(Then(srv_read_client_finished([Taken(q) EXCEPT !.room = room], NextMsg(q)),
                    LAMBDA h : IF h.t.buf = << >> THEN Completed(h)
                               ELSE [ok |-> FALSE, h |-> quic_refuse_unread(h)]))
    /\ UNCHANGED store

\* a server handles no message after the handshake
advance_complete ==
    /\ At("server", {"COMPLETE"})
    /\ Advance(No(q, "unexpected_message"))
    /\ UNCHANGED store

-----------------------------------------------------------------------------
(* The calls either role makes between two deliveries *)

App(h) == ~driving /\ q' = h /\ UNCHANGED <<driving, rest, cut, store>>

initial_keys == ~session_dead(q) /\ App(quic_initial_keys(q)) /\ UNCHANGED closes

quic_seal(level, version) ==
    CanSealNow(q, level, version) /\ App(seal_at_level(q, level)) /\ UNCHANGED closes

seal_close(level, version) ==
    /\ CanSealClose(q, level, version) /\ App(quic_seal_close(q, level))
    /\ closes' = [closes EXCEPT ![level] = @ + 1]

\* a packet that does not open; one that does changes nothing in the session
quic_open(level, version) ==
    CanOpen(q, level, version) /\ App(open_failed(q)) /\ UNCHANGED closes

discard(level) == App(quic_discard(q, level)) /\ UNCHANGED closes

key_update ==
    /\ q.t.state = "CONNECTED" /\ q.t.wr_secret.ku < MaxUpdates
    /\ App(quic_key_update(q)) /\ UNCHANGED closes

drop_previous_keys == App(quic_drop_previous_keys(q)) /\ UNCHANGED closes

close == App(quic_close(q)) /\ UNCHANGED closes

-----------------------------------------------------------------------------
(* The peer *)

Waiting ==
    LET heads == SelectSeq(q.t.buf, LAMBDA c : c.at = 1)
    IN  [i \in 1..Len(heads) |-> heads[i].msg]

View == q.t.transcript \o Waiting

\* a message, or a message and the one behind it
Sized(messages) == {m \in messages : m.size \in Nat}
NextCells ==
    IF cut # << >> THEN {cut}
    ELSE UNION {{Cells(m)} \cup {Cells(m) \o Cells(f) : f \in Sized(PeerFollows(q, Append(View, m)))} :
                m \in Sized(PeerMessages(q, View))}

\* the part of it that fits in one delivery, or less
PeerCrypto ==
    /\ ~driving
    /\ \E c \in NextCells : \E n \in 1..DeliveryCells :
          /\ n <= Len(c) /\ crypto_in(q.rx_level, SubSeq(c, 1, n))
          /\ cut' = SubSeq(c, n + 1, Len(c))

PeerStray == \E level \in Levels \ {q.rx_level} : crypto_in(level, << >>) /\ UNCHANGED cut

-----------------------------------------------------------------------------
Next ==
    \/ PeerCrypto \/ PeerStray \/ drive_done \/ drive_oversize
    \/ step_server_hello \/ step_encrypted_extensions \/ step_certificate
    \/ step_certificate_verify \/ (\E failed \in BOOLEAN : step_finished(failed)) \/ step_complete
    \/ \E room \in Rooms, signs \in BOOLEAN :
          (\E version \in 0..3 : step_client_hello(room, signs, version))
             \/ step_retry_hello(room, signs)
    \/ (\E room \in Rooms : step_client_finished(room)) \/ advance_complete
    \/ \E level \in Levels :
          \/ crypto_out(level) \/ discard(level)
          \/ \E version \in Versions :
                quic_seal(level, version) \/ seal_close(level, version) \/ quic_open(level, version)
    \/ \E version \in Versions : switch_version(version)
    \/ initial_keys \/ key_update \/ drop_previous_keys \/ close

Spec == Init /\ [][Next]_vars

-----------------------------------------------------------------------------
(* What the endpoint promises *)

\* the messages of the client's own, in the order it must have handed them over
OwnMessages(tr) ==
    (IF tr[1].type = "message_hash" THEN << tr[1].of[1], tr[3] >> ELSE << tr[1] >>)
       \o << tr[Len(tr)] >>

\* the client handed over all it says it said, each message once and at its level
HandedOver(h) ==
    LET own == OwnMessages(h.t.transcript) IN
    h.made = [i \in 1..Len(own) |->
                 Made(CryptoFrames(IF i = Len(own) THEN 1 ELSE 0, Cells(own[i])), TRUE)]

\* the client's Finished covers the flight under the key of this handshake, and
\* nothing left at the application level before it
FinishedProved(h) ==
    LET tr == h.t.transcript
        n  == Len(tr)
    IN  /\ tr[n].type = "finished" /\ tr[n].over = Front(tr)
        /\ tr[n].key.label = "c hs" /\ tr[n].key.over = Prefix(tr, HelloAt(tr))
        /\ \A i \in 1..Len(h.made) : h.made[i].rec.outer = "application" => i = Len(h.made)

\* A connected endpoint proved its peer and told it everything it owed.  A client
\* is CONNECTED only on a flight RFC 9846 allows, with every message its
\* transcript says it sent handed to the caller at the right level, and nothing
\* of the handshake left; a server only on a client Finished over the whole
\* flight.  Until then neither may read a 1-RTT packet: the server has no read
\* bit, and the client a read bit only behind the server's Finished.
ConnectedIsProved ==
    /\ q.t.state = "CONNECTED" =>
          IF IsServer THEN FinishedProved(q) ELSE LegalFlight(q) /\ HandedOver(q)
    /\ ~session_dead(q) /\ (q.t.state = "CONNECTED" \/ Ready(q, 2, "READ")) =>
          q.step = "COMPLETE" /\ q.hs = NoHs

\* the names of the secrets each side writes under
ServerLabels == [hs |-> "s hs", ap |-> "s ap"]
ClientLabels == [hs |-> "c hs", ap |-> "c ap"]
Label(mine, what) == (IF mine = IsServer THEN ServerLabels ELSE ClientLabels)[what]

\* a key set of this session, in its version and over what was heard
KeyOf(keys, mine, what) ==
    /\ keys.secret.label = Label(mine, what) /\ keys.version = q.t.quic_negotiated_version
    /\ keys.secret.over = Prefix(q.t.transcript, Len(keys.secret.over))

WritesAt(level) ==
    CASE level = 0 -> q.initial_dcid
      [] level = 1 -> KeyOf(q.handshake_tx, TRUE, "hs") /\ q.handshake_hp_tx = q.handshake_tx.secret
      [] level = 2 -> KeyOf(q.app_tx, TRUE, "ap") /\ q.app_hp_tx = [q.app_tx.secret EXCEPT !.ku = 0]

ReadsAt(level) ==
    LET rx == q.app_rx IN
    CASE level = 0 -> q.initial_dcid
      [] level = 1 -> KeyOf(q.handshake_rx, FALSE, "hs") /\ q.handshake_hp_rx = q.handshake_rx.secret
      [] level = 2 -> /\ KeyOf(rx["CURRENT"], FALSE, "ap")
                      /\ rx["CURRENT"].secret.ku = q.app_tx.secret.ku
                      /\ q.key_phase = q.app_tx.secret.ku % 2
                      /\ rx["NEXT"] = quic_keys_update(rx["CURRENT"].secret, rx["CURRENT"].version)
                      /\ rx["NEXT"].secret = q.t.rd_secret /\ q.app_tx.secret = q.t.wr_secret

NoReadKeys ==
    /\ q.handshake_rx = NoKeys /\ q.app_rx = [s \in KeySets |-> NoKeys]
    /\ q.handshake_hp_rx = NoSecret /\ q.app_hp_rx = NoSecret
    /\ \A level \in Levels : ~Ready(q, level, "READ")

NoWriteKeys(level) ==
    CASE level = 0 -> ~q.initial_dcid
      [] level = 1 -> q.handshake_tx = NoKeys /\ q.handshake_hp_tx = NoSecret
      [] level = 2 -> q.app_tx = NoKeys /\ q.app_hp_tx = NoSecret

\* A set bit stands for keys of the right side, of this handshake, all of one
\* version, the one the session settled on, in consecutive phases.  A failed session
\* reads nothing and keeps write keys exactly where the bit is still set, and a
\* closed one keeps none.  Of the read bits of the levels in spared nothing is said.
BitsNameKeysBut(spared) ==
    /\ \A level \in Levels :
          /\ Ready(q, level, "WRITE") => WritesAt(level)
          /\ Ready(q, level, "READ") => level \in spared \/ ReadsAt(level)
          /\ session_dead(q) /\ ~Ready(q, level, "WRITE") => NoWriteKeys(level)
    /\ session_dead(q) => NoReadKeys
    /\ q.t.state = "CLOSED" => q.ready = {}

\* quic_session.h says of levels_ready that "it is the only answer to "installed and
\* not discarded"", and quic.h that discarding a level "whose keys were never
\* installed" is harmless: a set bit stands for keys, whatever was switched,
\* updated, dropped or discarded before.
BitsNameKeys == BitsNameKeysBut({})

\* What levels_ready does answer: the same, but for one bit.  A server whose caller
\* discarded the Application level while it waited for the client's Finished sets
\* that level's read bit afterwards, without the write bit and without the keys.
BitsNameHeldKeys ==
    BitsNameKeysBut(IF IsServer /\ ~Ready(q, 2, "WRITE") THEN {2} ELSE {})

\* A failure names its alert, wipes every secret with the buffer and the staged
\* message, and then lets out at most one CONNECTION_CLOSE for each level.  quic.h
\* says of the alert that 0 is never a failure's description; only a refused
\* configuration has none.
FailsCleanly ==
    /\ (q.t.state = "FAILED" /\ q.step # "none") => q.alert # "none" /\ q.t.alert_sent = q.alert
    /\ session_dead(q) =>
          /\ q.hs = NoHs /\ q.t.buf = << >> /\ q.tx = << >> /\ rest = << >> /\ ~driving
          /\ q.t.rd_secret = NoSecret /\ q.t.wr_secret = NoSecret /\ q.t.res_master = NoSecret
    /\ \A level \in Levels : closes[level] <= 1

\* No byte is read at another level than it came at: what waits in the buffer, or
\* in the delivery behind it, came at the level the session reads.  A step that
\* moves the level therefore consumed the whole delivery, and a call returns only
\* when it has taken all it was given.
LevelsUnmixed ==
    /\ ~session_dead(q) =>
          \A i \in 1..Len(q.t.buf \o rest) : (q.t.buf \o rest)[i].level = q.rx_level
    /\ ~driving => rest = << >>

=============================================================================
