----------------------------- MODULE SrvFlight -----------------------------
(***************************************************************************)
(* The server's side of the handshake, message by message: the handlers of *)
(* srv_flight.c with the output of srv_out.c under them.  The blocking,    *)
(* the non-blocking and the QUIC server call the same handlers; what the   *)
(* transport changes in them is under OverQuic.                            *)
(*                                                                         *)
(* Output is pushed: each record, or over QUIC each message with the level *)
(* its CRYPTO frames belong to, is handed to the caller's sink, which may  *)
(* refuse it.  h.made is every one built, in order, each with whether the  *)
(* sink took it; h.room is how many more it takes before it refuses.       *)
(* A refused record has used its sequence number all the same.             *)
(***************************************************************************)
EXTENDS TcpFrame, SrvSelect

CONSTANT TxCells   \* CH_TX_PT, the most this build puts in one record, in cells

ASSUME TxAssumption == TxCells \in Nat \ {0}

-----------------------------------------------------------------------------
(* Output *)

OverQuic(h) == h.t.cfg.quic

Made(rec, taken) == [rec |-> rec, taken |-> taken]
Fewer(a, b) == IF a <= b THEN a ELSE b

\* Mutant: a refused record does not stop the ones behind it
Push_On(h, recs) ==
    Ok([h EXCEPT !.room = IF Len(recs) <= @ THEN @ - Len(recs) ELSE 0,
                 !.made = @ \o [i \in 1..Len(recs) |-> Made(recs[i], i <= h.room)]])

\* emit_record for each of recs, up to and including the first refused one
Push(h, recs) ==
    LET taken == Fewer(Len(recs), h.room)
        built == Fewer(Len(recs), taken + 1)
        out   == [h EXCEPT !.room = @ - taken,
                           !.made = @ \o [i \in 1..built |-> Made(recs[i], i <= taken)]]
    IN  IF taken = Len(recs) THEN Ok(out) ELSE No(out, "internal_error")

\* what on_crypto_out is given: the level and the bytes
LevelNames == <<"initial", "handshake", "application">>
CryptoFrames(level, cells) == PlainRecord(LevelNames[level + 1], cells)

srv_out_plain(h, m) ==
    Push(h, << IF OverQuic(h) THEN CryptoFrames(h.hs.level, Cells(m))
                              ELSE PlainRecord("handshake", Cells(m)) >>)

srv_out_limit(h) == IF OverQuic(h) THEN TxCells ELSE Fewer(h.t.peer_limit, TxCells)

\* one message in pieces of at most srv_out_limit cells, which only a Certificate
\* is longer than: records under the write key, or under QUIC the bytes as srv_frag
\* cuts them, since QUIC protects packets and not messages
srv_out_sealed(h, m) ==
    LET limit == srv_out_limit(h)
        count == (m.size + limit - 1) \div limit
        Piece(i) == SubSeq(Cells(m), (i - 1) * limit + 1, Fewer(i * limit, m.size))
        Dir(i) == [h.t.wr EXCEPT !.seq = @ + i - 1]
        pushed == Push(h, [i \in 1..count |->
                      IF OverQuic(h) THEN CryptoFrames(h.hs.level, Piece(i))
                                     ELSE SealedRecord(Dir(i), "handshake", Piece(i))])
    IN  IF OverQuic(h) THEN pushed
        ELSE [pushed EXCEPT !.h.t.wr.seq = @ + Len(pushed.h.made) - Len(h.made)]

-----------------------------------------------------------------------------
(* The hellos *)

srv_begin(h) == [h EXCEPT !.hs.kex = {"x25519"}, !.t.transcript = << >>]

\* the handler behind hsr_next_msg; the name is kept when the caller gave a
\* buffer it fits in
srv_read_client_hello(h, m) ==
    IF m.type # "client_hello" THEN No(h, "unexpected_message")
    ELSE IF srv_parse_client_hello(m) # "none" THEN No(h, srv_parse_client_hello(m))
    ELSE LET heard == Hear([h EXCEPT !.hs.alert = "decode_error",
                                     !.t.sni = m.sni /\ h.t.cfg.sni_buf], m)
         IN  IF h.t.cfg.require_server_name /\ ~heard.t.sni THEN No(heard, "missing_extension")
             ELSE Ok(heard)

\* with its answer: [ok, h, sel]
srv_select(h, m) ==
    LET cfg   == h.t.cfg
        suite == FirstOffered(cfg.suites, m.suites)
        group == srv_kex_group(m)
        sel   == [NoSelection EXCEPT !.suite = suite, !.group = group,
                                     !.sigalg = srv_select_sigalg(cfg, m),
                                     !.need_retry = ~srv_kex_shared(m, group)]
        g     == [h EXCEPT !.hs.alert = "handshake_failure"]
        Refused(alert) == [ok |-> FALSE, h |-> No(g, alert).h, sel |-> sel]
    IN  IF suite = "none" \/ group = "none" THEN Refused("handshake_failure")
        ELSE IF sel.sigalg = "none" /\ "psk" \notin m.has THEN Refused("handshake_failure")
        ELSE IF alpn_mismatch(cfg, m) THEN Refused("no_application_protocol")
        ELSE IF sel.need_retry THEN [ok |-> TRUE, h |-> g, sel |-> sel]
        ELSE srv_select_auth(g, m, sel)

ServerHello(sel, hrr, cookie) ==
    [type |-> "server_hello", size |-> 1, malformed |-> FALSE, hrr |-> hrr, suite |-> sel.suite,
     group |-> sel.group, share_ok |-> TRUE, cookie |-> cookie,
     psk |-> IF ~sel.psk_selected THEN "none" ELSE IF sel.index = 1 THEN "zero" ELSE "other"]

\* srv_cookie_mint: the selection and the frozen digest under the cookie key
srv_cookie_mint(sel, m) ==
    << [key |-> TRUE, suite |-> sel.suite, group |-> sel.group, frozen |-> Frozen(m)] >>

srv_send_hello_retry_request(h, m, sel) ==
    LET cookie == srv_cookie_mint(sel, m)
        retry  == ServerHello(sel, TRUE, cookie)
        again  == restart_transcript([h EXCEPT !.hs.cookie = cookie, !.t.hrr_sent = TRUE], retry)
    IN  srv_out_plain(again, retry)

\* the dummy change_cipher_spec, for a client that sent a session id; QUIC has none
srv_send_compat_ccs(h, m) == IF m.sid /\ ~OverQuic(h) THEN Push(h, << CcsRecord >>) ELSE Ok(h)

\* A server that shares the cookie key may run suites that this one must not.
suite_runs_here(cfg, suite) == suite_runs_aes_gcm(suite) => cfg.constant_time_aes
srv_group_bit(group)        == \E i \in 1..Len(GroupOrder) : GroupOrder[i] = group

\* what a cookie must be for its selection to stand
CookieHolds(cfg, m, c) ==
    c.key /\ c.frozen = Frozen(m) /\ suite_runs_here(cfg, c.suite) /\ srv_group_bit(c.group)

\* The selection comes from the cookie; the transcript needs nothing here.
srv_check_retry_hello(h, m) ==
    LET g == [h EXCEPT !.hs.alert = "illegal_parameter"]
        Refused(alert) == [ok |-> FALSE, h |-> No(g, alert).h, sel |-> NoSelection]
    IN  IF m.cookie = << >> \/ m.early_data THEN Refused("illegal_parameter")
        ELSE LET c == m.cookie[1] IN
             IF ~CookieHolds(h.t.cfg, m, c) THEN Refused("illegal_parameter")
             ELSE IF ~srv_kex_shared(m, c.group) THEN Refused("handshake_failure")
             ELSE srv_select_auth(g, m, [NoSelection EXCEPT
                      !.suite = c.suite, !.group = c.group,
                      !.sigalg = srv_select_sigalg(h.t.cfg, m)])

\* the share of the selected group is checked before a byte goes out
srv_send_server_hello(h, m, sel) ==
    IF m.bad = "key" THEN No(h, "illegal_parameter")
    ELSE LET hello == ServerHello(sel, FALSE, << >>) IN srv_out_plain(Hear(h, hello), hello)

-----------------------------------------------------------------------------
(* The flight under the handshake keys *)

srv_store_selection(h, m, sel) ==
    [h EXCEPT !.t.suite = sel.suite, !.t.group = sel.group, !.t.sigalg = sel.sigalg,
              !.t.psk_selected = sel.psk_selected,
              !.t.alpn_selected = alpn_selected(h.t.cfg, m),
              !.t.peer_limit = IF m.limit # 0 THEN Fewer(@, m.limit) ELSE @]

\* the record keys, which QUIC has none of: its driver installs packet keys
Keyed(h, rd, wr) ==
    IF OverQuic(h) THEN h
    ELSE [h EXCEPT !.t.rd = [key |-> rd, seq |-> 0], !.t.wr = [key |-> wr, seq |-> 0],
                   !.hs.encrypted = TRUE, !.t.keys = TRUE]

\* the exchange's keys die on both exits, the early secret with the derivation
srv_derive_handshake_secrets(h, m, sel) ==
    LET spent == [h EXCEPT !.hs.kex = {}]
        early == IF sel.psk_selected THEN spent ELSE [spent EXCEPT !.hs.early = "nopsk"]
        c_hs  == Secret(early, "c hs")
        s_hs  == Secret(early, "s hs")
    IN  IF m.bad = "secret" THEN No(spent, "illegal_parameter")
        ELSE Ok(Keyed([early EXCEPT !.hs.early = "zero",
                                    !.hs.handshake_secret = Secret(early, "hs"),
                                    !.hs.c_hs = c_hs, !.hs.s_hs = s_hs], c_hs, s_hs))

\* adds the message to the transcript and seals it
Send(h, m) == srv_out_sealed(Hear(h, m), m)

srv_send_encrypted_extensions(h) ==
    Send(h, [type |-> "encrypted_extensions", size |-> 1, malformed |-> FALSE,
             exts |-> (IF h.t.alpn_selected = "none" THEN << >>
                       ELSE << [ext |-> "alpn", body |-> "ok"] >>)
                      \o (IF OverQuic(h) THEN << [ext |-> "transport_params", body |-> "ok"] >>
                          ELSE << >>)])

\* the identity of the selected scheme; the chain may span records
srv_send_certificate(h) ==
    Send(h, [type |-> "certificate", size |-> h.t.cfg.chain, malformed |-> "none",
             verdict |-> "none", epoch |-> h.t.cfg.epoch, epoch_ok |-> TRUE])

\* signs is whether the signer made a signature (srv_sign_certificate_verify)
srv_send_certificate_verify(h, signs) ==
    IF ~signs THEN No(h, "internal_error")
    ELSE Send(h, [type |-> "certificate_verify", size |-> 1, malformed |-> FALSE,
                  scheme |-> "leaf", signer |-> "leaf", over |-> h.t.transcript])

\* Mutant: the application secrets are derived before the Finished is heard
srv_send_finished_Early(h) ==
    Then(Send(h, FinishedMessage(HashOf(h.t.suite), h.hs.s_hs, h.t.transcript)),
         LAMBDA g : Ok([g EXCEPT !.hs.master = Derived(h, "master"),
                                 !.t.rd_secret = Derived(h, "c ap"),
                                 !.t.wr_secret = Derived(h, "s ap"),
                                 !.t.wr = IF OverQuic(h) THEN @
                                          ELSE [key |-> Derived(h, "s ap"), seq |-> 0]]))

\* only the write direction advances: the client's Finished is still to come
srv_send_finished(h) ==
    Then(Send(h, FinishedMessage(HashOf(h.t.suite), h.hs.s_hs, h.t.transcript)),
         LAMBDA g : Ok([g EXCEPT !.hs.master = Derived(g, "master"),
                                 !.t.rd_secret = Derived(g, "c ap"),
                                 !.t.wr_secret = Derived(g, "s ap"),
                                 !.t.wr = IF OverQuic(h) THEN @
                                          ELSE [key |-> Derived(g, "s ap"), seq |-> 0]]))

\* Mutant: any Finished under the handshake key is taken
srv_read_client_finished_Any(h, m) ==
    IF m.type # "finished" THEN No(h, "unexpected_message") ELSE Ok(Hear(h, m))

srv_read_client_finished(h, m) ==
    IF m.type # "finished" \/ m.hash # HashOf(h.t.suite) THEN No(h, "unexpected_message")
    ELSE IF m.key # h.hs.c_hs \/ m.over # h.t.transcript THEN No(h, "decrypt_error")
    ELSE Ok(Hear(h, m))

srv_complete(h) ==
    [h EXCEPT !.t.rd = IF OverQuic(h) THEN @ ELSE [key |-> h.t.rd_secret, seq |-> 0],
              !.t.buf = << >>,
              !.t.state = "CONNECTED"]

\* the ticket, when there is a key for it and some of the lifetime left
srv_send_new_session_ticket(h) ==
    LET cfg  == h.t.cfg
        auth == AuthSeconds(h.t.psk_selected, h.hs.ticket_auth, cfg.now)
    IN  IF ~tickets_on(cfg) \/ LifetimeLeft(auth, cfg.now) = 0 THEN Ok(h)
        ELSE srv_out_sealed(h,
                 [type |-> "new_session_ticket", size |-> 1, lifetime |-> LifetimeLeft(auth, cfg.now),
                  ticket |-> [key |-> TRUE, auth |-> auth, suite |-> h.t.suite,
                              alpn |-> h.t.alpn_selected, version |-> session_quic_version(h),
                              psk |-> Derived(h, "res")]])

-----------------------------------------------------------------------------
\* the place of the ServerHello, and of the hello it answers, in the transcript
HelloAt(tr) == IF tr[1].type = "message_hash" THEN 4 ELSE 2

=============================================================================
