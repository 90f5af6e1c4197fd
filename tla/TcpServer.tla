----------------------------- MODULE TcpServer -----------------------------
(***************************************************************************)
(* The non-blocking TCP server: ch_srv_tcp_init, ch_srv_tcp_in and the     *)
(* close calls over the step machine of srv_tcp_nonblocking.c.             *)
(*                                                                         *)
(* One record in drives every whole message it completes, and everything   *)
(* the server answers leaves through the caller's sink before the call     *)
(* returns.  `driving` is TRUE from a record's arrival until the drive     *)
(* loop finds no whole message left.                                       *)
(*                                                                         *)
(* The client is any holder of its own keys: it sends every record the     *)
(* code tells apart, cut anywhere and in any order.  PeerMessages says     *)
(* which messages those are.                                               *)
(***************************************************************************)
EXTENDS SrvFlight

CONSTANTS
    Configs,         \* the configurations the caller may pass
    RecordCells,     \* bound: the most cells in a record of the client
    PeerAlerts,      \* the alerts the client sends
    Rooms,           \* bound: the records the sink may take in a call before it refuses one
    \* what the client may say, by the transcript it will be read after, its
    \* handshake secret and the cookie the server last minted
    PeerMessages(_, _, _)

ASSUME ServerAssumption ==
    /\ RecordCells \in Nat \ {0} /\ Rooms \subseteq Nat
    /\ \A cfg \in Configs : cfg.quic = FALSE /\ cfg.chain \in Nat /\ cfg.now \in Nat

VARIABLES
    r,        \* the session, ch_tcp_priv with what left it
    driving,  \* TRUE inside ch_srv_tcp_in, after a record and before its last message
    cut       \* what is left of the message the client's last record broke off

vars == <<r, driving, cut>>

-----------------------------------------------------------------------------
(* ch_srv_tcp_init *)

Blank(cfg) == [t |-> NoTls(cfg), hs |-> NoHs, step |-> "none", made |-> << >>, room |-> 0]

srv_tcp_init(cfg) ==
    IF ~cfg.valid THEN [Blank(cfg) EXCEPT !.t.state = "FAILED"]
    ELSE srv_begin([Blank(cfg) EXCEPT !.hs.alert = "decode_error", !.t.peer_limit = TxCells,
                                      !.step = "AWAIT_CLIENT_HELLO"])

Init ==
    /\ \E cfg \in Configs : r = srv_tcp_init(cfg)
    /\ driving = FALSE /\ cut = << >>

-----------------------------------------------------------------------------
(* The failure path *)

\* the alert is one more record, and the sink may refuse it too
Told(h, taken) ==
    LET dead == [tcp_nonblocking_fail(h) EXCEPT !.room = 0] IN
    IF OwedAlert(h) = "none" THEN dead
    ELSE [dead EXCEPT !.made = Append(@, Made(alert_record(h, OwedAlert(h)), taken))]

fail(h) ==
    /\ \E taken \in BOOLEAN : r' = Told(h, taken)
    /\ driving' = FALSE

-----------------------------------------------------------------------------
(* ch_srv_tcp_in *)

\* one record of the loop, up to the drive loop
srv_tcp_in(rec) ==
    /\ ~driving /\ ~session_dead(r)
    /\ LET read == take_record(r, rec) IN
       IF read.ok THEN r' = read.h /\ driving' = TRUE ELSE fail(read.h)

\* a header whose length no record may have
srv_tcp_in_overlong ==
    /\ ~driving /\ ~session_dead(r)
    /\ fail([r EXCEPT !.hs.alert = "record_overflow"])
    /\ UNCHANGED cut

drive_done ==
    /\ driving /\ ~Whole(r) /\ ~Oversize(r)
    /\ driving' = FALSE
    /\ UNCHANGED <<r, cut>>

drive_oversize ==
    /\ driving /\ Oversize(r)
    /\ fail([r EXCEPT !.hs.alert = OversizeAlert(r)])
    /\ UNCHANGED cut

-----------------------------------------------------------------------------
(* The steps, one whole message each *)

At(step) == driving /\ Whole(r) /\ r.step = step

\* a step's end: the drive loop goes on, or the session fails
Advance(result) ==
    /\ IF result.ok THEN r' = [result.h EXCEPT !.room = 0] /\ UNCHANGED driving
                    ELSE fail(result.h)
    /\ UNCHANGED cut

Goto(h, step) == [h EXCEPT !.step = step]

\* Mutant: the hello need not end its record before the flight goes out
server_flight_Open(h, m, sel, signs) ==
    Then(srv_send_server_hello(h, m, sel), LAMBDA h1 :
    Then(srv_send_compat_ccs(h1, m), LAMBDA h2 :
    Then(srv_derive_handshake_secrets(srv_store_selection(h2, m, sel), m, sel), LAMBDA h3 :
    Then(srv_send_encrypted_extensions(h3), LAMBDA h4 :
    Then(IF sel.psk_selected THEN Ok(h4)
         ELSE Then(srv_send_certificate(h4), LAMBDA h5 : srv_send_certificate_verify(h5, signs)),
         LAMBDA h6 : Then(srv_send_finished(h6),
              LAMBDA h7 : Ok(Goto(h7, "AWAIT_CLIENT_FINISHED"))))))))

\* all the server owes once a hello is accepted
server_flight(h, m, sel, signs) ==
    IF ~EndsRecord(h) THEN No(h, "unexpected_message")
    ELSE Then(srv_send_server_hello(h, m, sel), LAMBDA h1 :
         Then(srv_send_compat_ccs(h1, m), LAMBDA h2 :
         Then(srv_derive_handshake_secrets(srv_store_selection(h2, m, sel), m, sel), LAMBDA h3 :
         Then(srv_send_encrypted_extensions(h3), LAMBDA h4 :
         Then(IF sel.psk_selected THEN Ok(h4)
              ELSE Then(srv_send_certificate(h4),
                        LAMBDA h5 : srv_send_certificate_verify(h5, signs)),
              LAMBDA h6 : Then(srv_send_finished(h6),
              LAMBDA h7 : Ok(Goto(h7, "AWAIT_CLIENT_FINISHED"))))))))

\* room and signs are how the sink and the signer answer in this call
step_client_hello(room, signs) ==
    /\ At("AWAIT_CLIENT_HELLO")
    /\ LET m     == NextMsg(r)
           read  == srv_read_client_hello([Taken(r) EXCEPT !.room = room], m)
           chose == srv_select(read.h, m)
       IN  Advance(
             IF ~read.ok THEN read
             ELSE IF ~chose.ok THEN chose
             ELSE IF ~chose.sel.need_retry THEN server_flight(chose.h, m, chose.sel, signs)
             ELSE Then(srv_send_hello_retry_request(chose.h, m, chose.sel), LAMBDA h1 :
                  Then(srv_send_compat_ccs(h1, m), LAMBDA h2 :
                  Ok(Goto(h2, "AWAIT_RETRY_HELLO")))))

step_retry_hello(room, signs) ==
    /\ At("AWAIT_RETRY_HELLO")
    /\ LET m     == NextMsg(r)
           read  == srv_read_client_hello([Taken(r) EXCEPT !.room = room], m)
           chose == srv_check_retry_hello(read.h, m)
       IN  Advance(IF ~read.ok THEN read
                   ELSE IF ~chose.ok THEN chose
                   ELSE server_flight(chose.h, m, chose.sel, signs))

\* the session is CONNECTED before its ticket is pushed, and the handshake state
\* lives until it was
Completed(h) ==
    Then(srv_send_new_session_ticket(Goto(srv_complete(h), "COMPLETE")),
         LAMBDA g : Ok([g EXCEPT !.hs = NoHs]))

step_client_finished(room) ==
    /\ At("AWAIT_CLIENT_FINISHED")
    /\ Advance(Then(srv_read_client_finished([Taken(r) EXCEPT !.room = room], NextMsg(r)),
                    LAMBDA h : IF EndsRecord(h) THEN Completed(h)
                               ELSE No(h, "unexpected_message")))

step_complete ==
    /\ At("COMPLETE")
    /\ Advance(No(r, "unexpected_message"))

-----------------------------------------------------------------------------
(* The closes *)

tcp_close ==
    /\ ~driving /\ r.t.state # "CLOSED"
    /\ r' = [wipe(r) EXCEPT !.t.state = "CLOSED"]
    /\ UNCHANGED <<driving, cut>>

-----------------------------------------------------------------------------
(* The client *)

Waiting ==
    LET heads == SelectSeq(r.t.buf, LAMBDA c : c.at = 1)
    IN  [i \in 1..Len(heads) |-> heads[i].msg]

View == r.t.transcript \o Waiting

HandshakeRecord(cells) ==
    IF r.hs.encrypted THEN SealedRecord(r.t.rd, "handshake", cells)
                      ELSE PlainRecord("handshake", cells)

\* What a parsed hello has, and whose cookie it can carry: a client draws a random
\* for each connection, so a cookie under the server's key whose digest fits the
\* hello is the one this session minted.
HelloFields ==
    {"type", "size", "malformed", "random", "sid", "suites", "groups", "shares", "bad", "cookie",
     "early_data", "sni", "alpn", "limit", "has", "sigalgs", "tickets", "binders"}
OwnCookie(m, cookie) ==
    (m.cookie # << >> /\ m.cookie[1].key /\ m.cookie[1].frozen = Frozen(m)) => m.cookie = cookie
Sayable(m, cookie) ==
    /\ m.size \in Nat
    /\ m.type = "client_hello" =>
          /\ HelloFields = DOMAIN m /\ m.limit \in Nat
          /\ \A i \in 1..Len(m.tickets) : m.tickets[i].auth \in Nat
          /\ OwnCookie(m, cookie)

NextCells ==
    IF cut # << >> THEN {cut}
    ELSE {Cells(m) : m \in {said \in PeerMessages(View, r.hs.c_hs, r.hs.cookie) :
                                Sayable(said, r.hs.cookie)}}

\* a record with a message, a part of one, or the end of one and the start of
\* another that this server will refuse
PeerHandshake ==
    /\ ~driving
    /\ \E c \in NextCells : \E n \in 1..RecordCells, more \in BOOLEAN :
          /\ n <= Len(c) /\ (more => n = Len(c) /\ n < RecordCells)
          /\ srv_tcp_in(HandshakeRecord(
                 IF more THEN Append(c, [msg |-> [type |-> "other", size |-> 1], at |-> 1])
                         ELSE SubSeq(c, 1, n)))
          /\ cut' = SubSeq(c, n + 1, Len(c))

AlertRecords ==
    {[rec EXCEPT !.alert = a] :
        rec \in {PlainRecord("alert", << >>), SealedRecord(r.t.rd, "alert", << >>)},
        a \in {Alert(d) : d \in PeerAlerts} \cup {[len |-> 3, desc |-> "none"]}}

PeerOther ==
    \E rec \in AlertRecords
               \cup {CcsRecord, PlainRecord("appdata", << >>), PlainRecord("other", << >>),
                     SealedRecord(r.t.rd, "appdata", << >>)} :
       srv_tcp_in(rec) /\ UNCHANGED cut

-----------------------------------------------------------------------------
Next ==
    \/ PeerHandshake \/ PeerOther \/ srv_tcp_in_overlong
    \/ drive_done \/ drive_oversize
    \/ \E room \in Rooms, signs \in BOOLEAN :
          step_client_hello(room, signs) \/ step_retry_hello(room, signs)
    \/ \E room \in Rooms : step_client_finished(room)
    \/ step_complete
    \/ tcp_close

Spec == Init /\ [][Next]_vars

-----------------------------------------------------------------------------
(* What the server promises *)

Answered == ~session_dead(r) /\ r.step \in {"AWAIT_CLIENT_FINISHED", "COMPLETE"}

\* the choice h runs, against the hello that its ServerHello answered
LegalSelection(h) ==
    LET tr  == h.t.transcript
        sh  == tr[HelloAt(tr)]
        ch  == tr[HelloAt(tr) - 1]
        cfg == h.t.cfg
    IN  /\ ch.type = "client_hello" /\ sh.type = "server_hello" /\ ~sh.hrr
        /\ sh.suite = FirstOffered(cfg.suites, ch.suites) /\ sh.suite # "none"
        /\ sh.group = FirstOffered(GroupOrder, ch.groups) /\ sh.group \in ch.shares
        /\ ~alpn_mismatch(cfg, ch) /\ h.t.alpn_selected = FirstOffered(cfg.alpn, ch.alpn)
        /\ cfg.require_server_name => ch.sni
        /\ ~h.t.psk_selected => h.t.sigalg \in ch.sigalgs \cap cfg.identities
        /\ HelloAt(tr) = 4 =>
               /\ tr[2].hrr /\ tr[2].suite = sh.suite /\ tr[2].group = sh.group
               /\ Len(tr[1].of) = 1 /\ sh.group \notin tr[1].of[1].shares
               /\ Frozen(ch) = Frozen(tr[1].of[1])

\* What the session runs is what the configuration prefers among the offers of
\* the hello the ServerHello answered, whichever hello that was: after a retry
\* the choice was made on the first hello and only the cookie carried it, so
\* this rests on the cookie's digest covering everything the choice read.  The
\* ServerHello repeats the suite and the group of the HelloRetryRequest, and the
\* retry was owed: the first hello had no share for the group.
SelectionLegal == Answered => LegalSelection(r)

\* the i-th ticket of a hello is one this session may resume, and its binder
\* covers what was heard before the hello
ProvedTicket(h, ch, i, before) ==
    LET ticket == ch.tickets[i] IN
    /\ ticket.key
    /\ h.t.cfg.now \in ticket.auth..(ticket.auth + TicketLifetime)
    /\ HashOf(ticket.suite) = HashOf(h.t.suite)
    /\ ticket.alpn = h.t.alpn_selected
    /\ ch.binders[i].psk = ticket.psk
    /\ ch.binders[i].over = before \o << [ch EXCEPT !.binders = << >>] >>

\* who h's flight proved: a ticket's holder, or this server by certificate
LegalAuthentication(h) ==
    LET tr == h.t.transcript
        at == HelloAt(tr)
        ch == tr[at - 1]
    IN  IF h.t.psk_selected
        THEN /\ tr[at].psk # "none" /\ tr[at + 2].type = "finished"
             /\ \E i \in 1..Len(ch.tickets) : ProvedTicket(h, ch, i, SubSeq(tr, 1, at - 2))
        ELSE /\ tr[at].psk = "none" /\ tr[at + 2].type = "certificate"
             /\ tr[at + 3].type = "certificate_verify"
             /\ tr[at + 3].over = SubSeq(tr, 1, at + 2)

\* A resumed session was authenticated by certificate at most a lifetime ago, by
\* a ticket of this server for the same hash and protocol, whose holder proved
\* its key over the whole exchange so far, a retry included.  Such a session
\* sends no certificate, and every other one sends it with a signature.
ResumptionProved == Answered => LegalAuthentication(r)

\* A session is CONNECTED only after the client's Finished over the whole flight,
\* under the key of this handshake; it then reads under the client's application
\* secret from sequence number 0, writes under its own, and any ticket it gave
\* away went out after that.
ConnectedIsProved ==
    r.t.state = "CONNECTED" =>
        LET tr == r.t.transcript
            n  == Len(tr)
        IN  /\ tr[n].type = "finished" /\ tr[n].key.label = "c hs" /\ tr[n].over = Front(tr)
            /\ tr[n].key.over = SubSeq(tr, 1, HelloAt(tr))
            /\ r.t.rd = [key |-> r.t.rd_secret, seq |-> 0]
            /\ r.t.wr.key = r.t.wr_secret /\ r.t.wr_secret.over = Front(tr)
            /\ \A i \in 1..Len(r.made) : r.made[i].rec.dir.key.label = "s ap" =>
                   i = Len(r.made) /\ r.t.wr.seq = 1

\* A record the sink refused is the last of the flight: only the alert of the
\* failure follows, and the session is dead.
RefusalKills ==
    \A i \in 1..Len(r.made) : ~r.made[i].taken =>
        /\ session_dead(r)
        /\ i >= Len(r.made) - 1
        /\ i < Len(r.made) => r.made[i + 1].rec.alert # NoAlert

\* The read key changes only between records: the message that changes it was the
\* last thing in the buffer, so nothing that came under one key is read under the
\* next (hsr_check_record_end before each change).
KeyChangeEndsRecord ==
    [][(~session_dead(r)' /\ r'.t.rd.key # r.t.rd.key) =>
          Len(r.t.buf) = Head(r.t.buf).msg.size]_vars

=============================================================================
