----------------------------- MODULE TcpClient -----------------------------
(***************************************************************************)
(* The non-blocking TCP client: ch_tcp_init, ch_tcp_in, ch_tcp_out and     *)
(* ch_tcp_close over the step machine of tcp_nonblocking_step.c            *)
(* (tcp_nonblocking.c, tcp_nonblocking_step.c).                            *)
(*                                                                         *)
(* The caller owns the socket.  It hands records in, and collects what the *)
(* client owes the peer from one staging array, in as many calls as its    *)
(* own buffer needs.  ch_tcp_in's loop keeps nothing from one record to    *)
(* the next but the session, and stops as soon as something is staged, so  *)
(* a call with several records is several steps here.  `driving` is TRUE   *)
(* from a record's arrival until ch_tcp_in's drive loop has run every      *)
(* whole message it completed: no other call starts in between.            *)
(*                                                                         *)
(* The peer is any holder of the handshake keys: it sends every record the *)
(* code tells apart, cut anywhere, in any order.  PeerMessages says which *)
(* messages those are.                                                     *)
(***************************************************************************)
EXTENDS TcpFrame, Flight

CONSTANTS
    Configs,         \* the configurations the caller may pass
    Pieces,          \* the calls of ch_tcp_out it takes to hand over a record, at most
    RecordCells,     \* bound: the most cells in a record of the peer
    PeerAlerts,      \* the alerts the peer sends
    \* what the peer may say, by the transcript it will be read after and the
    \* server's handshake secret; and what it may put behind that in one record
    PeerMessages(_, _), PeerFollows(_, _)

ASSUME ClientAssumption ==
    /\ Pieces \in Nat \ {0} /\ RecordCells \in Nat \ {0}
    /\ \A cfg \in Configs : cfg.stored \in Nat

VARIABLES
    r,        \* the session, ch_tcp_priv
    driving,  \* TRUE inside ch_tcp_in, after a record and before its last message
    store,    \* the epoch in the caller's storage
    cut,      \* what is left of the message the peer's last record broke off
    made,     \* every record this client made, in order
    sent      \* the pieces of records that left, in order: <<index in made, piece>>

vars == <<r, driving, store, cut, made, sent>>

-----------------------------------------------------------------------------
(* ch_tcp_init *)

Blank(cfg) == [t |-> NoTls(cfg), hs |-> NoHs, step |-> "none", tx |-> 0, tx_off |-> 0]

\* tcp_nonblocking_refuse_init keeps the three epoch fields and nothing else
refuse_init(h) ==
    [Blank(h.t.cfg) EXCEPT !.t.state = "FAILED", !.t.epoch = h.t.epoch,
                           !.t.epoch_seen = h.t.epoch_seen,
                           !.t.epoch_status = h.t.epoch_status]

\* h.tx is the index in `made` of the staged record, 0 when nothing is staged
tcp_init(cfg, stored) ==
    LET checked == EpochInit(Blank(cfg), stored) IN
    IF ~cfg.valid THEN refuse_init(Blank(cfg))
    ELSE IF ~checked.ok THEN refuse_init(checked.h)
    ELSE LET begun == hsf_begin([checked.h EXCEPT !.hs.alert = "decode_error"])
         IN  [hsf_build_client_hello(begun) EXCEPT !.step = "AWAIT_SERVER_HELLO", !.tx = 1]

Init ==
    /\ store \in {cfg.stored : cfg \in Configs}
    /\ \E cfg \in Configs : cfg.stored = store /\ r = tcp_init(cfg, store)
    /\ made = IF session_dead(r) THEN << >>
              ELSE << PlainRecord("handshake", Cells(Head(r.t.transcript))) >>
    /\ driving = FALSE /\ cut = << >> /\ sent = << >>

-----------------------------------------------------------------------------
(* The failure path and the staging array *)

Stage(h, rec) ==
    /\ r' = [h EXCEPT !.tx = Len(made) + 1, !.tx_off = 0]
    /\ made' = Append(made, rec)

\* fail: what tcp_nonblocking_fail wrote replaces whatever was staged
fail(h) ==
    /\ IF OwedAlert(h) # "none"
       THEN Stage(tcp_nonblocking_fail(h), alert_record(h, OwedAlert(h)))
       ELSE r' = [tcp_nonblocking_fail(h) EXCEPT !.tx = 0, !.tx_off = 0] /\ UNCHANGED made
    /\ driving' = FALSE

-----------------------------------------------------------------------------
(* ch_tcp_in *)

\* Mutant: input is taken while a record is still staged
InAllowed_Staged(h) == ~session_dead(h)

\* a dead session reads nothing, and neither does one that owes the peer bytes
InAllowed(h) == ~session_dead(h) /\ h.tx = 0

\* One record of the loop, up to the drive loop.
tcp_in(rec) ==
    /\ ~driving /\ InAllowed(r)
    /\ LET read == take_record(r, rec) IN
       IF read.ok THEN r' = read.h /\ driving' = TRUE /\ UNCHANGED made
                  ELSE fail(read.h)
    /\ UNCHANGED <<store, sent>>

\* a header whose length no record may have
tcp_in_overlong ==
    /\ ~driving /\ InAllowed(r)
    /\ fail([r EXCEPT !.hs.alert = "record_overflow"])
    /\ UNCHANGED <<store, cut, sent>>

\* the drive loop finds no whole message left
drive_done ==
    /\ driving /\ ~Whole(r) /\ ~Oversize(r)
    /\ driving' = FALSE
    /\ UNCHANGED <<r, store, cut, made, sent>>

\* the drive loop meets a header that announces more than the buffer holds
drive_oversize ==
    /\ driving /\ Oversize(r)
    /\ fail([r EXCEPT !.hs.alert = OversizeAlert(r)])
    /\ UNCHANGED <<store, cut, sent>>

-----------------------------------------------------------------------------
(* The steps, one whole message each *)

At(steps) == driving /\ Whole(r) /\ r.step \in steps

\* a step that only changes the session, or fails it
Advance(result, step) ==
    IF result.ok THEN r' = [result.h EXCEPT !.step = step] /\ UNCHANGED <<driving, made>>
                 ELSE fail(result.h)

AwaitsHello == {"AWAIT_SERVER_HELLO", "AWAIT_RETRY_HELLO"}

\* the retry hello; a second HelloRetryRequest is refused
step_retry ==
    /\ At(AwaitsHello)
    /\ LET read == hsf_read_server_hello(Taken(r), NextMsg(r)) IN
       /\ read.ok /\ NextMsg(r).hrr
       /\ IF r.step = "AWAIT_RETRY_HELLO"
          THEN fail([read.h EXCEPT !.hs.alert = "unexpected_message"])
          ELSE /\ Stage([hsf_build_client_hello(read.h) EXCEPT !.step = "AWAIT_RETRY_HELLO"],
                        PlainRecord("handshake", Cells(ClientHello(read.h))))
               /\ driving' = FALSE
    /\ UNCHANGED <<store, cut, sent>>

InstallHandshakeKeys(h) ==
    [h EXCEPT !.t.rd = [key |-> h.hs.s_hs, seq |-> 0],
              !.t.wr = [key |-> h.hs.c_hs, seq |-> 0],
              !.hs.encrypted = TRUE, !.t.keys = TRUE]

\* accept, the record's end and the derivation, in that order
AcceptHello(h, m) ==
    LET accepted == hsf_accept_server_hello(h, m) IN
    IF ~accepted.ok THEN accepted
    ELSE IF ~EndsRecord(accepted.h) THEN No(accepted.h, "unexpected_message")
    ELSE LET derived == hsf_derive_handshake_secrets(accepted.h, m) IN
         IF derived.ok THEN Ok(InstallHandshakeKeys(derived.h)) ELSE derived

step_server_hello ==
    /\ At(AwaitsHello)
    /\ LET read == hsf_read_server_hello(Taken(r), NextMsg(r)) IN
       /\ ~(read.ok /\ NextMsg(r).hrr)
       /\ Advance(IF read.ok THEN AcceptHello(read.h, NextMsg(r)) ELSE read,
                  "AWAIT_ENCRYPTED_EXTENSIONS")
    /\ UNCHANGED <<store, cut, sent>>

\* Mutant: a certificate is expected only of a server that was offered no ticket
AfterExtensions_Offered(h) ==
    IF PskOffered(h) THEN "AWAIT_FINISHED" ELSE "AWAIT_CERTIFICATE"

\* the one fork in the table
AfterExtensions(h) == IF h.t.psk_selected THEN "AWAIT_FINISHED" ELSE "AWAIT_CERTIFICATE"

step_encrypted_extensions ==
    /\ At({"AWAIT_ENCRYPTED_EXTENSIONS"})
    /\ Advance(hsf_read_encrypted_extensions(Taken(r), NextMsg(r)), AfterExtensions(r))
    /\ UNCHANGED <<store, cut, sent>>

\* Mutant: the epoch is stored when the certificate is read, before its key signed
step_certificate_Commit ==
    /\ At({"AWAIT_CERTIFICATE"})
    /\ LET read == hsa_server_auth(Taken(r), NextMsg(r)) IN
       /\ Advance(read, "AWAIT_CERTIFICATE_VERIFY")
       /\ store' = IF read.ok /\ EpochRaised(read.h) THEN read.h.hs.leaf.epoch ELSE store
    /\ UNCHANGED <<cut, sent>>

step_certificate ==
    /\ At({"AWAIT_CERTIFICATE"})
    /\ Advance(hsa_server_auth(Taken(r), NextMsg(r)), "AWAIT_CERTIFICATE_VERIFY")
    /\ UNCHANGED <<store, cut, sent>>

step_certificate_verify ==
    /\ At({"AWAIT_CERTIFICATE_VERIFY"})
    /\ Advance(hsa_read_certificate_verify(Taken(r), NextMsg(r)), "AWAIT_FINISHED")
    /\ UNCHANGED <<store, cut, sent>>

\* both directions to the application keys, and the handshake state wiped
Connected(h) ==
    [h EXCEPT !.t.rd = [key |-> h.t.rd_secret, seq |-> 0],
              !.t.wr = [key |-> h.t.wr_secret, seq |-> 0],
              !.t.buf = << >>, !.hs = NoHs, !.step = "COMPLETE"]

\* failed is the answer of the caller's epoch_store, when it is asked.  The
\* Finished is sealed under the handshake write key, before the keys change.
step_finished(failed) ==
    /\ At({"AWAIT_FINISHED"})
    /\ LET read == hsf_read_finished(Taken(r), NextMsg(r)) IN
       IF ~read.ok THEN fail(read.h) /\ UNCHANGED store
       ELSE IF ~EndsRecord(read.h)
       THEN fail([read.h EXCEPT !.hs.alert = "unexpected_message"]) /\ UNCHANGED store
       ELSE LET done == hsf_complete(hsa_epoch_commit(read.h, failed)) IN
            /\ store' = IF EpochRaised(read.h) /\ ~failed THEN read.h.hs.leaf.epoch ELSE store
            /\ Stage(Connected(done),
                     SealedRecord(done.t.wr, "handshake",
                                  Cells(ClientFinished(read.h))))
            /\ driving' = FALSE
    /\ UNCHANGED <<cut, sent>>

\* nothing is legal after the handshake
step_complete ==
    /\ At({"COMPLETE"})
    /\ fail([r EXCEPT !.hs.alert = "unexpected_message"])
    /\ UNCHANGED <<store, cut, sent>>

-----------------------------------------------------------------------------
(* ch_tcp_out and the two closes *)

\* the last byte of the Finished makes the session connected
Drained(h) ==
    [h EXCEPT !.tx = 0, !.tx_off = 0,
              !.t.state = IF h.step = "COMPLETE" /\ @ = "START" THEN "CONNECTED" ELSE @]

\* Mutant: the first byte of the Finished makes the session connected
tcp_out_Early(take) ==
    /\ ~driving /\ r.tx # 0 /\ r.tx_off + take <= Pieces
    /\ r' = IF r.tx_off + take = Pieces THEN Drained(r)
            ELSE [r EXCEPT !.tx_off = @ + take,
                           !.t.state = IF r.step = "COMPLETE" THEN "CONNECTED" ELSE @]
    /\ sent' = sent \o [i \in 1..take |-> <<r.tx, r.tx_off + i>>]
    /\ UNCHANGED <<driving, store, cut, made>>

\* hands over what the caller has room for
tcp_out(take) ==
    /\ ~driving /\ r.tx # 0 /\ r.tx_off + take <= Pieces
    /\ r' = IF r.tx_off + take = Pieces THEN Drained(r)
                                        ELSE [r EXCEPT !.tx_off = @ + take]
    /\ sent' = sent \o [i \in 1..take |-> <<r.tx, r.tx_off + i>>]
    /\ UNCHANGED <<driving, store, cut, made>>

tcp_close ==
    /\ ~driving /\ r.t.state # "CLOSED"
    /\ r' = [wipe(r) EXCEPT !.t.state = "CLOSED", !.tx = 0, !.tx_off = 0]
    /\ UNCHANGED <<driving, store, cut, made, sent>>

\* ch_close on &r->t, for a session that is CONNECTED; ch_tcp_close is for every
\* other.  close_notify leaves by the callback, and tlsi_wipe knows neither r->hs
\* nor the staging array, which are both empty by then.
tls_close ==
    /\ ~driving /\ r.t.state = "CONNECTED"
    /\ made' = Append(made, alert_record(r, "close_notify"))
    /\ r' = [wipe(r) EXCEPT !.t.state = "CLOSED", !.hs = r.hs, !.tx = r.tx]
    /\ UNCHANGED <<driving, store, cut, sent>>

-----------------------------------------------------------------------------
(* The peer *)

\* the messages the client has been sent, in full or in part, and not yet read
Waiting ==
    LET heads == SelectSeq(r.t.buf, LAMBDA c : c.at = 1)
    IN  [i \in 1..Len(heads) |-> heads[i].msg]

View == r.t.transcript \o Waiting

\* the cells the peer's stream may go on with: the rest of the message its last
\* record broke off, or a new message, alone or with another behind it
NextCells ==
    IF cut # << >> THEN {cut} ELSE {Cells(m) : m \in PeerMessages(View, r.hs.s_hs)}
HeardWith(c) == IF cut # << >> THEN View ELSE Append(View, c[1].msg)
Follows(c) == {Cells(m) : m \in PeerFollows(HeardWith(c), r.hs.s_hs)}

HandshakeRecord(cells) ==
    IF r.hs.encrypted THEN SealedRecord(r.t.rd, "handshake", cells)
                      ELSE PlainRecord("handshake", cells)

\* a record with a message or a part of one
PeerHandshake ==
    \E c \in NextCells : \E n \in 1..RecordCells :
       /\ n <= Len(c)
       /\ tcp_in(HandshakeRecord(SubSeq(c, 1, n)))
       /\ cut' = SubSeq(c, n + 1, Len(c))

\* a record that ends one message and holds another, or the start of it
PeerRun ==
    \E first \in NextCells : \E second \in Follows(first), n \in 1..RecordCells :
       LET c == first \o second IN
       /\ n > Len(first) /\ n <= Len(c)
       /\ tcp_in(HandshakeRecord(SubSeq(c, 1, n)))
       /\ cut' = SubSeq(c, n + 1, Len(c))

\* an alert, sealed or in the clear, a record that does not open, or one that is
\* of no use to a handshake
AlertRecords ==
    {[rec EXCEPT !.alert = a] :
        rec \in {PlainRecord("alert", << >>), SealedRecord(r.t.rd, "alert", << >>)},
        a \in {Alert(d) : d \in PeerAlerts} \cup {[len |-> 3, desc |-> "none"]}}

PeerOther ==
    \E rec \in AlertRecords
               \cup {CcsRecord, PlainRecord("appdata", << >>), PlainRecord("other", << >>),
                     SealedRecord(r.t.rd, "appdata", << >>)} :
       tcp_in(rec) /\ UNCHANGED cut

-----------------------------------------------------------------------------
Next ==
    \/ PeerHandshake \/ PeerRun \/ PeerOther \/ tcp_in_overlong
    \/ drive_done \/ drive_oversize
    \/ step_retry \/ step_server_hello \/ step_encrypted_extensions
    \/ step_certificate \/ step_certificate_verify
    \/ \E failed \in BOOLEAN : step_finished(failed)
    \/ step_complete
    \/ \E take \in 1..Pieces : tcp_out(take)
    \/ tcp_close \/ tls_close

Spec == Init /\ [][Next]_vars

-----------------------------------------------------------------------------
(* What the client promises *)

\* A client that completes, and so one that is connected, has heard exactly a
\* legal flight: at most one retry, one suite throughout, a share it sent, the
\* certificate path unless the server took the ticket it offered, and a
\* signature and a Finished over all that came before.  Its application secrets
\* cover that flight.  (The order of INV-22, over the step table.)
CompleteIsAuthenticated ==
    (r.step = "COMPLETE" /\ ~session_dead(r)) =>
        /\ LegalFlight(r)
        /\ \A secret \in {r.t.wr_secret, r.t.rd_secret} :
              secret.over = Prefix(r.t.transcript, Len(r.t.transcript) - 1)

\* A session is CONNECTED only once every byte of the Finished it made has been
\* handed over, and what it then holds is what ch_read and ch_write start from:
\* the application keys at sequence number 0, once each way, and no
\* handshake secret (ch_tcp_out raises the state, not step_finished).
ConnectedIsReady ==
    r.t.state = "CONNECTED" =>
        /\ \E i \in 1..Len(made) :
              /\ made[i].inner = "handshake" /\ made[i].dir.key.label = "c hs"
              /\ \A p \in 1..Pieces : \E j \in 1..Len(sent) : sent[j] = <<i, p>>
        /\ r.t.keys /\ r.hs = NoHs
        /\ r.t.rd = [key |-> r.t.rd_secret, seq |-> 0]
        /\ r.t.wr = [key |-> r.t.wr_secret, seq |-> 0]

\* The bytes that leave are whole records in the order they were made: a record
\* is never cut short by the next one, never repeated and never overtaken
\* (ch_tcp_in refuses input while a record is staged, so fail() and the steps
\* find the staging array free).
WholeRecordsOut ==
    \A k \in 1..Len(sent) :
        sent[k] = << ((k - 1) \div Pieces) + 1, ((k - 1) % Pieces) + 1 >>

\* The private keys of the exchange live until the ServerHello is accepted, the
\* handshake secrets until the client Finished is made, and a session that
\* failed or was closed keeps no secret at all (INV-17).
SecretsDie ==
    /\ r.hs.kex # {} => r.step \in AwaitsHello
    /\ r.hs.s_hs # NoSecret => r.hs.kex = {} /\ r.hs.early = "zero"
    /\ r.step = "COMPLETE" => [r.hs EXCEPT !.alert = "none"] = NoHs
    /\ session_dead(r) =>
          /\ r.hs = NoHs /\ ~r.t.keys /\ r.t.buf = << >>
          /\ r.t.rd = NoDir /\ r.t.wr = NoDir
          /\ \A secret \in {r.t.rd_secret, r.t.wr_secret, r.t.res_master} : secret = NoSecret

\* The stored epoch moves only forward, only in the step that completes the
\* handshake, and only to the epoch of the certificate whose key signed it
\* (INV-21, within one session).
EpochNeedsProof ==
    [][store' # store =>
          /\ store' > store
          /\ r.step = "AWAIT_FINISHED" /\ r'.step = "COMPLETE"
          /\ \E i \in 1..Len(r'.t.transcript) :
                /\ r'.t.transcript[i].type = "certificate"
                /\ r'.t.transcript[i].epoch = store'
                /\ store' <= store + EpochBound]_vars

=============================================================================
