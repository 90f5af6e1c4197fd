------------------------------- MODULE Flight -------------------------------
(***************************************************************************)
(* The client's side of the TLS 1.3 handshake, message by message: the     *)
(* handlers of handshake_flight.c, handshake_auth.c and handshake_groups.c *)
(* that the blocking, the non-blocking and the QUIC driver all call.  The  *)
(* drivers differ in where bytes come from and in what a step may do next; *)
(* what one message does to a session is stated here once.  cfg.quic is    *)
(* TRUE in a TRANSPORT=quic-nonblocking build.                             *)
(***************************************************************************)
EXTENDS Handshake

CONSTANT EpochBound   \* CH_EPOCH_BOUND: how far ahead of the stored epoch a leaf may be

ASSUME EpochAssumption == EpochBound \in Nat

-----------------------------------------------------------------------------
(* What the build offers *)

\* cfg.h defines CH_KEX_TWO_GROUPS from CH_TRUST_WEBPKI.  cfg.trust is the
\* build's TRUST, "raw", "ca" or "webpki", kept with the configuration so that
\* one instance holds clients of several builds.
TwoGroups(cfg) == cfg.trust = "webpki"

\* the cipher suites and the groups the parsers of this build know
BuildSuites(cfg) ==
    IF cfg.trust = "webpki" THEN {"chacha", "aes128", "aes256"} ELSE {"chacha"}
BuildGroups(cfg) ==
    IF TwoGroups(cfg) THEN {"hybrid", "x25519", "p256"} ELSE {"x25519"}

PskOffered(h) == h.t.cfg.psk # "none"

-----------------------------------------------------------------------------
(* The ClientHello *)

\* the groups and the shares hs_build_client_hello writes; a retry that named
\* secp256r1 carries that share alone
HelloGroups(cfg) ==
    IF TwoGroups(cfg) /\ cfg.require_pq THEN {"hybrid"} ELSE BuildGroups(cfg)
HelloShares(h) ==
    IF h.hs.retry_group # "none" THEN {h.hs.retry_group}
                                 ELSE HelloGroups(h.t.cfg) \ {"p256"}

\* The hello with its binders left out, which is what a binder covers.  A webpki
\* client offers the certificate path beside a ticket, the others do not.
HelloHead(h) ==
    LET cfg    == h.t.cfg
        signed == ~PskOffered(h) \/ cfg.trust = "webpki"
    IN  [type |-> "client_hello", size |-> 1, malformed |-> "none", random |-> cfg.random,
         sid |-> FALSE, suites |-> cfg.suites, groups |-> HelloGroups(cfg),
         shares |-> HelloShares(h), bad |-> "none", cookie |-> h.hs.cookie,
         early_data |-> FALSE, sni |-> cfg.trust = "webpki",
         alpn |-> IF cfg.trust = "webpki" \/ cfg.quic THEN cfg.alpn ELSE {},
         limit |-> IF cfg.quic THEN 0 ELSE cfg.limit,
         has |-> {"versions", "groups", "key_share", "psk_modes"}
                    \cup (IF signed THEN {"sigalgs"} ELSE {})
                    \cup (IF PskOffered(h) THEN {"psk"} ELSE {})
                    \cup (IF cfg.quic THEN {"transport_params"} ELSE {}),
         sigalgs |-> IF signed THEN cfg.sigalgs ELSE {},
         tickets |-> IF PskOffered(h) THEN << cfg.ticket >> ELSE << >>, binders |-> << >>]

ClientHello(h) ==
    [HelloHead(h) EXCEPT
        !.binders = IF PskOffered(h)
                    THEN << [psk |-> h.t.cfg.ticket.psk,
                             over |-> Append(h.t.transcript, HelloHead(h))] >>
                    ELSE << >>]

hsf_begin(h) ==
    [h EXCEPT !.hs.kex = IF TwoGroups(h.t.cfg) THEN {"x25519", "mlkem"} ELSE {"x25519"},
              !.hs.early = IF PskOffered(h) THEN "psk" ELSE "zero",
              !.t.transcript = << >>]

\* hsf_build_client_hello adds the hello it wrote to the transcript.  The hello
\* always fits: no configuration that passes tlsi_config_ok makes one that does not.
hsf_build_client_hello(h) == Hear(h, ClientHello(h))

-----------------------------------------------------------------------------
(* The ServerHello and the HelloRetryRequest *)

\* m.group is the share's group in a ServerHello and the named group in a
\* HelloRetryRequest; m.malformed stands for the framing, version, session id,
\* duplicate and unknown extension refusals, which all have one answer
hsp_parse_server_hello(cfg, m) ==
    /\ ~m.malformed
    /\ m.suite \in BuildSuites(cfg)
    /\ m.psk # "none" => cfg.psk # "none" /\ ~m.hrr
    /\ m.cookie # << >> => m.hrr
    /\ m.group \in {"none"} \cup
           (IF m.hrr THEN (IF TwoGroups(cfg) THEN {"p256"} ELSE {}) ELSE BuildGroups(cfg))

take_suite(h, m) ==
    /\ m.suite \in h.t.cfg.suites
    /\ m.hrr \/ h.hs.suite \in {"none", m.suite}

\* hsg_take_retry's conditions with TwoGroups, the cookie rule without
RetryAllowed(h, m) ==
    IF m.group = "none" THEN m.cookie # << >>
                        ELSE TwoGroups(h.t.cfg) /\ ~h.t.cfg.require_pq

take_retry(h, m) ==
    [h EXCEPT !.hs.cookie = m.cookie,
              !.hs.retry_group = IF m.group = "none" THEN @ ELSE m.group,
              !.hs.kex = IF m.group = "none" THEN @ ELSE {"p256"}]

hsf_read_server_hello(h, m) ==
    IF m.type # "server_hello" THEN No(h, "unexpected_message")
    ELSE IF ~hsp_parse_server_hello(h.t.cfg, m) \/ ~take_suite(h, m)
    THEN No(h, "illegal_parameter")
    ELSE LET named == [h EXCEPT !.hs.suite = m.suite] IN
         IF ~m.hrr THEN Ok(Hear(named, m))
         ELSE LET again == restart_transcript(named, m) IN
              IF RetryAllowed(h, m) THEN Ok(take_retry(again, m))
                                    ELSE No(again, "illegal_parameter")

\* hsg_selected_group_ok: the retry's group after a retry that named one, a
\* group the hello sent a share for otherwise
selected_group_ok(h, group) ==
    ~TwoGroups(h.t.cfg) \/ (IF h.hs.retry_group # "none" THEN group = h.hs.retry_group
                                                ELSE group # "p256")

\* a webpki hello offered the certificate path beside the ticket, and goes on
\* under the early secret of no PSK
decline_psk(h) == [h EXCEPT !.hs.early = "nopsk"]

hsf_accept_server_hello(h, m) ==
    LET g    == [h EXCEPT !.t.group = m.group, !.t.suite = m.suite]
        took == PskOffered(h) /\ m.psk = "zero"
        left == PskOffered(h) /\ m.psk # "zero"
    IN  IF m.group = "none" THEN No(g, "handshake_failure")
        ELSE IF ~selected_group_ok(h, m.group) THEN No(g, "illegal_parameter")
        ELSE IF left /\ h.t.cfg.trust # "webpki" THEN No(g, "handshake_failure")
        ELSE IF left /\ m.psk # "none" THEN No(g, "illegal_parameter")
        ELSE LET d == IF ~PskOffered(h) THEN [g EXCEPT !.hs.early = "nopsk"]
                      ELSE IF left THEN decline_psk(g) ELSE g IN
             IF took /\ h.t.cfg.psk # HashOf(m.suite) THEN No(d, "illegal_parameter")
             ELSE LET s == [d EXCEPT !.t.psk_selected = took] IN
                  IF TwoGroups(h.t.cfg) /\ h.t.cfg.require_pq /\ m.group # "hybrid"
                  THEN No(s, "illegal_parameter")
                  ELSE Ok(s)

\* the private keys and the early secret die here on both exits; an all-zero or
\* off-curve share is the one way to fail
hsf_derive_handshake_secrets(h, m) ==
    LET spent == [h EXCEPT !.hs.kex = {}, !.hs.early = "zero"]
    IN  IF ~m.share_ok THEN No(spent, "illegal_parameter")
        ELSE Ok([spent EXCEPT !.hs.handshake_secret = Secret(h, "hs"),
                              !.hs.c_hs = Secret(h, "c hs"),
                              !.hs.s_hs = Secret(h, "s hs")])

-----------------------------------------------------------------------------
(* EncryptedExtensions *)

\* An extension is [ext, body]: "ok", "long" for a body of the wrong length or
\* structure, "foreign" for a well-formed value the hello did not offer.  The
\* refusal of one extension, or "none" when the parser admits it.
ExtensionAlert(cfg, e) ==
    CASE e.ext = "supported_groups" -> "none"
      [] e.ext = "record_size_limit" /\ e.body = "ok" -> "none"
      [] e.ext = "record_size_limit" /\ e.body # "ok" -> "illegal_parameter"
      [] e.ext = "transport_params" /\ cfg.quic -> "none"
      [] e.ext \in cfg.asked /\ e.body = "ok" -> "none"
      [] e.ext \in cfg.asked /\ e.body = "long" -> "decode_error"
      [] e.ext \in cfg.asked /\ e.body = "foreign" ->
             IF e.ext = "server_name" THEN "decode_error"
             ELSE IF e.ext = "alpn" /\ cfg.quic THEN "no_application_protocol"
             ELSE "illegal_parameter"
      [] OTHER -> "unsupported_extension"

Carries(exts, ext) == \E i \in 1..Len(exts) : exts[i].ext = ext

\* the first extension that is refused, or that repeats an earlier one, decides;
\* QUIC asks for the transport parameters at the end
hsp_parse_encrypted_exts(cfg, exts) ==
    LET Repeats(i) == \E j \in 1..(i - 1) : exts[j].ext = exts[i].ext
        AlertAt(i) == IF ExtensionAlert(cfg, exts[i]) # "none"
                      THEN ExtensionAlert(cfg, exts[i])
                      ELSE IF Repeats(i) THEN "illegal_parameter" ELSE "none"
        refused    == {i \in 1..Len(exts) : AlertAt(i) # "none"}
    IN  IF refused = {}
        THEN IF cfg.quic /\ ~Carries(exts, "transport_params") THEN "missing_extension" ELSE "none"
        ELSE AlertAt(CHOOSE i \in refused : \A j \in refused : i <= j)

hsf_read_encrypted_extensions(h, m) ==
    IF m.type # "encrypted_extensions" THEN No(h, "unexpected_message")
    ELSE IF m.malformed THEN No(h, "illegal_parameter")
    ELSE LET alert == hsp_parse_encrypted_exts(h.t.cfg, m.exts) IN
         IF alert # "none" THEN No(h, alert)
         ELSE IF h.t.cfg.quic /\ ~Carries(m.exts, "alpn") THEN No(h, "no_application_protocol")
         ELSE Ok(Hear([h EXCEPT !.hs.alert = "illegal_parameter",
                                !.t.alpn_selected =
                                    IF Carries(m.exts, "alpn") THEN "alpn" ELSE @], m))

-----------------------------------------------------------------------------
(* Certificate, CertificateVerify and Finished *)

\* epoch_check's verdict on a leaf: the status it records and the alert of a refusal
EpochStatus(h, leaf) ==
    IF ~leaf.epoch_ok \/ leaf.epoch > h.t.epoch + EpochBound THEN "UNTRUSTED"
    ELSE IF leaf.epoch < h.t.epoch THEN "REVOKED"
    ELSE IF leaf.epoch > h.t.epoch THEN "AHEAD" ELSE "MATCHED"

EpochChecked(h) == h.t.cfg.trust = "ca" /\ h.t.cfg.epochs

epoch_check(h) ==
    IF ~EpochChecked(h) THEN Ok(h)
    ELSE LET leaf   == h.hs.leaf
             status == EpochStatus(h, leaf)
             seen   == [h EXCEPT !.t.epoch_seen = IF leaf.epoch_ok THEN leaf.epoch ELSE 0,
                                 !.t.epoch_status = status]
         IN  CASE status = "UNTRUSTED" -> No(seen, "bad_certificate")
               [] status = "REVOKED"   -> No(seen, "certificate_revoked")
               [] OTHER                -> Ok(seen)

\* m.malformed is "none" or the alert of hsp_parse_certificate; m.verdict is
\* "none" or the alert of the trust mode's verifier (external to this module); an
\* epoch is ok when the leaf carries one and it decodes to a number
hsa_server_auth(h, m) ==
    IF m.type = "certificate_request" THEN No(h, "handshake_failure")
    ELSE IF m.type # "certificate" THEN No(h, "unexpected_message")
    ELSE IF m.malformed # "none" THEN No(h, m.malformed)
    ELSE IF h.t.cfg.trust # "raw" /\ m.verdict # "none" THEN No(h, m.verdict)
    ELSE LET filled == [h EXCEPT
                 !.hs.alert = IF h.t.cfg.trust = "raw" THEN "decode_error" ELSE "bad_certificate",
                 !.hs.leaf = IF h.t.cfg.trust = "raw" THEN @
                             ELSE [set |-> TRUE, epoch |-> m.epoch,
                                   epoch_ok |-> m.epoch_ok /\ m.epoch \in Nat]]
             judged == epoch_check(filled)
         IN  IF judged.ok THEN Ok(Hear(judged.h, m)) ELSE judged

\* m.scheme is "leaf" (the trusted key's scheme), "other" (a scheme the build
\* knows that the leaf cannot produce) or "unknown"
hsa_read_certificate_verify(h, m) ==
    IF m.type # "certificate_verify" THEN No(h, "unexpected_message")
    ELSE IF m.scheme = "unknown" \/ (m.scheme = "other" /\ h.t.cfg.trust # "webpki")
    THEN No(h, "handshake_failure")
    ELSE IF m.malformed THEN No(h, "decode_error")
    ELSE IF m.scheme = "other" THEN No(h, "illegal_parameter")
    ELSE IF ~(m.signer = "leaf" /\ m.over = h.t.transcript) THEN No(h, "decrypt_error")
    ELSE Ok(Hear([h EXCEPT !.hs.alert = "decode_error"], m))

FinishedVerifies(h, m) == m.key = h.hs.s_hs /\ m.over = h.t.transcript

hsf_read_finished(h, m) ==
    IF m.type \in {"certificate", "certificate_request"} THEN No(h, "handshake_failure")
    ELSE IF m.type # "finished" \/ m.hash # HashOf(h.hs.suite)
    THEN No(h, "unexpected_message")
    ELSE IF ~FinishedVerifies(h, m) THEN No(h, "decrypt_error")
    ELSE Ok(Hear([h EXCEPT !.hs.server_finished_ok = TRUE], m))

\* the epoch a verified server's leaf raises the store to; no leaf, no raise
EpochRaised(h) ==
    EpochChecked(h) /\ h.hs.leaf.epoch_ok /\ h.hs.leaf.epoch > h.t.epoch

\* hsa_epoch_commit's write to the session; failed is what the store answered
hsa_epoch_commit(h, failed) ==
    IF ~EpochRaised(h) THEN h
    ELSE [h EXCEPT !.t.epoch = h.hs.leaf.epoch, !.t.epoch_store_failed = failed]

ClientFinished(h) ==
    FinishedMessage(HashOf(h.hs.suite), h.hs.c_hs, h.t.transcript)

\* the application secrets cover the server Finished, the resumption master the
\* client's too
hsf_complete(h) ==
    LET keyed == [h EXCEPT !.t.wr_secret = Derived(h, "c ap"),
                           !.t.rd_secret = Derived(h, "s ap")]
        heard == Hear(keyed, ClientFinished(h))
    IN  [heard EXCEPT !.t.res_master = Derived(heard, "res")]

-----------------------------------------------------------------------------
(* The epoch a session starts from *)

\* tlsi_epoch_init on the stored epoch: the session's epoch fields, and whether
\* it accepts the configuration.  A PSK need not come from a ticket, and a stored
\* ticket whose epoch is above CH_EPOCH_MAX is corrupt.
EpochInit(h, stored) ==
    LET cfg    == h.t.cfg
        loaded == [h EXCEPT !.t.epoch = stored]
        ticket == [loaded EXCEPT !.t.epoch_seen = cfg.ticket_epoch]
    IN  IF ~EpochChecked(h) THEN Ok(h)
        ELSE IF cfg.load_fails THEN [ok |-> FALSE, h |-> h]
        ELSE IF cfg.psk = "none" \/ cfg.ticket_stored = "none" THEN Ok(loaded)
        ELSE IF cfg.ticket_stored = "corrupt" THEN [ok |-> FALSE, h |-> loaded]
        ELSE IF cfg.ticket_epoch < stored
        THEN [ok |-> FALSE, h |-> [ticket EXCEPT !.t.epoch_status = "REVOKED"]]
        ELSE Ok([ticket EXCEPT !.t.epoch_status =
                     IF cfg.ticket_epoch > stored THEN "AHEAD" ELSE "MATCHED"])

-----------------------------------------------------------------------------
(* The flights a client may complete on *)

Prefix(tr, n) == SubSeq(tr, 1, n)

\* The transcripts RFC 9846 lets a client of this build finish on, written from
\* the message flow and not from the steps.  at is the ServerHello's place.
LegalHellos(cfg, tr, at) ==
    LET ch == tr[at - 1]
        sh == tr[at]
    IN  /\ ch.type = "client_hello" /\ sh.type = "server_hello" /\ ~sh.hrr
        /\ sh.suite \in ch.suites /\ sh.group \in ch.shares /\ sh.share_ok
        /\ sh.psk # "none" => ch.tickets # << >> /\ cfg.psk = HashOf(sh.suite)
        /\ at = 2 \/ (/\ at = 4
                      /\ tr[1].type = "message_hash" /\ Len(tr[1].of) = 1
                      /\ tr[2].type = "server_hello" /\ tr[2].hrr
                      /\ tr[2].suite = sh.suite
                      /\ ch.cookie = tr[2].cookie
                      /\ tr[2].group # "none" => ch.shares = {tr[2].group}
                      /\ tr[2].group \notin tr[1].of[1].shares)

\* the server's Finished is the n-th message, and its key was derived at `at`
LegalFinished(tr, n, at, psk) ==
    LET key == tr[n].key IN
    /\ tr[n].type = "finished" /\ tr[n].over = Prefix(tr, n - 1)
    /\ key.label = "s hs" /\ key.over = Prefix(tr, at) /\ key.group = tr[at].group
    /\ key.early = IF psk THEN "psk" ELSE "nopsk"

\* verified, of an epoch the store allows, and its key signed what was heard so far
LegalCertificate(h, tr, n) ==
    /\ tr[n].type = "certificate" /\ (h.t.cfg.trust # "raw" => tr[n].verdict = "none")
    /\ EpochChecked(h) => /\ tr[n].epoch_ok
                          /\ tr[n].epoch \in h.t.cfg.stored..(h.t.cfg.stored + EpochBound)
    /\ tr[n + 1].type = "certificate_verify"
    /\ tr[n + 1].signer = "leaf" /\ tr[n + 1].over = Prefix(tr, n)

LegalFlight(h) ==
    LET cfg == h.t.cfg
        tr  == h.t.transcript
    IN
    \E at \in {2, 4} :
       /\ at <= Len(tr) /\ tr[at].type = "server_hello" /\ ~tr[at].hrr
       /\ LET psk == tr[at].psk = "zero"
              fin == IF psk THEN at + 2 ELSE at + 4
          IN
           /\ Len(tr) = fin + 1
           /\ LegalHellos(cfg, tr, at)
           /\ tr[at + 1].type = "encrypted_extensions"
           /\ ~psk => LegalCertificate(h, tr, at + 2)
           /\ LegalFinished(tr, fin, at, psk)
           /\ tr[fin + 1].type = "finished" /\ tr[fin + 1].key.label = "c hs"

=============================================================================
