--------------------------- MODULE MCQuicEndpoint ---------------------------
(***************************************************************************)
(* The QUIC endpoint for TLC: clients of two builds and a server, and a    *)
(* peer that says the good message at every point, a few the code refuses, *)
(* and more than one message at a time.  The single faults of each message *)
(* are with the TCP endpoints, which run the same handlers.                *)
(***************************************************************************)
EXTENDS QuicEndpoint

Client(psk) ==
    [role |-> "client", trust |-> "webpki", quic |-> TRUE, quic_original_version |-> 1,
     valid |-> TRUE, psk |-> psk, suites |-> {"chacha", "aes128"}, require_pq |-> FALSE,
     asked |-> {"alpn"}, random |-> "r", sigalgs |-> {"ecdsa"}, alpn |-> {"h3"}, limit |-> 1,
     ticket |-> [psk |-> "p"], epochs |-> FALSE, load_fails |-> FALSE, stored |-> 1,
     ticket_stored |-> "whole", ticket_epoch |-> 1]

CaClient == [Client("none") EXCEPT !.trust = "ca", !.suites = {"chacha"}, !.epochs = TRUE]

Server ==
    [role |-> "server", quic |-> TRUE, quic_original_version |-> 1, valid |-> TRUE,
     suites |-> <<"aes128", "chacha">>, identities |-> {"ecdsa"}, alpn |-> <<"h3">>,
     require_server_name |-> FALSE, sni_buf |-> TRUE, ticket_key |-> TRUE, now |-> 4,
     constant_time_aes |-> TRUE, chain |-> 2, epoch |-> 1, stored |-> 1]

AllConfigs ==
    {Client("none"), Client("sha256"), CaClient, [CaClient EXCEPT !.load_fails = TRUE],
     Server, [Server EXCEPT !.valid = FALSE]}

ServerConfigs == {Server}

Other(type, size) == [type |-> type, size |-> size]

-----------------------------------------------------------------------------
(* What a server says *)

Hello(suite, psk, size) ==
    [type |-> "server_hello", size |-> size, malformed |-> FALSE, hrr |-> FALSE, suite |-> suite,
     group |-> "x25519", share_ok |-> TRUE, psk |-> psk, cookie |-> << >>]
Retry == [Hello("chacha", "none", 1) EXCEPT !.hrr = TRUE, !.group = "none", !.cookie = <<"k">>]

Extensions(exts) ==
    [type |-> "encrypted_extensions", size |-> 1, malformed |-> FALSE,
     exts |-> [i \in 1..Len(exts) |-> [ext |-> exts[i], body |-> "ok"]]]
Certificate(epoch) ==
    [type |-> "certificate", size |-> 2, malformed |-> "none", verdict |-> "none",
     epoch |-> epoch, epoch_ok |-> TRUE]
Verify(view) ==
    [type |-> "certificate_verify", size |-> 1, malformed |-> FALSE, scheme |-> "leaf",
     signer |-> "leaf", over |-> view]
NewTicket(fault) == [type |-> "new_session_ticket", size |-> 1, fault |-> fault]

FromServer(s, view) ==
    CASE s.step \in {"AWAIT_SERVER_HELLO", "AWAIT_RETRY_HELLO"} ->
             {Hello("aes128", "none", 1), Hello("chacha", "none", BufLen),
              Hello("chacha", "zero", 1), Retry}
      [] s.step = "AWAIT_ENCRYPTED_EXTENSIONS" ->
             {Extensions(<<"alpn", "transport_params">>), Extensions(<<"alpn">>)}
      [] s.step = "AWAIT_CERTIFICATE" -> {Certificate(1), Certificate(2)}
      [] s.step = "AWAIT_CERTIFICATE_VERIFY" -> {Verify(view), Verify(<< >>)}
      [] s.step = "AWAIT_FINISHED" ->
             {FinishedMessage("sha256", s.hs.s_hs, view), FinishedMessage("sha256", s.hs.s_hs, << >>)}
      [] OTHER -> {NewTicket(fault) : fault \in {"none", "syntax", "early_data"}}
                    \cup {Other("certificate_request", 1)}

-----------------------------------------------------------------------------
(* What a client says *)

Base ==
    [type |-> "client_hello", size |-> 1, malformed |-> "none", random |-> "r", sid |-> FALSE,
     suites |-> {"chacha", "aes128"}, groups |-> {"hybrid", "x25519"}, shares |-> {"hybrid"},
     bad |-> "none", cookie |-> << >>, early_data |-> FALSE, sni |-> TRUE, alpn |-> {"h3"},
     limit |-> 0, has |-> {"versions", "sigalgs", "groups", "key_share", "transport_params"},
     sigalgs |-> {"ecdsa"}, tickets |-> << >>, binders |-> << >>]

\* a ticket of the first QUIC version
Offer(view) ==
    LET head == [Base EXCEPT
            !.tickets = << [key |-> TRUE, auth |-> 3, suite |-> "chacha", alpn |-> "h3",
                            version |-> 1, psk |-> "p"] >>,
            !.has = @ \cup {"psk", "psk_modes"}]
    IN  [head EXCEPT !.binders = << [psk |-> "p", over |-> Append(view, head)] >>]

FromClient(s, view) ==
    CASE s.step = "AWAIT_CLIENT_HELLO" ->
             {Base, [Base EXCEPT !.size = BufLen, !.suites = {"chacha"}], Offer(view),
              [Base EXCEPT !.shares = {"x25519"}], [Base EXCEPT !.bad = "secret"],
              [Base EXCEPT !.has = @ \ {"transport_params"}]}
      [] s.step = "AWAIT_RETRY_HELLO" ->
             {[view[1].of[1] EXCEPT !.shares = {"hybrid"}, !.cookie = c] :
                 c \in {s.hs.cookie, << >>,
                        [i \in DOMAIN s.hs.cookie |-> [s.hs.cookie[i] EXCEPT !.group = "p521"]]}}
      [] s.step = "AWAIT_CLIENT_FINISHED" ->
             {FinishedMessage("sha256", s.hs.c_hs, view), FinishedMessage("sha256", s.hs.c_hs, << >>)}
      [] OTHER -> {}

-----------------------------------------------------------------------------
Messages(s, view) ==
    (IF s.t.cfg.role = "server" THEN FromClient(s, view) ELSE FromServer(s, view))
      \cup {Other("other", 1), Other("other", BufLen + 1), Other("other", MaxMsg + 1)}

\* the extensions and the certificate, or something out of place
Follows(s, view) ==
    {Other("other", 1), Other("key_update", 1)}
      \cup (IF s.step = "AWAIT_ENCRYPTED_EXTENSIONS" THEN {Certificate(1)} ELSE {})

=============================================================================
