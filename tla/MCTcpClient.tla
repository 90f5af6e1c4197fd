---------------------------- MODULE MCTcpClient ----------------------------
(***************************************************************************)
(* The non-blocking client for TLC: a handful of configurations, and a     *)
(* peer whose messages are the good ones at every point, each with every   *)
(* single fault the code tells apart.                                      *)
(***************************************************************************)
EXTENDS TcpClient

Config(psk, suites, pq) ==
    [trust |-> "webpki", quic |-> FALSE, valid |-> TRUE, psk |-> psk, suites |-> suites,
     require_pq |-> pq, asked |-> {"alpn"},
     random |-> "r", sigalgs |-> {"ecdsa"}, alpn |-> {"alpn"}, limit |-> 1,
     ticket |-> [psk |-> "p"], epochs |-> FALSE, load_fails |-> FALSE, stored |-> 1,
     ticket_stored |-> "whole", ticket_epoch |-> 1]

WebpkiConfigs ==
    {Config("none", {"chacha", "aes256"}, FALSE), Config("sha256", {"chacha", "aes256"}, FALSE),
     Config("none", {"chacha"}, TRUE)}

CaConfig(psk, load_fails, ticket_epoch) ==
    [Config(psk, {"chacha"}, FALSE) EXCEPT !.trust = "ca", !.asked = {}, !.epochs = TRUE,
        !.load_fails = load_fails, !.ticket_epoch = ticket_epoch]

CaConfigs ==
    {CaConfig("none", FALSE, 1), CaConfig("none", TRUE, 1), CaConfig("sha256", FALSE, 0),
     CaConfig("sha256", FALSE, 1), CaConfig("sha256", FALSE, 2),
     [CaConfig("sha256", FALSE, 1) EXCEPT !.ticket_stored = "none"],
     [CaConfig("sha256", FALSE, 1) EXCEPT !.ticket_stored = "corrupt"],
     [CaConfig("none", FALSE, 1) EXCEPT !.valid = FALSE]}

RawConfig == [Config("none", {"chacha"}, FALSE) EXCEPT !.trust = "raw", !.asked = {}]

AllConfigs == WebpkiConfigs \cup CaConfigs \cup {RawConfig}

\* the hello says which build the client is of
FromWebpki(view) ==
    LET hello == IF view[1].type = "message_hash" THEN view[1].of[1] ELSE view[1]
    IN  hello.sni

Hello(suite, group, psk) ==
    [type |-> "server_hello", size |-> 1, malformed |-> FALSE, hrr |-> FALSE, suite |-> suite,
     group |-> group, share_ok |-> TRUE, psk |-> psk, cookie |-> << >>]
Retry(suite, group, cookie) ==
    [Hello(suite, group, "none") EXCEPT !.hrr = TRUE, !.cookie = cookie]

Extensions(exts) ==
    [type |-> "encrypted_extensions", size |-> 1, malformed |-> FALSE, exts |-> exts]
Certificate(verdict, epoch, epoch_ok) ==
    [type |-> "certificate", size |-> 2, malformed |-> "none", verdict |-> verdict,
     epoch |-> epoch, epoch_ok |-> epoch_ok]
Verify(scheme, signer, over) ==
    [type |-> "certificate_verify", size |-> 1, malformed |-> FALSE, scheme |-> scheme,
     signer |-> signer, over |-> over]
Other(type, size) == [type |-> type, size |-> size]

Hellos ==
    {Hello("chacha", group, psk) : group \in {"hybrid", "x25519", "p256"},
                                   psk \in {"none", "zero"}}
      \cup {Hello("aes256", "x25519", "none"), Hello("aes256", "x25519", "zero"),
            Hello("aes128", "x25519", "none"), Hello("chacha", "none", "none"),
            Hello("chacha", "x25519", "other"),
            [Hello("chacha", "x25519", "none") EXCEPT !.malformed = TRUE],
            [Hello("chacha", "x25519", "none") EXCEPT !.share_ok = FALSE],
            [Hello("chacha", "x25519", "none") EXCEPT !.cookie = <<"k">>],
            Retry("chacha", "none", <<"k">>), Retry("chacha", "p256", << >>),
            Retry("aes256", "none", <<"k">>), Retry("chacha", "none", << >>),
            Retry("chacha", "x25519", <<"k">>)}

Ext(ext, body) == [ext |-> ext, body |-> body]

Certificates(view) ==
    IF ~FromWebpki(view)
    THEN {Certificate("none", e, TRUE) : e \in 0..3}
           \cup {Certificate("none", 1, FALSE), Certificate("bad_certificate", 1, TRUE)}
    ELSE {Certificate("none", 1, TRUE), Certificate("bad_certificate", 1, TRUE),
          [Certificate("none", 1, TRUE) EXCEPT !.malformed = "illegal_parameter"]}

ExtensionLists ==
    {<< >>, << Ext("alpn", "ok"), Ext("alpn", "ok") >>, << Ext("alpn", "foreign") >>,
     << Ext("other", "ok") >>}

Messages(view, key) ==
    IF key = NoSecret THEN Hellos \cup {Other("finished_early", 1), Other("other", BufLen + 1)}
    ELSE {Extensions(exts) : exts \in ExtensionLists}
         \cup Certificates(view)
         \cup {Verify(scheme, "leaf", view) : scheme \in {"leaf", "other", "unknown"}}
         \cup {Verify("leaf", "other", view), Verify("leaf", "leaf", << >>)}
         \cup {FinishedMessage(hash, key, view) : hash \in {"sha256", "sha384"}}
         \cup {FinishedMessage("sha256", key, << >>), Other("certificate_request", 1),
               Other("other", 1), Other("other", BufLen + 1), Other("other", MaxMsg + 1)}

\* a smaller peer, for questions that do not turn on the hellos
FewMessages(view, key) ==
    IF key = NoSecret THEN {Hello("chacha", "x25519", "none"), Retry("chacha", "none", <<"k">>)}
    ELSE {Extensions(<< >>), Certificate("none", 1, TRUE), Verify("leaf", "leaf", view),
          FinishedMessage("sha256", key, view)}

=============================================================================
