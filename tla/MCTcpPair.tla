----------------------------- MODULE MCTcpPair -----------------------------
(***************************************************************************)
(* Client and server for TLC: configurations that agree, with and without  *)
(* a ticket, and a network that replaces hellos by others and any record   *)
(* by one that does not open.                                              *)
(***************************************************************************)
EXTENDS TcpPair

Ticket(auth) ==
    [key |-> TRUE, auth |-> auth, suite |-> "chacha", alpn |-> "h2", version |-> 0, psk |-> "p"]

ClientConfig(psk, suites, pq, auth) ==
    [trust |-> "webpki", quic |-> FALSE, valid |-> TRUE, psk |-> psk, suites |-> suites,
     require_pq |-> pq, asked |-> {"alpn"},
     random |-> "r", sigalgs |-> {"ecdsa"}, alpn |-> {"alpn"}, limit |-> 1,
     ticket |-> [Ticket(auth) EXCEPT !.alpn = "alpn"], epochs |-> FALSE, load_fails |-> FALSE,
     stored |-> 1, ticket_stored |-> "whole", ticket_epoch |-> 1]

Clients ==
    {ClientConfig("none", {"chacha", "aes256"}, FALSE, 0), ClientConfig("none", {"chacha"}, TRUE, 0),
     ClientConfig("sha256", {"chacha", "aes256"}, FALSE, 2),
     ClientConfig("sha256", {"chacha", "aes256"}, FALSE, 1)}

Servers ==
    {[valid |-> TRUE, suites |-> suites, identities |-> {"ecdsa"}, alpn |-> <<"alpn">>,
      require_server_name |-> FALSE, sni_buf |-> TRUE, ticket_key |-> TRUE, now |-> 4,
      quic |-> FALSE, constant_time_aes |-> TRUE, chain |-> 2, epoch |-> 1] :
        suites \in {<<"chacha", "aes256">>, <<"aes256", "chacha">>}}

\* another hello in a hello's place
OtherHellos(m) ==
    IF m.type = "client_hello"
    THEN {[m EXCEPT !.suites = @ \cap {"aes256"}], [m EXCEPT !.suites = @ \cap {"chacha"}],
          [m EXCEPT !.groups = {"x25519"}, !.shares = @ \cap {"x25519"}],
          [m EXCEPT !.groups = {"p256"}, !.shares = {}], [m EXCEPT !.shares = {}],
          [m EXCEPT !.alpn = {}], [m EXCEPT !.sid = TRUE],
          [m EXCEPT !.tickets = << >>, !.binders = << >>, !.has = @ \ {"psk"}]}
    ELSE IF m.type = "server_hello"
    THEN {[m EXCEPT !.suite = "aes256"], [m EXCEPT !.suite = "chacha"], [m EXCEPT !.group = "x25519"],
          [m EXCEPT !.psk = "none"], [m EXCEPT !.psk = "zero"],
          [m EXCEPT !.hrr = TRUE, !.group = "p256", !.psk = "none"]}
    ELSE {}

\* what takes a record's place: another hello, a record that does not open, one
\* that is dropped without a word, and an alert, which is never answered
Replaced(rec) ==
    {PlainRecord("appdata", << >>), CcsRecord,
     [PlainRecord("alert", << >>) EXCEPT !.alert = Alert("handshake_failure")]}
      \cup (IF rec.outer = "handshake" /\ Len(rec.cells) = 1
            THEN {PlainRecord("handshake", Cells(m)) : m \in OtherHellos(rec.cells[1].msg)} ELSE {})

=============================================================================
