---------------------------- MODULE MCTcpServer ----------------------------
(***************************************************************************)
(* The non-blocking server for TLC: a few configurations, and a client     *)
(* whose messages are the good ones at every point, each with every single *)
(* fault the code tells apart.                                             *)
(***************************************************************************)
EXTENDS TcpServer

Config(alpn, ticket_key, now) ==
    [valid |-> TRUE, suites |-> <<"chacha", "aes256">>, identities |-> {"ecdsa"}, alpn |-> alpn,
     require_server_name |-> FALSE, sni_buf |-> TRUE, ticket_key |-> ticket_key, now |-> now,
     quic |-> FALSE, constant_time_aes |-> TRUE, chain |-> 2, epoch |-> 1]

\* with tickets and a protocol, at an instant past one lifetime; and with neither
FullConfigs ==
    {Config(<<"h2">>, TRUE, 4), [Config(<< >>, FALSE, 0) EXCEPT !.require_server_name = TRUE],
     [Config(<< >>, FALSE, 0) EXCEPT !.valid = FALSE]}
Base ==
    [type |-> "client_hello", size |-> 2, malformed |-> "none", random |-> "r", sid |-> TRUE,
     suites |-> {"chacha", "aes256"}, groups |-> {"hybrid", "x25519"}, shares |-> {"hybrid"},
     bad |-> "none", cookie |-> << >>, early_data |-> FALSE, sni |-> TRUE, alpn |-> {"h2"},
     limit |-> 1, has |-> {"versions", "sigalgs", "groups", "key_share"}, sigalgs |-> {"ecdsa"},
     tickets |-> << >>, binders |-> << >>]

\* a hello that offers tickets, each with a binder that is good or not
Ticket(auth) ==
    [key |-> TRUE, auth |-> auth, suite |-> "chacha", alpn |-> "h2", version |-> 0, psk |-> "p"]
Offer(view, m, tickets, good) ==
    LET head == [m EXCEPT !.tickets = tickets, !.has = @ \cup {"psk", "psk_modes"}]
    IN  [head EXCEPT !.binders =
            [i \in 1..Len(tickets) |-> [psk |-> IF good THEN "p" ELSE "q", over |-> Append(view, head)]]]

BadTickets ==
    {Ticket(1), Ticket(5), [Ticket(3) EXCEPT !.key = FALSE], [Ticket(3) EXCEPT !.suite = "aes256"],
     [Ticket(3) EXCEPT !.alpn = "none"]}

\* one step from the base hello
Hellos(m) ==
    {m, [m EXCEPT !.malformed = "decode_error"], [m EXCEPT !.has = @ \ {"versions"}],
     [m EXCEPT !.has = @ \ {"key_share"}], [m EXCEPT !.shares = {"p256"}],
     [m EXCEPT !.bad = "key"], [m EXCEPT !.bad = "secret"], [m EXCEPT !.suites = {"aes256"}],
     [m EXCEPT !.suites = {"aes128"}], [m EXCEPT !.sigalgs = {"rsa"}], [m EXCEPT !.alpn = {"h3"}],
     [m EXCEPT !.alpn = {}], [m EXCEPT !.sni = FALSE], [m EXCEPT !.sid = FALSE],
     [m EXCEPT !.groups = {"p521"}, !.shares = {}]}

Offers(view, m) ==
    {Offer(view, m, << Ticket(2) >>, TRUE), Offer(view, m, << Ticket(4) >>, FALSE),
     Offer(view, [m EXCEPT !.sigalgs = {}, !.has = @ \ {"sigalgs"}], << Ticket(3) >>, TRUE),
     [Offer(view, m, << Ticket(4) >>, TRUE) EXCEPT !.has = @ \ {"psk_modes"}]}
      \cup {Offer(view, m, << t, Ticket(4) >>, TRUE) : t \in BadTickets}
      \cup {Offer(view, [m EXCEPT !.sigalgs = {"rsa"}], << t >>, TRUE) : t \in BadTickets}

Firsts(view) == Hellos(Base) \cup {[Base EXCEPT !.size = BufLen], [Base EXCEPT !.shares = {}], [Base EXCEPT !.shares = {"x25519"}]}
                  \cup Offers(view, Base)
                  \cup {Offer(view, [Base EXCEPT !.shares = {"x25519"}], << Ticket(4) >>, TRUE)}

\* the second hello of the client whose first one the server remembers as a hash;
\* one of them offers the tickets of the first with the binders made over the first
Seconds(view, cookie) ==
    LET first == view[1].of[1]
        again(c) == [first EXCEPT !.shares = {"hybrid"}, !.cookie = c,
                        !.tickets = << >>, !.binders = << >>, !.has = @ \ {"psk", "psk_modes"}]
        good == again(cookie)
        replayed == [Offer(view, good, first.tickets, TRUE) EXCEPT !.binders = first.binders]
    IN  Hellos(good) \cup Offers(view, good)
          \cup {m \in {replayed} : m.tickets # << >>}
          \cup {again(<< >>), [good EXCEPT !.early_data = TRUE], [good EXCEPT !.random = "r2"],
                [good EXCEPT !.shares = {"x25519"}], [good EXCEPT !.groups = {"x25519"}],
                again(<< [cookie[1] EXCEPT !.key = FALSE] >>),
                again(<< [cookie[1] EXCEPT !.frozen.random = "r2"] >>)}

Other(type, size) == [type |-> type, size |-> size]

Messages(view, key, cookie) ==
    IF key # NoSecret
    THEN {FinishedMessage(hash, key, view) : hash \in {"sha256", "sha384"}}
         \cup {FinishedMessage("sha256", key, << >>), FinishedMessage("sha256", NoSecret, view),
               Other("other", 1), Other("other", BufLen + 1)}
    ELSE IF view = << >> THEN Firsts(view) \cup {Other("other", 1), Other("other", MaxMsg + 1)}
    ELSE IF cookie # << >> /\ Len(view) = 2 THEN Seconds(view, cookie)
    ELSE {Other("other", 1)}

=============================================================================
