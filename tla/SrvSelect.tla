----------------------------- MODULE SrvSelect -----------------------------
(***************************************************************************)
(* What a server decides from a ClientHello, with no output of its own:    *)
(* the parser's verdict, the selection of suite, group, signature scheme   *)
(* and protocol, the stateless cookie of a HelloRetryRequest, and the      *)
(* ticket it may resume (srv_parser.c, srv_parser_ext.c, srv_kex.c,        *)
(* srv_auth.c, srv_cookie.c, srv_ticket.c, srv_resume.c and the deciding   *)
(* half of srv_flight.c).                                                  *)
(*                                                                         *)
(* A ClientHello m is what the parser tells apart.  m.has is the set of    *)
(* extensions it saw; m.malformed is the alert of a framing refusal;       *)
(* m.bad is the share that key agreement will refuse: "key" for one        *)
(* srv_kex_share rejects, "secret" for one only srv_kex_secret does.       *)
(* A cookie or a ticket is [key, ...]: its contents, and whether it was    *)
(* sealed under this server's key, without which it does not open.         *)
(***************************************************************************)
EXTENDS Handshake

CONSTANT TicketLifetime   \* SRV_TICKET_LIFETIME

ASSUME LifetimeAssumption == TicketLifetime \in Nat \ {0}

\* Mutant: the last of order that was offered
FirstOffered_Last(order, offered) ==
    LET hits == {i \in 1..Len(order) : order[i] \in offered}
    IN  IF hits = {} THEN "none" ELSE order[CHOOSE i \in hits : \A j \in hits : i >= j]

\* the first of order that was offered, or "none"
FirstOffered(order, offered) ==
    LET hits == {i \in 1..Len(order) : order[i] \in offered}
    IN  IF hits = {} THEN "none" ELSE order[CHOOSE i \in hits : \A j \in hits : i <= j]

-----------------------------------------------------------------------------
(* The parser *)

\* check_required, in its order
check_required(m) ==
    CASE "versions" \notin m.has -> "protocol_version"
      [] "psk" \in m.has /\ "psk_modes" \notin m.has -> "illegal_parameter"
      [] "psk" \notin m.has /\ ~({"sigalgs", "groups"} \subseteq m.has) -> "missing_extension"
      [] ("groups" \in m.has) # ("key_share" \in m.has) -> "missing_extension"
      [] ~(m.shares \subseteq m.groups) -> "illegal_parameter"
      [] OTHER -> "none"

srv_parse_client_hello(m) == IF m.malformed # "none" THEN m.malformed ELSE check_required(m)

\* Mutant: the digest leaves out the head and the lists of algorithms
Frozen_Loose(m) ==
    [m EXCEPT !.shares = {}, !.bad = "none", !.early_data = FALSE, !.cookie = << >>,
              !.tickets = << >>, !.binders = << >>, !.suites = {}, !.sigalgs = {}, !.alpn = {},
              !.has = @ \ {"key_share", "psk"}]

\* The frozen digest: all of a hello but the five extensions a second hello may
\* change.  Padding is not modelled, so four are left out here.
Frozen(m) ==
    [m EXCEPT !.shares = {}, !.bad = "none", !.early_data = FALSE, !.cookie = << >>,
              !.tickets = << >>, !.binders = << >>, !.has = @ \ {"key_share", "psk"}]

-----------------------------------------------------------------------------
(* The selection *)

NoSelection == [suite |-> "none", group |-> "none", sigalg |-> "none", need_retry |-> FALSE,
                psk_selected |-> FALSE, index |-> 0]

GroupOrder  == <<"mlkem1024", "hybrid", "x25519", "p256">>
SigalgOrder == <<"mldsa87", "ecdsa", "rsa">>

srv_kex_group(m)          == FirstOffered(GroupOrder, m.groups)
srv_kex_shared(m, group)  == group \in m.shares
srv_select_sigalg(cfg, m) == FirstOffered(SigalgOrder, m.sigalgs \cap cfg.identities)
alpn_selected(cfg, m)     == FirstOffered(cfg.alpn, m.alpn)

\* the client asked for protocols, the caller offers some, and none is on both lists
alpn_mismatch(cfg, m) == cfg.alpn # << >> /\ m.alpn # {} /\ alpn_selected(cfg, m) = "none"

-----------------------------------------------------------------------------
(* Tickets *)

\* a key to open tickets with, and a clock to date them by
tickets_on(cfg)   == cfg.ticket_key /\ cfg.now # 0
ticket_offered(m) == "psk" \in m.has /\ "psk_modes" \in m.has

\* Mutant: a ticket has no last instant
ticket_fresh_Always(auth, now) == now >= auth

ticket_fresh(auth, now) == now >= auth /\ now - auth <= TicketLifetime

\* the QUIC version a ticket is bound to, 0 over TCP
session_quic_version(h) == h.t.quic_negotiated_version

\* the ticket opens under the ticket key, and may resume what was selected
ticket_holds(ticket, h, m, sel) ==
    /\ ticket.key
    /\ ticket_fresh(ticket.auth, h.t.cfg.now)
    /\ HashOf(ticket.suite) = HashOf(sel.suite)
    /\ ticket.alpn = alpn_selected(h.t.cfg, m)
    /\ ticket.version = session_quic_version(h)

\* find_ticket: the first identity that holds, 0 when none does
find_ticket(h, m, sel) ==
    LET held == {i \in 1..Len(m.tickets) : ticket_holds(m.tickets[i], h, m, sel)}
    IN  IF held = {} THEN 0 ELSE CHOOSE i \in held : \A j \in held : i <= j

\* The binder at that place was made with the ticket's key over the hello it is
\* in, which srv_read_client_hello has added to the transcript already.
Front(tr) == SubSeq(tr, 1, Len(tr) - 1)
binder_matches(h, m, i) ==
    /\ i <= Len(m.binders)
    /\ m.binders[i] = [psk |-> m.tickets[i].psk,
                       over |-> Append(Front(h.t.transcript), [m EXCEPT !.binders = << >>])]

\* srv_select_auth with its answer: [ok, h, sel].  A ticket leaves its early
\* secret in h.hs.early and takes the place of a signature scheme.
srv_select_auth(h, m, sel) ==
    LET cfg == h.t.cfg
        i   == IF tickets_on(cfg) /\ ticket_offered(m) THEN find_ticket(h, m, sel) ELSE 0
        Answer(res, s) == [ok |-> res.ok, h |-> res.h, sel |-> s]
    IN  IF i # 0 /\ ~binder_matches(h, m, i) THEN Answer(No(h, "decrypt_error"), sel)
        ELSE IF i # 0
        THEN Answer(Ok([h EXCEPT !.hs.early = "psk", !.hs.ticket_auth = m.tickets[i].auth]),
                    [sel EXCEPT !.psk_selected = TRUE, !.sigalg = "none", !.index = i])
        ELSE IF sel.sigalg # "none" THEN Answer(Ok(h), sel)
        ELSE Answer(No(h, IF "sigalgs" \in m.has THEN "handshake_failure"
                                                 ELSE "missing_extension"), sel)

\* Mutant: a resumption counts as an authentication
AuthSeconds_Now(psk_selected, ticket_auth, now) == now

\* the instant the holder of the ticket to come was last authenticated by
\* certificate; a resumption proves nothing new
AuthSeconds(psk_selected, ticket_auth, now) == IF psk_selected THEN ticket_auth ELSE now

\* what is left of the lifetime, which the ticket tells its client; no ticket is
\* sent when nothing is
LifetimeLeft(auth, now) ==
    IF now - auth >= TicketLifetime THEN 0 ELSE TicketLifetime - (now - auth)

=============================================================================
