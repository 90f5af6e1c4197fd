-------------------------- MODULE TcpServerProofs --------------------------
(***************************************************************************)
(* Proofs about TcpServer, for every set of configurations, every client   *)
(* and every sink.                                                         *)
(*                                                                         *)
(* IInv says for each step of the machine what the session holds: before   *)
(* the answer, that nothing was sealed and that the cookie is the one of   *)
(* the retry in the transcript (AwaitsHello); after the flight, that the   *)
(* transcript is a legal flight and which keys are over it                 *)
(* (AwaitsFinished); at the end, that the client's Finished closed it      *)
(* (Proved).  Cells still to be read are of messages a client may say.     *)
(*                                                                         *)
(* Each handler has a lemma: the fields it may change, what it proved when *)
(* it answered CH_OK, and that a refusal leaves a session whose sink       *)
(* refused at most the last record (Spoilt).  Flies strings those of the   *)
(* flight together, FlightIsLegal reads the transcript it leaves, and one  *)
(* lemma for each action shows that the action keeps IInv and changes the  *)
(* read key at the end of a record only (Keeps).                           *)
(***************************************************************************)
EXTENDS TcpServer, WellFoundedInduction, TLAPS

-----------------------------------------------------------------------------
(* The shape of a session: its fields, whatever they hold *)

TlsFields ==
    {"cfg", "state", "keys", "rd", "wr", "rd_secret", "wr_secret", "res_master",
     "transcript", "suite", "group", "sigalg", "psk_selected", "alpn_selected", "sni",
     "hrr_sent", "peer_limit", "alert_sent", "alert_received", "epoch", "epoch_seen",
     "epoch_status", "epoch_store_failed", "quic_negotiated_version", "buf"}

HsFields ==
    {"alert", "kex", "early", "cookie", "retry_group", "suite", "handshake_secret",
     "c_hs", "s_hs", "master", "server_finished_ok", "encrypted", "leaf", "ticket_auth",
     "level"}

IsSession(h) ==
    /\ DOMAIN h = {"t", "hs", "step", "made", "room"}
    /\ DOMAIN h.t = TlsFields
    /\ DOMAIN h.hs = HsFields

\* two sessions that differ at most in the fields named and in what was pushed
SameBut(h, g, tls, hs) ==
    /\ \A f \in TlsFields \ tls : g.t[f] = h.t[f]
    /\ \A f \in HsFields \ hs : g.hs[f] = h.hs[f]
    /\ g.step = h.step

\* nothing was pushed in between
SamePushed(h, g) == g.made = h.made /\ g.room = h.room

\* a sequence, whatever its elements
IsSeq(s) == \E S : s \in Seq(S)

\* the sink took every record; or every one but the last
AllTaken(made) == IsSeq(made) /\ \A i \in 1..Len(made) : made[i].taken
LastRefused(made) == IsSeq(made) /\ \A i \in 1..Len(made) : ~made[i].taken => i = Len(made)

\* a direction before the application key, and records sealed under none but such
NotApp(dir) == dir.key.label # "s ap"
BeforeApp(made) == \A i \in 1..Len(made) : NotApp(made[i].rec.dir)

\* a session whose handlers may push
Open(h) == IsSession(h) /\ h.room \in Nat /\ AllTaken(h.made)

\* one that seals handshake records, or none yet
Flying(h) ==
    /\ Open(h) /\ BeforeApp(h.made)
    /\ DOMAIN h.t.wr = {"key", "seq"} /\ NotApp(h.t.wr)
    /\ h.t.cfg.quic = FALSE /\ h.t.cfg.chain \in Nat /\ h.t.peer_limit \in Nat \ {0}

\* one that a handler refused
Spoilt(h) == IsSession(h) /\ LastRefused(h.made)

-----------------------------------------------------------------------------
(* Sequences and shapes *)

\* A message heard is the last of the transcript, and what was heard stays.
LEMMA Heard ==
    ASSUME NEW tr, IsSeq(tr), NEW m
    PROVE  /\ IsSeq(Append(tr, m)) /\ Len(tr) \in Nat
           /\ Len(Append(tr, m)) = Len(tr) + 1
           /\ Append(tr, m)[Len(tr) + 1] = m
           /\ \A i \in 1..Len(tr) : Append(tr, m)[i] = tr[i]
<1>1. PICK S : tr \in Seq(S)
  BY DEF IsSeq
<1>2. tr \in Seq(S \cup {m})
  BY <1>1
<1>3. Append(tr, m) \in Seq(S \cup {m})
  BY <1>2
<1> QED BY <1>2, <1>3 DEF IsSeq

\* A prefix of the transcript is the same after a message more, and all that was
\* heard before a message is the prefix it covers.
LEMMA HeardPrefix ==
    ASSUME NEW tr, IsSeq(tr), NEW m
    PROVE  /\ \A n \in 0..Len(tr) : SubSeq(Append(tr, m), 1, n) = SubSeq(tr, 1, n)
           /\ SubSeq(tr, 1, Len(tr)) = tr /\ Front(Append(tr, m)) = tr
<1>1. PICK S : tr \in Seq(S)
  BY DEF IsSeq
<1>2. tr \in Seq(S \cup {m}) /\ Len(tr) \in Nat
  BY <1>1
<1>3. ASSUME NEW n \in 0..Len(tr) PROVE SubSeq(Append(tr, m), 1, n) = SubSeq(tr, 1, n)
  BY <1>2
<1>4. SubSeq(tr, 1, Len(tr)) = tr
  BY <1>1
<1>5. Front(Append(tr, m)) = SubSeq(Append(tr, m), 1, Len(tr))
  <2>1. Len(Append(tr, m)) - 1 = Len(tr)
    BY <1>2, Heard
  <2> QED BY <2>1 DEF Front
<1>6. Front(Append(tr, m)) = tr
  BY <1>2, <1>3, <1>4, <1>5
<1> QED BY <1>3, <1>4, <1>6

\* Two sequences, one behind the other.
LEMMA Joined ==
    ASSUME NEW a, IsSeq(a), NEW b, IsSeq(b)
    PROVE  /\ IsSeq(a \o b) /\ Len(a) \in Nat /\ Len(b) \in Nat
           /\ Len(a \o b) = Len(a) + Len(b)
           /\ \A i \in 1..Len(a) : (a \o b)[i] = a[i]
           /\ \A i \in 1..Len(b) : (a \o b)[Len(a) + i] = b[i]
<1>1. PICK S : a \in Seq(S)
  BY DEF IsSeq
<1>2. PICK T : b \in Seq(T)
  BY DEF IsSeq
<1>3. a \in Seq(S \cup T) /\ b \in Seq(S \cup T)
  BY <1>1, <1>2
<1>4. a \o b \in Seq(S \cup T)
  BY <1>3
<1> QED BY <1>3, <1>4 DEF IsSeq

\* A function on 1..n is a sequence of length n.
LEMMA Listed ==
    ASSUME NEW n \in Nat, NEW f, f = [i \in 1..n |-> f[i]]
    PROVE  IsSeq(f) /\ Len(f) = n
<1> DEFINE S == {f[i] : i \in 1..n}
<1>1. \A i \in 1..n : f[i] \in S
  OBVIOUS
<1> HIDE DEF S
<1>2. f \in [1..n -> S]
  BY <1>1, Zenon
<1>3. f \in Seq(S) /\ Len(f) = n
  BY <1>2
<1> QED BY <1>3, Zenon DEF IsSeq

\* A set of naturals that is not empty has a least member.
LEMMA Least ==
    ASSUME NEW R \in SUBSET Nat, R # {}
    PROVE  \E i \in R : \A j \in R : i <= j
<1>1. PICK i \in R : \A j \in R : <<j, i>> \notin OpToRel(<, Nat)
  BY NatLessThanWellFounded, WFMin, Zenon
<1>2. \A j \in R : ~ (j < i)
  BY <1>1, Zenon DEF OpToRel
<1> QED BY <1>2

\* What FirstOffered finds was offered.
LEMMA FirstIsOffered ==
    ASSUME NEW order, IsSeq(order), NEW offered, FirstOffered(order, offered) # "none"
    PROVE  FirstOffered(order, offered) \in offered
<1> DEFINE hits == {i \in 1..Len(order) : order[i] \in offered}
<1>1. hits \in SUBSET Nat /\ hits # {}
  BY DEF FirstOffered
<1>2. \E i \in hits : \A j \in hits : i <= j
  BY <1>1, Least, Zenon
<1>3. (CHOOSE i \in hits : \A j \in hits : i <= j) \in hits
  BY <1>2
<1>4. FirstOffered(order, offered) = order[CHOOSE i \in hits : \A j \in hits : i <= j]
  BY <1>1 DEF FirstOffered
<1> QED BY <1>3, <1>4

\* Two changes are one.
LEMMA SameThen ==
    ASSUME NEW a, NEW b, NEW c, NEW T1, NEW T2, NEW T, NEW H1, NEW H2, NEW H,
           SameBut(a, b, T1, H1), SameBut(b, c, T2, H2),
           T1 \cup T2 \subseteq T, H1 \cup H2 \subseteq H
    PROVE  SameBut(a, c, T, H)
BY DEF SameBut

-----------------------------------------------------------------------------
(* What is read and decided, before anything is pushed *)

\* A handler's refusal is a session.
LEMMA Refusal ==
    ASSUME NEW h, IsSession(h), NEW alert
    PROVE  LET res == No(h, alert) IN
           /\ res.ok = FALSE /\ IsSession(res.h) /\ SamePushed(h, res.h)
           /\ SameBut(h, res.h, {}, {"alert"})
BY DEF No, IsSession, HsFields, TlsFields, SameBut, SamePushed

\* A message leaves the buffer and nothing else of the session.
LEMMA TakenFacts ==
    ASSUME NEW h, IsSession(h), NEW room
    PROVE  LET g == [Taken(h) EXCEPT !.room = room] IN
           /\ IsSession(g) /\ SameBut(h, g, {"buf"}, {}) /\ g.made = h.made /\ g.room = room
           /\ g.t.buf = Taken(h).t.buf /\ Taken(h).hs = h.hs
BY DEF Taken, IsSession, TlsFields, HsFields, SameBut

\* A message heard goes to the transcript and nowhere else.
LEMMA HearFacts ==
    ASSUME NEW h, IsSession(h), NEW m
    PROVE  LET g == Hear(h, m) IN
           /\ IsSession(g) /\ SameBut(h, g, {"transcript"}, {}) /\ SamePushed(h, g)
           /\ g.t.transcript = Append(h.t.transcript, m)
BY DEF Hear, IsSession, TlsFields, HsFields, SameBut, SamePushed

\* A hello that is read is one the parser admits, with the name that was asked for.
LEMMA ReadHello ==
    ASSUME NEW h, IsSession(h), NEW m
    PROVE  LET res == srv_read_client_hello(h, m) IN
           /\ IsSession(res.h) /\ res.ok \in BOOLEAN /\ SamePushed(h, res.h)
           /\ res.ok => /\ m.type = "client_hello"
                        /\ h.t.cfg.require_server_name => m.sni
                        /\ SameBut(h, res.h, {"transcript", "sni"}, {"alert"})
                        /\ res.h.t.transcript = Append(h.t.transcript, m)
<1> DEFINE res   == srv_read_client_hello(h, m)
           k     == [h EXCEPT !.hs.alert = "decode_error", !.t.sni = m.sni /\ h.t.cfg.sni_buf]
           heard == Hear(k, m)
<1>1. /\ IsSession(k) /\ SameBut(h, k, {"sni"}, {"alert"}) /\ SamePushed(h, k)
      /\ k.t.sni = (m.sni /\ h.t.cfg.sni_buf) /\ k.t.transcript = h.t.transcript
  BY DEF IsSession, TlsFields, HsFields, SameBut, SamePushed
<1> HIDE DEF k
<1>2. /\ IsSession(heard) /\ SameBut(k, heard, {"transcript"}, {}) /\ SamePushed(k, heard)
      /\ heard.t.transcript = Append(h.t.transcript, m)
  BY <1>1, HearFacts, SMTT(30)
<1>3. SameBut(h, heard, {"transcript", "sni"}, {"alert"}) /\ SamePushed(h, heard)
  BY <1>1, <1>2, SameThen DEF SamePushed
<1>4. heard.t.sni = (m.sni /\ h.t.cfg.sni_buf)
  BY <1>1, <1>2 DEF SameBut, TlsFields
<1> HIDE DEF heard
<1>5. CASE m.type # "client_hello"
  <2>1. res = No(h, "unexpected_message")
    BY <1>5 DEF srv_read_client_hello
  <2> QED BY <2>1, Refusal, Zenon
<1>6. CASE m.type = "client_hello" /\ srv_parse_client_hello(m) # "none"
  <2>1. res = No(h, srv_parse_client_hello(m))
    BY <1>6 DEF srv_read_client_hello
  <2> QED BY <2>1, Refusal, Zenon
<1>7. CASE m.type = "client_hello" /\ srv_parse_client_hello(m) = "none"
  <2>1. res = IF h.t.cfg.require_server_name /\ ~heard.t.sni THEN No(heard, "missing_extension")
                                                             ELSE Ok(heard)
    BY <1>7 DEF srv_read_client_hello, heard, k
  <2>2. CASE h.t.cfg.require_server_name /\ ~heard.t.sni
    <3>1. res = No(heard, "missing_extension")
      BY <2>1, <2>2
    <3>2. res.ok = FALSE /\ IsSession(res.h) /\ SamePushed(heard, res.h)
      BY <3>1, <1>2, Refusal, Zenon
    <3> QED BY <3>2, <1>3, Zenon DEF SamePushed
  <2>3. CASE ~(h.t.cfg.require_server_name /\ ~heard.t.sni)
    <3>1. res = Ok(heard)
      BY <2>1, <2>3
    <3>2. res.ok = TRUE /\ res.h = heard
      BY <3>1 DEF Ok
    <3>3. h.t.cfg.require_server_name => m.sni
      BY <2>3, <1>4, Zenon
    <3> QED BY <3>2, <3>3, <1>2, <1>3, <1>7, Zenon
  <2> QED BY <2>2, <2>3
<1> QED BY <1>5, <1>6, <1>7

\* the fields of a selection
SelFields == {"suite", "group", "sigalg", "need_retry", "psk_selected", "index"}

\* what a ticket and its binder must be for the session h to resume on it
Resumes(h, m, sel, i) ==
    /\ i \in 1..Len(m.tickets) /\ ticket_holds(m.tickets[i], h, m, sel)
    /\ m.binders[i] = [psk |-> m.tickets[i].psk,
                       over |-> Append(Front(h.t.transcript), [m EXCEPT !.binders = << >>])]

\* The ticket that is found is one that holds.
LEMMA FoundHolds ==
    ASSUME NEW h, NEW m, NEW sel, find_ticket(h, m, sel) # 0
    PROVE  LET i == find_ticket(h, m, sel) IN
           i \in 1..Len(m.tickets) /\ ticket_holds(m.tickets[i], h, m, sel)
<1> DEFINE held == {i \in 1..Len(m.tickets) : ticket_holds(m.tickets[i], h, m, sel)}
<1>1. held \in SUBSET Nat /\ held # {}
  BY DEF find_ticket
<1>2. \E i \in held : \A j \in held : i <= j
  BY <1>1, Least, Zenon
<1>3. (CHOOSE i \in held : \A j \in held : i <= j) \in held
  BY <1>2, Zenon
<1>4. find_ticket(h, m, sel) = CHOOSE i \in held : \A j \in held : i <= j
  BY <1>1, Zenon DEF find_ticket
<1> QED BY <1>3, <1>4

\* A session is resumed on a ticket that holds, or goes on with its scheme.
LEMMA SelectAuth ==
    ASSUME NEW h, IsSession(h), NEW m, NEW sel, DOMAIN sel = SelFields, sel.psk_selected = FALSE
    PROVE  LET res == srv_select_auth(h, m, sel) IN
           /\ IsSession(res.h) /\ res.ok \in BOOLEAN /\ SamePushed(h, res.h)
           /\ res.ok =>
                 /\ SameBut(h, res.h, {}, {"early", "ticket_auth"})
                 /\ res.sel.suite = sel.suite /\ res.sel.group = sel.group
                 /\ res.sel.need_retry = sel.need_retry
                 /\ \/ res.sel.psk_selected = TRUE /\ Resumes(h, m, sel, res.sel.index)
                    \/ res.sel = sel /\ sel.sigalg # "none"
<1> DEFINE res == srv_select_auth(h, m, sel)
           i   == IF tickets_on(h.t.cfg) /\ ticket_offered(m) THEN find_ticket(h, m, sel) ELSE 0
           k   == [h EXCEPT !.hs.early = "psk", !.hs.ticket_auth = m.tickets[i].auth]
           s   == [sel EXCEPT !.psk_selected = TRUE, !.sigalg = "none", !.index = i]
           no  == IF "sigalgs" \in m.has THEN "handshake_failure" ELSE "missing_extension"
<1>1. i # 0 => i \in 1..Len(m.tickets) /\ ticket_holds(m.tickets[i], h, m, sel)
  BY FoundHolds, Zenon
<1>2. /\ IsSession(k) /\ SamePushed(h, k) /\ SameBut(h, k, {}, {"early", "ticket_auth"})
  BY Zenon DEF IsSession, TlsFields, HsFields, SameBut, SamePushed
<1>3. /\ s.suite = sel.suite /\ s.group = sel.group /\ s.need_retry = sel.need_retry
      /\ s.psk_selected = TRUE /\ s.index = i
  BY DEF SelFields
<1>4. res = IF i # 0 /\ ~binder_matches(h, m, i)
            THEN [ok |-> No(h, "decrypt_error").ok, h |-> No(h, "decrypt_error").h, sel |-> sel]
            ELSE IF i # 0 THEN [ok |-> Ok(k).ok, h |-> Ok(k).h, sel |-> s]
            ELSE IF sel.sigalg # "none" THEN [ok |-> Ok(h).ok, h |-> Ok(h).h, sel |-> sel]
            ELSE [ok |-> No(h, no).ok, h |-> No(h, no).h, sel |-> sel]
  BY Zenon DEF srv_select_auth
<1> HIDE DEF res, i, k, s, no
<1>5. CASE i # 0 /\ ~binder_matches(h, m, i)
  <2>1. res = [ok |-> No(h, "decrypt_error").ok, h |-> No(h, "decrypt_error").h, sel |-> sel]
    BY <1>4, <1>5, Zenon
  <2>2. res.ok = No(h, "decrypt_error").ok /\ res.h = No(h, "decrypt_error").h
    BY <2>1
  <2> QED BY <2>2, Refusal, Zenon DEF res
<1>6. CASE i # 0 /\ binder_matches(h, m, i)
  <2>1. res = [ok |-> Ok(k).ok, h |-> Ok(k).h, sel |-> s]
    BY <1>4, <1>6, Zenon
  <2>2. res.ok = TRUE /\ res.h = k /\ res.sel = s
    BY <2>1 DEF Ok
  <2>3. Resumes(h, m, sel, i)
    BY <1>1, <1>6, Zenon DEF Resumes, binder_matches
  <2> QED BY <2>2, <2>3, <1>2, <1>3, Zenon DEF res
<1>7. CASE i = 0 /\ sel.sigalg # "none"
  <2>1. res = [ok |-> Ok(h).ok, h |-> Ok(h).h, sel |-> sel]
    BY <1>4, <1>7, Zenon
  <2>2. res.ok = TRUE /\ res.h = h /\ res.sel = sel
    BY <2>1 DEF Ok
  <2>3. SameBut(h, h, {}, {"early", "ticket_auth"}) /\ SamePushed(h, h)
    BY DEF SameBut, SamePushed
  <2> QED BY <2>2, <2>3, <1>7, Zenon DEF res
<1>8. CASE i = 0 /\ sel.sigalg = "none"
  <2>1. res = [ok |-> No(h, no).ok, h |-> No(h, no).h, sel |-> sel]
    BY <1>4, <1>8, Zenon
  <2>2. res.ok = No(h, no).ok /\ res.h = No(h, no).h
    BY <2>1
  <2> QED BY <2>2, Refusal, Zenon DEF res
<1> QED BY <1>5, <1>6, <1>7, <1>8, Zenon

\* a suite and a group the configuration prefers, of a hello m it may answer
Prefers(cfg, m, suite, group) ==
    /\ suite = FirstOffered(cfg.suites, m.suites) /\ suite # "none"
    /\ group = FirstOffered(GroupOrder, m.groups) /\ group # "none"
    /\ ~alpn_mismatch(cfg, m)

\* what authenticates the server's flight: a ticket, or a scheme it can sign with
Authenticates(h, m, sel) ==
    \/ sel.psk_selected = TRUE /\ \E s : s.suite = sel.suite /\ Resumes(h, m, s, sel.index)
    \/ sel.psk_selected = FALSE /\ sel.sigalg \in m.sigalgs \cap h.t.cfg.identities

\* A scheme that was selected is on both lists.
LEMMA SchemeOffered ==
    ASSUME NEW cfg, NEW m, srv_select_sigalg(cfg, m) # "none"
    PROVE  srv_select_sigalg(cfg, m) \in m.sigalgs \cap cfg.identities
<1>1. IsSeq(SigalgOrder)
  <2>1. SigalgOrder \in Seq({"mldsa87", "ecdsa", "rsa"})
    BY DEF SigalgOrder
  <2> QED BY <2>1 DEF IsSeq
<1> QED BY <1>1, FirstIsOffered, Zenon DEF srv_select_sigalg

\* The choice on a first hello: the preferred suite and group, and a retry when
\* the group has no share yet.
LEMMA Selects ==
    ASSUME NEW h, IsSession(h), NEW m
    PROVE  LET res == srv_select(h, m) IN
           /\ IsSession(res.h) /\ res.ok \in BOOLEAN /\ SamePushed(h, res.h)
           /\ res.ok =>
                 /\ SameBut(h, res.h, {}, {"alert", "early", "ticket_auth"})
                 /\ Prefers(h.t.cfg, m, res.sel.suite, res.sel.group)
                 /\ res.sel.need_retry = (res.sel.group \notin m.shares)
                 /\ res.sel.need_retry => res.sel.psk_selected = FALSE
                 /\ ~res.sel.need_retry => Authenticates(h, m, res.sel)
<1> DEFINE res   == srv_select(h, m)
           cfg   == h.t.cfg
           suite == FirstOffered(cfg.suites, m.suites)
           group == FirstOffered(GroupOrder, m.groups)
           sel   == [NoSelection EXCEPT !.suite = suite, !.group = group,
                                        !.sigalg = srv_select_sigalg(cfg, m),
                                        !.need_retry = group \notin m.shares]
           g     == [h EXCEPT !.hs.alert = "handshake_failure"]
           Refused(alert) == [ok |-> FALSE, h |-> No(g, alert).h, sel |-> sel]
<1>1. /\ DOMAIN sel = SelFields /\ sel.psk_selected = FALSE /\ sel.suite = suite
      /\ sel.group = group /\ sel.sigalg = srv_select_sigalg(cfg, m)
      /\ sel.need_retry = (group \notin m.shares)
  BY DEF NoSelection, SelFields
<1>2. IsSession(g) /\ SamePushed(h, g) /\ SameBut(h, g, {}, {"alert"})
  BY DEF IsSession, TlsFields, HsFields, SameBut, SamePushed
<1>3. res = IF suite = "none" \/ group = "none" THEN Refused("handshake_failure")
            ELSE IF sel.sigalg = "none" /\ "psk" \notin m.has THEN Refused("handshake_failure")
            ELSE IF alpn_mismatch(cfg, m) THEN Refused("no_application_protocol")
            ELSE IF sel.need_retry THEN [ok |-> TRUE, h |-> g, sel |-> sel]
            ELSE srv_select_auth(g, m, sel)
  BY Zenon DEF srv_select, srv_kex_group, srv_kex_shared
<1> HIDE DEF res, sel, g, suite, group
<1>4. ASSUME NEW alert, res = Refused(alert)
      PROVE  IsSession(res.h) /\ res.ok = FALSE /\ SamePushed(h, res.h)
  <2>1. res.ok = FALSE /\ res.h = No(g, alert).h
    BY <1>4
  <2>2. IsSession(res.h) /\ SamePushed(g, res.h)
    BY <2>1, <1>2, Refusal, Zenon
  <2> QED BY <2>1, <2>2, <1>2, Zenon DEF SamePushed
<1> HIDE DEF Refused
<1>5. CASE \/ suite = "none" \/ group = "none"
           \/ (sel.sigalg = "none" /\ "psk" \notin m.has) \/ alpn_mismatch(cfg, m)
  <2>1. \E alert : res = Refused(alert)
    BY <1>3, <1>5, Zenon
  <2> QED BY <2>1, <1>4, Zenon DEF res
<1>6. CASE ~ (\/ suite = "none" \/ group = "none"
              \/ (sel.sigalg = "none" /\ "psk" \notin m.has) \/ alpn_mismatch(cfg, m))
  <2>1. Prefers(cfg, m, sel.suite, sel.group)
    BY <1>1, <1>6, Zenon DEF Prefers, suite, group
  <2>2. CASE sel.need_retry
    <3>1. res = [ok |-> TRUE, h |-> g, sel |-> sel]
      BY <1>3, <1>6, <2>2, Zenon
    <3>2. res.ok = TRUE /\ res.h = g /\ res.sel = sel
      BY <3>1
    <3>3. SameBut(h, g, {}, {"alert", "early", "ticket_auth"})
      BY <1>2 DEF SameBut
    <3> QED BY <3>2, <3>3, <2>1, <2>2, <1>1, <1>2, Zenon DEF res
  <2>3. CASE ~sel.need_retry
    <3>1. res = srv_select_auth(g, m, sel)
      BY <1>3, <1>6, <2>3, Zenon
    <3>2. /\ IsSession(res.h) /\ res.ok \in BOOLEAN /\ SamePushed(g, res.h)
          /\ res.ok =>
                 /\ SameBut(g, res.h, {}, {"early", "ticket_auth"})
                 /\ res.sel.suite = sel.suite /\ res.sel.group = sel.group
                 /\ res.sel.need_retry = sel.need_retry
                 /\ \/ res.sel.psk_selected = TRUE /\ Resumes(g, m, sel, res.sel.index)
                    \/ res.sel = sel /\ sel.sigalg # "none"
      BY <3>1, <1>1, <1>2, SelectAuth, Zenon
    <3>3. SamePushed(h, res.h)
      BY <3>2, <1>2, Zenon DEF SamePushed
    <3>4. ASSUME res.ok PROVE SameBut(h, res.h, {}, {"alert", "early", "ticket_auth"})
      BY <3>4, <3>2, <1>2, SameThen
    <3>5. ASSUME res.ok PROVE Authenticates(h, m, res.sel)
      <4>1. g.t = h.t
        BY DEF g
      <4>2. \A i : Resumes(g, m, sel, i) => Resumes(h, m, sel, i)
        BY <4>1, Zenon DEF Resumes, ticket_holds, session_quic_version
      <4>3. CASE res.sel.psk_selected = TRUE /\ Resumes(g, m, sel, res.sel.index)
        BY <4>2, <4>3, <3>2, <3>5, Zenon DEF Authenticates
      <4>4. CASE res.sel = sel /\ sel.sigalg # "none"
        BY <4>4, <1>1, SchemeOffered, Zenon DEF Authenticates
      <4> QED BY <4>3, <4>4, <3>2, <3>5, Zenon
    <3> QED BY <3>2, <3>3, <3>4, <3>5, <2>1, <2>3, <1>1, Zenon DEF res
  <2> QED BY <2>2, <2>3, Zenon
<1> QED BY <1>5, <1>6, Zenon

\* The choice on a second hello is the cookie's, whose digest fits the hello.
LEMMA ChecksRetry ==
    ASSUME NEW h, IsSession(h), NEW m
    PROVE  LET res == srv_check_retry_hello(h, m)
               c   == m.cookie[1]
           IN
           /\ IsSession(res.h) /\ res.ok \in BOOLEAN /\ SamePushed(h, res.h)
           /\ res.ok =>
                 /\ SameBut(h, res.h, {}, {"alert", "early", "ticket_auth"})
                 /\ m.cookie # << >> /\ c.key /\ c.frozen = Frozen(m)
                 /\ res.sel.suite = c.suite /\ res.sel.group = c.group
                 /\ c.group \in m.shares
                 /\ Authenticates(h, m, res.sel)
<1> DEFINE res == srv_check_retry_hello(h, m)
           c   == m.cookie[1]
           g   == [h EXCEPT !.hs.alert = "illegal_parameter"]
           sel == [NoSelection EXCEPT !.suite = c.suite, !.group = c.group,
                                      !.sigalg = srv_select_sigalg(h.t.cfg, m)]
           Refused(alert) == [ok |-> FALSE, h |-> No(g, alert).h, sel |-> NoSelection]
<1>1. /\ DOMAIN sel = SelFields /\ sel.psk_selected = FALSE /\ sel.suite = c.suite
      /\ sel.group = c.group /\ sel.sigalg = srv_select_sigalg(h.t.cfg, m)
  BY DEF NoSelection, SelFields
<1>2. IsSession(g) /\ SamePushed(h, g) /\ SameBut(h, g, {}, {"alert"}) /\ g.t = h.t
  BY DEF IsSession, TlsFields, HsFields, SameBut, SamePushed
<1>3. res = IF m.cookie = << >> \/ m.early_data THEN Refused("illegal_parameter")
            ELSE IF ~CookieHolds(h.t.cfg, m, c) THEN Refused("illegal_parameter")
            ELSE IF c.group \notin m.shares THEN Refused("handshake_failure")
            ELSE srv_select_auth(g, m, sel)
  BY Zenon DEF srv_check_retry_hello, srv_kex_shared
<1> HIDE DEF res, sel, g, c
<1>4. ASSUME NEW alert, res = Refused(alert)
      PROVE  IsSession(res.h) /\ res.ok = FALSE /\ SamePushed(h, res.h)
  <2>1. res.ok = FALSE /\ res.h = No(g, alert).h
    BY <1>4
  <2>2. IsSession(res.h) /\ SamePushed(g, res.h)
    BY <2>1, <1>2, Refusal, Zenon
  <2> QED BY <2>1, <2>2, <1>2, Zenon DEF SamePushed
<1> HIDE DEF Refused
<1>5. CASE \/ m.cookie = << >> \/ m.early_data \/ ~CookieHolds(h.t.cfg, m, c)
           \/ c.group \notin m.shares
  <2>1. \E alert : res = Refused(alert)
    BY <1>3, <1>5, Zenon
  <2> QED BY <2>1, <1>4, Zenon DEF res
<1>6. CASE ~ (\/ m.cookie = << >> \/ m.early_data \/ ~CookieHolds(h.t.cfg, m, c)
              \/ c.group \notin m.shares)
  <2>1. res = srv_select_auth(g, m, sel)
    BY <1>3, <1>6, Zenon
  <2>2. /\ IsSession(res.h) /\ res.ok \in BOOLEAN /\ SamePushed(g, res.h)
        /\ res.ok =>
               /\ SameBut(g, res.h, {}, {"early", "ticket_auth"})
               /\ res.sel.suite = sel.suite /\ res.sel.group = sel.group
               /\ \/ res.sel.psk_selected = TRUE /\ Resumes(g, m, sel, res.sel.index)
                  \/ res.sel = sel /\ sel.sigalg # "none"
    BY <2>1, <1>1, <1>2, SelectAuth, Zenon
  <2>3. SamePushed(h, res.h)
    BY <2>2, <1>2, Zenon DEF SamePushed
  <2>4. ASSUME res.ok PROVE SameBut(h, res.h, {}, {"alert", "early", "ticket_auth"})
    BY <2>4, <2>2, <1>2, SameThen
  <2>5. ASSUME res.ok PROVE Authenticates(h, m, res.sel)
    <3>1. \A i : Resumes(g, m, sel, i) => Resumes(h, m, sel, i)
      BY <1>2, Zenon DEF Resumes, ticket_holds, session_quic_version
    <3>2. CASE res.sel.psk_selected = TRUE /\ Resumes(g, m, sel, res.sel.index)
      BY <3>1, <3>2, <2>2, <2>5, Zenon DEF Authenticates
    <3>3. CASE res.sel = sel /\ sel.sigalg # "none"
      BY <3>3, <1>1, SchemeOffered, Zenon DEF Authenticates
    <3> QED BY <3>2, <3>3, <2>2, <2>5, Zenon
  <2>6. c.key /\ c.frozen = Frozen(m)
    BY <1>6, Zenon DEF CookieHolds
  <2> QED BY <2>2, <2>3, <2>4, <2>5, <2>6, <1>1, <1>6, Zenon DEF res, c
<1> QED BY <1>5, <1>6, Zenon

-----------------------------------------------------------------------------
(* Output *)

\* A session without a record more is as open as before.
LEMMA FlyingStays ==
    ASSUME NEW h, Flying(h), NEW g, IsSession(g), SamePushed(h, g), NEW hs,
           SameBut(h, g, TlsFields \ {"cfg", "wr", "peer_limit"}, hs)
    PROVE  Flying(g) /\ Open(g) /\ Spoilt(g)
<1>1. g.t.cfg = h.t.cfg /\ g.t.wr = h.t.wr /\ g.t.peer_limit = h.t.peer_limit
  BY DEF SameBut, TlsFields
<1> QED BY <1>1, Zenon DEF Flying, Open, Spoilt, SamePushed, AllTaken, LastRefused, BeforeApp

\* What a push leaves: every record was taken, or the last one was not.
LEMMA Pushes ==
    ASSUME NEW h, Open(h), NEW recs, IsSeq(recs)
    PROVE  LET p == Push(h, recs) IN
           /\ IsSession(p.h) /\ p.ok \in BOOLEAN
           /\ p.ok => /\ Open(p.h) /\ SameBut(h, p.h, {}, {})
                      /\ Len(p.h.made) = Len(h.made) + Len(recs)
                      /\ \A i \in 1..Len(h.made) : p.h.made[i] = h.made[i]
                      /\ \A i \in 1..Len(recs) : p.h.made[Len(h.made) + i].rec = recs[i]
           /\ ~p.ok => Spoilt(p.h)
<1> DEFINE p     == Push(h, recs)
           taken == Fewer(Len(recs), h.room)
           built == Fewer(Len(recs), taken + 1)
           more  == [i \in 1..built |-> Made(recs[i], i <= taken)]
           made  == h.made \o more
           out   == [h EXCEPT !.room = @ - taken, !.made = made]
<1>1. Len(recs) \in Nat /\ h.room \in Nat /\ IsSeq(h.made)
  BY DEF IsSeq, Open, AllTaken
<1>2. /\ taken \in Nat /\ taken <= Len(recs) /\ taken <= h.room /\ built \in Nat
      /\ taken = Len(recs) => built = taken
      /\ taken # Len(recs) => built = taken + 1
  BY <1>1 DEF Fewer
<1>3. h.room - taken \in Nat
  BY <1>1, <1>2
<1>4. p = IF taken = Len(recs) THEN Ok(out) ELSE No(out, "internal_error")
  <2>1. out = [h EXCEPT !.room = @ - taken,
                        !.made = @ \o [i \in 1..built |-> Made(recs[i], i <= taken)]]
    BY DEF Open, IsSession
  <2> QED BY <2>1, Zenon DEF Push
<1>5. IsSeq(more) /\ Len(more) = built
  <2>1. more \in Seq({Made(recs[i], i <= taken) : i \in 1..built})
    BY <1>2
  <2>2. Len(more) = built
    BY <1>2
  <2> HIDE DEF more
  <2> QED BY <2>1, <2>2, Zenon DEF IsSeq
<1>6. \A i \in 1..built : more[i].rec = recs[i] /\ (i <= taken => more[i].taken = TRUE)
  BY <1>2, Zenon DEF Made
<1> HIDE DEF more, taken, built
<1>7. /\ IsSeq(made) /\ Len(made) = Len(h.made) + built /\ Len(h.made) \in Nat
      /\ \A i \in 1..Len(h.made) : made[i] = h.made[i]
      /\ \A i \in 1..built : made[Len(h.made) + i] = more[i]
  <2> DEFINE old == h.made
  <2>1. IsSeq(old) /\ IsSeq(more)
    BY <1>1, <1>5
  <2> HIDE DEF old
  <2>2. /\ IsSeq(old \o more) /\ Len(old \o more) = Len(old) + Len(more) /\ Len(old) \in Nat
        /\ \A i \in 1..Len(old) : (old \o more)[i] = old[i]
        /\ \A i \in 1..Len(more) : (old \o more)[Len(old) + i] = more[i]
    BY <2>1, Joined
  <2>3. made = old \o more
    BY DEF old
  <2> HIDE DEF made
  <2>4. /\ IsSeq(made) /\ Len(made) = Len(old) + Len(more) /\ Len(old) \in Nat
        /\ \A i \in 1..Len(old) : made[i] = old[i]
        /\ \A i \in 1..Len(more) : made[Len(old) + i] = more[i]
    BY <2>2, <2>3, Zenon
  <2> QED BY <2>4, <1>5, Zenon DEF old
<1> HIDE DEF made
<1>8. /\ IsSession(out) /\ SameBut(h, out, {}, {}) /\ out.made = made
      /\ out.room = h.room - taken
  BY DEF Open, IsSession, SameBut
<1> HIDE DEF out
<1>9. \A i \in 1..Len(h.made) : h.made[i].taken
  BY DEF Open, AllTaken
<1>10. \A i \in 1..Len(made) : i \in 1..Len(h.made) \/ \E j \in 1..built : i = Len(h.made) + j
  <2>1. ASSUME NEW i \in 1..Len(made), i \notin 1..Len(h.made)
        PROVE  \E j \in 1..built : i = Len(h.made) + j
    <3>1. i - Len(h.made) \in 1..built /\ i = Len(h.made) + (i - Len(h.made))
      BY <2>1, <1>7, <1>2
    <3> QED BY <3>1
  <2> QED BY <2>1
<1>11. CASE taken = Len(recs)
  <2>1. p = Ok(out)
    BY <1>4, <1>11, Zenon
  <2>2. p.ok = TRUE /\ p.h = out
    BY <2>1 DEF Ok
  <2>3. built = Len(recs) /\ built = taken
    BY <1>2, <1>11
  <2>4. \A i \in 1..Len(made) : made[i].taken
    <3>1. ASSUME NEW j \in 1..built PROVE made[Len(h.made) + j].taken = TRUE
      <4>1. j <= taken
        BY <2>3, <1>2
      <4> QED BY <4>1, <1>6, <1>7
    <3>2. ASSUME NEW i \in 1..Len(h.made) PROVE made[i].taken
      BY <1>7, <1>9, Zenon
    <3> QED BY <3>1, <3>2, <1>10, Zenon
  <2>5. Open(out)
    BY <2>4, <1>3, <1>7, <1>8, Zenon DEF Open, AllTaken
  <2>6. \A i \in 1..Len(recs) : made[Len(h.made) + i].rec = recs[i]
    BY <1>6, <1>7, <2>3
  <2> QED BY <2>2, <2>3, <2>5, <2>6, <1>7, <1>8, Zenon DEF p
<1>12. CASE taken # Len(recs)
  <2>1. p = No(out, "internal_error")
    BY <1>4, <1>12, Zenon
  <2>2. p.ok = FALSE /\ IsSession(p.h) /\ p.h.made = made
    <3>1. p.ok = FALSE /\ IsSession(p.h) /\ SamePushed(out, p.h)
      BY <2>1, <1>8, Refusal, Zenon
    <3> QED BY <3>1, <1>8, Zenon DEF SamePushed
  <2>3. \A i \in 1..Len(made) : ~made[i].taken => i = Len(made)
    <3>1. ASSUME NEW j \in 1..built, ~made[Len(h.made) + j].taken
          PROVE  Len(h.made) + j = Len(made)
      <4>1. ~(j <= taken)
        BY <3>1, <1>6, <1>7
      <4>2. j = built
        BY <4>1, <1>2, <1>12
      <4> QED BY <4>2, <1>7
    <3>2. ASSUME NEW i \in 1..Len(h.made) PROVE made[i].taken
      BY <1>7, <1>9, Zenon
    <3> QED BY <3>1, <3>2, <1>10, Zenon
  <2> QED BY <2>2, <2>3, <1>7, Zenon DEF p, Spoilt, LastRefused
<1> QED BY <1>11, <1>12, Zenon

\* A push answers as every handler does.
LEMMA PushAnswers ==
    ASSUME NEW h, NEW recs
    PROVE  DOMAIN Push(h, recs) = {"ok", "h"}
<1>1. \E a, g : Push(h, recs) = [ok |-> a, h |-> g]
  BY Zenon DEF Push, Ok, No
<1> QED BY <1>1

\* Before the application key is there, a push leaves no record under it.
LEMMA PushesFlying ==
    ASSUME NEW h, Flying(h), NEW recs, IsSeq(recs),
           \A i \in 1..Len(recs) : NotApp(recs[i].dir)
    PROVE  LET p == Push(h, recs) IN
           /\ IsSession(p.h) /\ p.ok \in BOOLEAN
           /\ p.ok => Flying(p.h) /\ SameBut(h, p.h, {}, {})
           /\ ~p.ok => Spoilt(p.h)
<1> DEFINE p == Push(h, recs)
<1>1. Open(h)
  BY DEF Flying
<1>2. /\ IsSession(p.h) /\ p.ok \in BOOLEAN
      /\ p.ok => /\ Open(p.h) /\ SameBut(h, p.h, {}, {})
                 /\ Len(p.h.made) = Len(h.made) + Len(recs)
                 /\ \A i \in 1..Len(h.made) : p.h.made[i] = h.made[i]
                 /\ \A i \in 1..Len(recs) : p.h.made[Len(h.made) + i].rec = recs[i]
      /\ ~p.ok => Spoilt(p.h)
  BY <1>1, Pushes, Zenon
<1> HIDE DEF p
<1>3. ASSUME p.ok PROVE Flying(p.h)
  <2> DEFINE made == p.h.made
             n    == Len(h.made)
  <2>1. n \in Nat /\ Len(recs) \in Nat
    BY <1>1 DEF Open, AllTaken, IsSeq
  <2>2. /\ Len(made) = n + Len(recs)
        /\ \A i \in 1..n : made[i] = h.made[i]
        /\ \A i \in 1..Len(recs) : made[n + i].rec = recs[i]
    BY <1>2, <1>3, Zenon
  <2>3. p.h.t.cfg = h.t.cfg /\ p.h.t.wr = h.t.wr /\ p.h.t.peer_limit = h.t.peer_limit
    BY <1>2, <1>3 DEF SameBut, TlsFields
  <2>4. \A i \in 1..n : NotApp(h.made[i].rec.dir)
    BY DEF Flying, BeforeApp
  <2> HIDE DEF made, n
  <2>5. \A i \in 1..Len(made) : i \in 1..n \/ \E j \in 1..Len(recs) : i = n + j
    <3>1. ASSUME NEW i \in 1..Len(made), i \notin 1..n
          PROVE  \E j \in 1..Len(recs) : i = n + j
      <4>1. i - n \in 1..Len(recs) /\ i = n + (i - n)
        BY <3>1, <2>1, <2>2
      <4> QED BY <4>1
    <3> QED BY <3>1
  <2>6. \A i \in 1..Len(made) : NotApp(made[i].rec.dir)
    <3>1. ASSUME NEW j \in 1..Len(recs) PROVE NotApp(made[n + j].rec.dir)
      BY <2>2, Zenon
    <3>2. ASSUME NEW i \in 1..n PROVE NotApp(made[i].rec.dir)
      BY <2>2, <2>4, Zenon
    <3> QED BY <3>1, <3>2, <2>5, Zenon
  <2>7. BeforeApp(p.h.made)
    BY <2>6, Zenon DEF BeforeApp, made
  <2> QED BY <2>3, <2>7, <1>2, <1>3, Zenon DEF Flying
<1> QED BY <1>2, <1>3, Zenon DEF p

\* One record is a sequence.
LEMMA OneRecord ==
    ASSUME NEW rec
    PROVE  IsSeq(<< rec >>) /\ Len(<< rec >>) = 1 /\ << rec >>[1] = rec
<1>1. << rec >> \in Seq({rec})
  OBVIOUS
<1> QED BY <1>1, Zenon DEF IsSeq

\* A message in the clear.
LEMMA OutPlain ==
    ASSUME NEW h, Flying(h), NEW rec, rec.dir = NoDir
    PROVE  LET p == Push(h, << rec >>) IN
           /\ IsSession(p.h) /\ p.ok \in BOOLEAN
           /\ p.ok => Flying(p.h) /\ SameBut(h, p.h, {}, {})
           /\ ~p.ok => Spoilt(p.h)
<1>1. NotApp(rec.dir)
  <2>1. NotApp(NoDir)
    BY Zenon DEF NoDir, NoSecret, NotApp
  <2> QED BY <2>1, Zenon
<1> DEFINE recs == << rec >>
<1>2. IsSeq(recs) /\ \A i \in 1..Len(recs) : NotApp(recs[i].dir)
  <2>1. IsSeq(recs) /\ Len(recs) = 1 /\ recs[1] = rec
    BY OneRecord, Zenon
  <2> HIDE DEF recs
  <2>2. \A i \in 1..Len(recs) : i = 1
    BY <2>1
  <2> QED BY <2>1, <2>2, <1>1, Zenon
<1> HIDE DEF recs
<1> QED BY <1>2, PushesFlying, Zenon DEF recs

\* The change_cipher_spec of the compatibility mode.
LEMMA OutCcs ==
    ASSUME NEW h, Flying(h), NEW m
    PROVE  LET p == srv_send_compat_ccs(h, m) IN
           /\ IsSession(p.h) /\ p.ok \in BOOLEAN
           /\ p.ok => Flying(p.h) /\ SameBut(h, p.h, {}, {})
           /\ ~p.ok => Spoilt(p.h)
<1> DEFINE p == srv_send_compat_ccs(h, m)
<1>1. CASE m.sid /\ ~OverQuic(h)
  <2>1. CcsRecord.dir = NoDir
    BY DEF CcsRecord, PlainRecord
  <2>2. p = Push(h, << CcsRecord >>)
    BY <1>1, Zenon DEF srv_send_compat_ccs
  <2> QED BY <2>1, <2>2, OutPlain, Zenon
<1>2. CASE ~(m.sid /\ ~OverQuic(h))
  <2>1. p = Ok(h)
    BY <1>2, Zenon DEF srv_send_compat_ccs
  <2>2. p.ok = TRUE /\ p.h = h
    BY <2>1 DEF Ok
  <2>3. SameBut(h, h, {}, {}) /\ IsSession(h)
    BY DEF SameBut, Flying, Open
  <2> QED BY <2>2, <2>3, Zenon
<1> QED BY <1>1, <1>2, Zenon

\* the records a message of a size takes
RecordsOf(h, size) ==
    LET limit == Fewer(h.t.peer_limit, TxCells) IN (size + limit - 1) \div limit

\* A number of records, and one for a message of one cell.
LEMMA RecordCount ==
    ASSUME NEW h, h.t.peer_limit \in Nat \ {0}, NEW size \in Nat
    PROVE  RecordsOf(h, size) \in Nat /\ (size = 1 => RecordsOf(h, size) = 1)
<1> DEFINE limit == Fewer(h.t.peer_limit, TxCells)
<1>1. limit \in Nat \ {0}
  BY TxAssumption DEF Fewer
<1> HIDE DEF limit
<1>2. size + limit - 1 \in Nat
  BY <1>1
<1>3. \A n \in Nat : n \div limit \in Nat
  BY <1>1
<1>4. (limit \div limit) = 1
  BY <1>1
<1>5. size = 1 => size + limit - 1 = limit
  BY <1>1
<1>6. RecordsOf(h, size) = (size + limit - 1) \div limit
  BY DEF RecordsOf, limit
<1> QED BY <1>2, <1>3, <1>4, <1>5, <1>6, Zenon

\* the session may seal: it has a key, and a limit for its records
CanSeal(h) ==
    /\ Open(h) /\ DOMAIN h.t.wr = {"key", "seq"}
    /\ h.t.cfg.quic = FALSE /\ h.t.peer_limit \in Nat \ {0}

\* A message under the write key: its records, and the numbers they used.
LEMMA Seals ==
    ASSUME NEW h, CanSeal(h), NEW m, m.size \in Nat
    PROVE  LET p == srv_out_sealed(h, m) IN
           /\ IsSession(p.h) /\ p.ok \in BOOLEAN
           /\ p.ok => /\ CanSeal(p.h) /\ SameBut(h, p.h, {"wr"}, {})
                      /\ p.h.t.wr.key = h.t.wr.key
                      /\ p.h.t.wr.seq = h.t.wr.seq + Len(p.h.made) - Len(h.made)
                      /\ Len(p.h.made) = Len(h.made) + RecordsOf(h, m.size)
                      /\ \A i \in 1..Len(h.made) : p.h.made[i] = h.made[i]
                      /\ \A i \in 1..RecordsOf(h, m.size) :
                            p.h.made[Len(h.made) + i].rec.dir.key = h.t.wr.key
           /\ ~p.ok => Spoilt(p.h)
<1> DEFINE p      == srv_out_sealed(h, m)
           limit  == srv_out_limit(h)
           count  == (m.size + limit - 1) \div limit
           Piece(i) == SubSeq(Cells(m), (i - 1) * limit + 1, Fewer(i * limit, m.size))
           Dir(i) == [h.t.wr EXCEPT !.seq = @ + i - 1]
           recs   == [i \in 1..count |->
                        IF OverQuic(h) THEN CryptoFrames(h.hs.level, Piece(i))
                                       ELSE SealedRecord(Dir(i), "handshake", Piece(i))]
           pushed == Push(h, recs)
           seq    == pushed.h.t.wr.seq + Len(pushed.h.made) - Len(h.made)
<1>1. OverQuic(h) = FALSE /\ Open(h)
  BY DEF OverQuic, CanSeal
<1>2. count = RecordsOf(h, m.size)
  BY <1>1, Zenon DEF RecordsOf, srv_out_limit
<1>3. count \in Nat
  BY <1>2, RecordCount DEF CanSeal
<1>4. p = [pushed EXCEPT !.h.t.wr.seq = @ + Len(pushed.h.made) - Len(h.made)]
  BY <1>1, Zenon DEF srv_out_sealed
<1> HIDE DEF count, p, limit, Piece
<1>5. \A i \in 1..count : recs[i].dir.key = h.t.wr.key
  <2>1. ASSUME NEW i \in 1..count PROVE recs[i].dir.key = h.t.wr.key
    <3>1. recs[i] = SealedRecord(Dir(i), "handshake", Piece(i))
      BY <1>1
    <3>2. recs[i].dir = Dir(i)
      BY <3>1 DEF SealedRecord
    <3>3. Dir(i).key = h.t.wr.key
      BY DEF CanSeal
    <3> QED BY <3>2, <3>3, Zenon
  <2> QED BY <2>1
<1>6. IsSeq(recs) /\ Len(recs) = count
  <2>1. recs = [i \in 1..count |-> recs[i]]
    BY Zenon
  <2> HIDE DEF recs
  <2> QED BY <2>1, <1>3, Listed, Zenon
<1> HIDE DEF recs, Dir
<1>7. /\ IsSession(pushed.h) /\ pushed.ok \in BOOLEAN
      /\ pushed.ok => /\ Open(pushed.h) /\ SameBut(h, pushed.h, {}, {})
                      /\ Len(pushed.h.made) = Len(h.made) + count
                      /\ \A i \in 1..Len(h.made) : pushed.h.made[i] = h.made[i]
                      /\ \A i \in 1..count : pushed.h.made[Len(h.made) + i].rec = recs[i]
      /\ ~pushed.ok => Spoilt(pushed.h)
  BY <1>1, <1>6, Pushes, Zenon
<1>8. DOMAIN pushed = {"ok", "h"}
  BY PushAnswers, Zenon
<1> HIDE DEF pushed
<1>9. p.ok = pushed.ok /\ p.h = [pushed.h EXCEPT !.t.wr.seq = seq]
  <2>1. p = [pushed EXCEPT !.h = [pushed.h EXCEPT !.t.wr.seq = seq]]
    BY <1>4, <1>7, <1>8 DEF IsSession, TlsFields
  <2> QED BY <2>1, <1>8
<1> HIDE DEF seq
<1>10. /\ IsSession(p.h) /\ SameBut(pushed.h, p.h, {"wr"}, {}) /\ SamePushed(pushed.h, p.h)
       /\ p.h.t.wr = [pushed.h.t.wr EXCEPT !.seq = seq]
  BY <1>7, <1>9 DEF IsSession, SameBut, SamePushed, TlsFields
<1>11. ASSUME pushed.ok
       PROVE  /\ p.h.t.wr.key = h.t.wr.key /\ p.h.t.wr.seq = seq
              /\ DOMAIN p.h.t.wr = {"key", "seq"} /\ pushed.h.t.wr = h.t.wr
  <2>1. pushed.h.t.wr = h.t.wr
    BY <1>7, <1>11 DEF SameBut, TlsFields
  <2> QED BY <2>1, <1>10 DEF CanSeal
<1>12. ASSUME pushed.ok PROVE SameBut(h, p.h, {"wr"}, {})
  BY <1>7, <1>10, <1>12, SameThen
<1>13. ASSUME pushed.ok PROVE CanSeal(p.h)
  <2>1. p.h.t.cfg = h.t.cfg /\ p.h.t.peer_limit = h.t.peer_limit
    BY <1>12, <1>13 DEF SameBut, TlsFields
  <2>2. Open(p.h)
    BY <1>7, <1>10, <1>13, Zenon DEF Open, SamePushed
  <2> QED BY <2>1, <2>2, <1>11, <1>13, Zenon DEF CanSeal
<1>14. ASSUME ~pushed.ok PROVE Spoilt(p.h)
  BY <1>7, <1>10, <1>14, Zenon DEF Spoilt, SamePushed
<1>15. ASSUME pushed.ok
       PROVE  /\ p.h.t.wr.seq = h.t.wr.seq + Len(p.h.made) - Len(h.made)
              /\ p.h.made = pushed.h.made
  BY <1>10, <1>11, <1>15, Zenon DEF seq, SamePushed
<1>16. ASSUME pushed.ok, NEW i \in 1..count PROVE p.h.made[Len(h.made) + i].rec.dir.key = h.t.wr.key
  BY <1>5, <1>7, <1>15, <1>16, ZenonT(40)
<1>17. /\ IsSession(p.h) /\ p.ok \in BOOLEAN
       /\ p.ok => /\ CanSeal(p.h) /\ SameBut(h, p.h, {"wr"}, {})
                  /\ p.h.t.wr.key = h.t.wr.key
                  /\ p.h.t.wr.seq = h.t.wr.seq + Len(p.h.made) - Len(h.made)
                  /\ Len(p.h.made) = Len(h.made) + count
                  /\ \A i \in 1..Len(h.made) : p.h.made[i] = h.made[i]
                  /\ \A i \in 1..count : p.h.made[Len(h.made) + i].rec.dir.key = h.t.wr.key
       /\ ~p.ok => Spoilt(p.h)
  BY <1>7, <1>9, <1>10, <1>11, <1>12, <1>13, <1>14, <1>15, <1>16, ZenonT(40)
<1> QED BY <1>2, <1>17, Zenon DEF p

\* Before the application key is there, a sealed message leaves no record under it.
LEMMA SealsFlying ==
    ASSUME NEW h, Flying(h), NEW m, m.size \in Nat
    PROVE  LET p == srv_out_sealed(h, m) IN
           /\ IsSession(p.h) /\ p.ok \in BOOLEAN
           /\ p.ok => Flying(p.h) /\ SameBut(h, p.h, {"wr"}, {}) /\ p.h.t.wr.key = h.t.wr.key
           /\ ~p.ok => Spoilt(p.h)
<1> DEFINE p     == srv_out_sealed(h, m)
           count == RecordsOf(h, m.size)
           n     == Len(h.made)
           made  == p.h.made
<1>1. CanSeal(h)
  BY Zenon DEF Flying, CanSeal
<1>2. /\ IsSession(p.h) /\ p.ok \in BOOLEAN
      /\ p.ok => /\ CanSeal(p.h) /\ SameBut(h, p.h, {"wr"}, {}) /\ p.h.t.wr.key = h.t.wr.key
                 /\ Len(made) = n + count
                 /\ \A i \in 1..n : made[i] = h.made[i]
                 /\ \A i \in 1..count : made[n + i].rec.dir.key = h.t.wr.key
      /\ ~p.ok => Spoilt(p.h)
  BY <1>1, Seals, Zenon
<1>3. n \in Nat /\ count \in Nat
  <2>1. n \in Nat
    BY DEF Flying, Open, AllTaken, IsSeq
  <2> QED BY <2>1, RecordCount, SMTT(30) DEF Flying
<1>4. \A i \in 1..n : NotApp(h.made[i].rec.dir)
  BY Zenon DEF Flying, BeforeApp
<1>5. \A d : d.key = h.t.wr.key => NotApp(d)
  BY Zenon DEF Flying, NotApp
<1> HIDE DEF p, count, n
<1>6. ASSUME p.ok PROVE Flying(p.h)
  <2>1. \A i \in 1..Len(made) : i \in 1..n \/ \E j \in 1..count : i = n + j
    <3>1. ASSUME NEW i \in 1..Len(made), i \notin 1..n
          PROVE  \E j \in 1..count : i = n + j
      <4>1. i - n \in 1..count /\ i = n + (i - n)
        BY <3>1, <1>2, <1>3, <1>6
      <4> QED BY <4>1
    <3> QED BY <3>1
  <2>2. \A i \in 1..Len(made) : NotApp(made[i].rec.dir)
    <3>1. ASSUME NEW j \in 1..count PROVE NotApp(made[n + j].rec.dir)
      BY <1>2, <1>5, <1>6, Zenon
    <3>2. ASSUME NEW i \in 1..n PROVE NotApp(made[i].rec.dir)
      BY <1>2, <1>4, <1>6, Zenon
    <3> QED BY <3>1, <3>2, <2>1, Zenon
  <2>3. p.h.t.cfg = h.t.cfg
    BY <1>2, <1>6 DEF SameBut, TlsFields
  <2>4. NotApp(p.h.t.wr)
    BY <1>2, <1>5, <1>6, Zenon
  <2> QED BY <2>2, <2>3, <2>4, <1>2, <1>6, Zenon DEF Flying, CanSeal, BeforeApp
<1> QED BY <1>2, <1>6, Zenon DEF p

\* A message of the flight: heard, then sealed.
LEMMA Sends ==
    ASSUME NEW h, Flying(h), NEW m, m.size \in Nat
    PROVE  LET p == Send(h, m) IN
           /\ IsSession(p.h) /\ p.ok \in BOOLEAN
           /\ p.ok => /\ Flying(p.h) /\ SameBut(h, p.h, {"wr", "transcript"}, {})
                      /\ p.h.t.transcript = Append(h.t.transcript, m)
           /\ ~p.ok => Spoilt(p.h)
<1> DEFINE g == Hear(h, m)
           p == srv_out_sealed(g, m)
<1>1. /\ IsSession(g) /\ SameBut(h, g, {"transcript"}, {}) /\ SamePushed(h, g)
      /\ g.t.transcript = Append(h.t.transcript, m)
  BY HearFacts, Zenon DEF Flying, Open
<1> HIDE DEF g
<1>2. SameBut(h, g, TlsFields \ {"cfg", "wr", "peer_limit"}, {})
  BY <1>1 DEF SameBut, TlsFields
<1>3. Flying(g)
  BY <1>1, <1>2, FlyingStays, Zenon
<1>4. /\ IsSession(p.h) /\ p.ok \in BOOLEAN
      /\ p.ok => Flying(p.h) /\ SameBut(g, p.h, {"wr"}, {})
      /\ ~p.ok => Spoilt(p.h)
  BY <1>3, SealsFlying, Zenon
<1> HIDE DEF p
<1>5. ASSUME p.ok PROVE SameBut(h, p.h, {"wr", "transcript"}, {})
  BY <1>1, <1>4, <1>5, SameThen
<1>6. ASSUME p.ok PROVE p.h.t.transcript = Append(h.t.transcript, m)
  BY <1>1, <1>4, <1>6 DEF SameBut, TlsFields
<1>7. Send(h, m) = p
  BY DEF Send, p, g
<1> QED BY <1>4, <1>5, <1>6, <1>7, Zenon

-----------------------------------------------------------------------------
(* The flight *)

\* The ServerHello goes out in the clear.
LEMMA SendsServerHello ==
    ASSUME NEW h, Flying(h), NEW m, NEW sel
    PROVE  LET p == srv_send_server_hello(h, m, sel) IN
           /\ IsSession(p.h) /\ p.ok \in BOOLEAN
           /\ p.ok => /\ Flying(p.h) /\ SameBut(h, p.h, {"transcript"}, {})
                      /\ p.h.t.transcript =
                             Append(h.t.transcript, ServerHello(sel, FALSE, << >>))
           /\ ~p.ok => Spoilt(p.h)
<1> DEFINE p     == srv_send_server_hello(h, m, sel)
           hello == ServerHello(sel, FALSE, << >>)
           g     == Hear(h, hello)
           rec   == PlainRecord("handshake", Cells(hello))
<1>1. IsSession(h) /\ h.t.cfg.quic = FALSE
  BY DEF Flying, Open
<1>2. CASE m.bad = "key"
  <2>1. p = No(h, "illegal_parameter")
    BY <1>2, Zenon DEF srv_send_server_hello
  <2>2. p.ok = FALSE /\ IsSession(p.h) /\ SamePushed(h, p.h) /\ SameBut(h, p.h, {}, {"alert"})
    BY <2>1, <1>1, Refusal, Zenon
  <2>3. SameBut(h, p.h, TlsFields \ {"cfg", "wr", "peer_limit"}, {"alert"})
    BY <2>2 DEF SameBut
  <2> QED BY <2>2, <2>3, FlyingStays, Zenon
<1>3. CASE m.bad # "key"
  <2>1. /\ IsSession(g) /\ SameBut(h, g, {"transcript"}, {}) /\ SamePushed(h, g)
        /\ g.t.transcript = Append(h.t.transcript, hello)
    BY <1>1, HearFacts, Zenon
  <2>2. SameBut(h, g, TlsFields \ {"cfg", "wr", "peer_limit"}, {})
    BY <2>1, Zenon DEF SameBut, TlsFields
  <2>3. Flying(g)
    BY <2>1, <2>2, FlyingStays, Zenon
  <2>4. p = Push(g, << rec >>)
    <3>1. OverQuic(g) = FALSE
      BY <2>3, Zenon DEF OverQuic, Flying
    <3> QED BY <3>1, <1>3, Zenon DEF srv_send_server_hello, srv_out_plain
  <2>5. rec.dir = NoDir
    BY DEF PlainRecord
  <2> HIDE DEF g, rec, p, hello
  <2>6. /\ IsSession(p.h) /\ p.ok \in BOOLEAN
        /\ p.ok => Flying(p.h) /\ SameBut(g, p.h, {}, {})
        /\ ~p.ok => Spoilt(p.h)
    BY <2>3, <2>4, <2>5, OutPlain, Zenon
  <2>7. ASSUME p.ok PROVE SameBut(h, p.h, {"transcript"}, {})
    BY <2>1, <2>6, <2>7, SameThen
  <2>8. ASSUME p.ok PROVE p.h.t.transcript = Append(h.t.transcript, hello)
    BY <2>1, <2>6, <2>8, SMTT(30) DEF SameBut, TlsFields
  <2> QED BY <2>6, <2>7, <2>8, Zenon DEF p, hello
<1> QED BY <1>2, <1>3, Zenon

\* what the selection sets, and the derivation of the handshake secrets
Selected == {"suite", "group", "sigalg", "psk_selected", "alpn_selected", "peer_limit"}
KeyedTls == {"rd", "wr", "keys"}
KeyedHs  == {"kex", "early", "handshake_secret", "c_hs", "s_hs", "encrypted"}

\* The selection is stored, and the client's limit can only lower the server's.
LEMMA StoresSelection ==
    ASSUME NEW h, Flying(h), NEW m, m.limit \in Nat, NEW sel
    PROVE  LET g == srv_store_selection(h, m, sel) IN
           /\ Flying(g) /\ SameBut(h, g, Selected, {})
           /\ g.t.suite = sel.suite /\ g.t.group = sel.group /\ g.t.sigalg = sel.sigalg
           /\ g.t.psk_selected = sel.psk_selected
           /\ g.t.alpn_selected = alpn_selected(h.t.cfg, m)
<1> DEFINE g     == srv_store_selection(h, m, sel)
           limit == IF m.limit # 0 THEN Fewer(h.t.peer_limit, m.limit) ELSE h.t.peer_limit
           alpn  == alpn_selected(h.t.cfg, m)
<1>1. limit \in Nat \ {0}
  BY DEF Flying, Fewer
<1>2. IsSession(h)
  BY DEF Flying, Open
<1>3. g = [h EXCEPT !.t.suite = sel.suite, !.t.group = sel.group, !.t.sigalg = sel.sigalg,
                    !.t.psk_selected = sel.psk_selected, !.t.alpn_selected = alpn,
                    !.t.peer_limit = limit]
  BY <1>2 DEF srv_store_selection, IsSession, TlsFields
<1> HIDE DEF limit, alpn
<1> DEFINE t == [h.t EXCEPT !.suite = sel.suite, !.group = sel.group, !.sigalg = sel.sigalg,
                            !.psk_selected = sel.psk_selected, !.alpn_selected = alpn,
                            !.peer_limit = limit]
<1>7. /\ DOMAIN t = TlsFields /\ \A f \in TlsFields \ Selected : t[f] = h.t[f]
      /\ t.suite = sel.suite /\ t.group = sel.group /\ t.sigalg = sel.sigalg
      /\ t.psk_selected = sel.psk_selected /\ t.alpn_selected = alpn /\ t.peer_limit = limit
  BY <1>2, Zenon DEF IsSession, TlsFields, Selected
<1>8. g = [h EXCEPT !.t = t]
  BY <1>2, <1>3, Zenon DEF IsSession, TlsFields
<1> HIDE DEF t, g
<1>9. /\ g.t = t /\ g.hs = h.hs /\ g.step = h.step /\ g.made = h.made /\ g.room = h.room
      /\ DOMAIN g = {"t", "hs", "step", "made", "room"}
  BY <1>2, <1>8 DEF IsSession
<1>4. /\ IsSession(g) /\ SamePushed(h, g) /\ SameBut(h, g, Selected, {})
      /\ g.t.suite = sel.suite /\ g.t.group = sel.group /\ g.t.sigalg = sel.sigalg
      /\ g.t.psk_selected = sel.psk_selected /\ g.t.alpn_selected = alpn
      /\ g.t.peer_limit = limit
  BY <1>2, <1>7, <1>9, ZenonT(40) DEF IsSession, SameBut, SamePushed
<1>5. g.t.cfg = h.t.cfg /\ g.t.wr = h.t.wr
  BY <1>4 DEF SameBut, TlsFields, Selected
<1>6. Flying(g)
  BY <1>1, <1>4, <1>5, ZenonT(40) DEF Flying, Open, SamePushed
<1> QED BY <1>4, <1>6, Zenon DEF g, alpn

\* Both directions move to the handshake secrets, which cover all that was heard.
LEMMA Derives ==
    ASSUME NEW h, Flying(h), NEW m, NEW sel
    PROVE  LET p == srv_derive_handshake_secrets(h, m, sel) IN
           /\ IsSession(p.h) /\ p.ok \in BOOLEAN
           /\ p.ok => /\ Flying(p.h) /\ SameBut(h, p.h, KeyedTls, KeyedHs)
                      /\ p.h.hs.c_hs.label = "c hs" /\ p.h.hs.c_hs.over = h.t.transcript
                      /\ DOMAIN p.h.t.rd = {"key", "seq"}
                      /\ {"label", "over"} \subseteq DOMAIN p.h.hs.handshake_secret
           /\ ~p.ok => Spoilt(p.h)
<1> DEFINE p     == srv_derive_handshake_secrets(h, m, sel)
           spent == [h EXCEPT !.hs.kex = {}]
           early == IF sel.psk_selected THEN spent ELSE [spent EXCEPT !.hs.early = "nopsk"]
           hs    == Secret(early, "hs")
           c_hs  == Secret(early, "c hs")
           s_hs  == Secret(early, "s hs")
           given == [early EXCEPT !.hs.early = "zero", !.hs.handshake_secret = hs,
                                  !.hs.c_hs = c_hs, !.hs.s_hs = s_hs]
           keyed == [given EXCEPT !.t.rd = [key |-> c_hs, seq |-> 0],
                                  !.t.wr = [key |-> s_hs, seq |-> 0],
                                  !.hs.encrypted = TRUE, !.t.keys = TRUE]
<1>1. IsSession(h) /\ h.t.cfg.quic = FALSE
  BY DEF Flying, Open
<1>2. IsSession(spent) /\ SamePushed(h, spent) /\ SameBut(h, spent, {}, {"kex"})
  BY <1>1 DEF IsSession, TlsFields, HsFields, SameBut, SamePushed
<1>3. IsSession(early) /\ SamePushed(h, early) /\ SameBut(h, early, {}, {"kex", "early"})
  <2>1. CASE sel.psk_selected
    BY <2>1, <1>2 DEF SameBut
  <2>2. CASE ~sel.psk_selected
    BY <2>2, <1>1, Zenon DEF IsSession, TlsFields, HsFields, SameBut, SamePushed
  <2> QED BY <2>1, <2>2
<1>4. early.t = h.t
  BY <1>1 DEF IsSession
<1>5. CASE m.bad = "secret"
  <2>1. p = No(spent, "illegal_parameter")
    BY <1>5, Zenon DEF srv_derive_handshake_secrets
  <2> HIDE DEF p, spent
  <2>2. /\ p.ok = FALSE /\ IsSession(p.h) /\ SamePushed(spent, p.h)
    BY <2>1, <1>2, Refusal, ZenonT(40)
  <2>3. Spoilt(p.h)
    BY <2>2, <1>2, ZenonT(40) DEF Spoilt, SamePushed, Flying, Open, AllTaken, LastRefused
  <2> QED BY <2>2, <2>3, Zenon DEF p
<1>6. CASE m.bad # "secret"
  <2>1. p = Ok(Keyed(given, c_hs, s_hs))
    BY <1>6, ZenonT(40) DEF srv_derive_handshake_secrets
  <2> HIDE DEF early
  <2>2. /\ hs.label = "hs" /\ c_hs.label = "c hs" /\ s_hs.label = "s hs"
        /\ c_hs.over = h.t.transcript /\ {"label", "over"} \subseteq DOMAIN hs
    BY <1>4 DEF Secret
  <2> HIDE DEF hs, c_hs, s_hs
  <2>3. /\ IsSession(given) /\ SamePushed(early, given) /\ given.t = h.t
        /\ SameBut(early, given, {}, {"early", "handshake_secret", "c_hs", "s_hs"})
        /\ given.hs.c_hs = c_hs /\ given.hs.handshake_secret = hs
    BY <1>3, <1>4, Zenon DEF IsSession, TlsFields, HsFields, SameBut, SamePushed
  <2> HIDE DEF given
  <2>4. Keyed(given, c_hs, s_hs) = keyed
    BY <1>1, <2>3, Zenon DEF Keyed, OverQuic
  <2>5. /\ IsSession(keyed) /\ SamePushed(given, keyed)
        /\ SameBut(given, keyed, KeyedTls, {"encrypted"})
        /\ keyed.hs.c_hs = c_hs /\ keyed.hs.handshake_secret = hs
        /\ keyed.t.rd = [key |-> c_hs, seq |-> 0] /\ keyed.t.wr = [key |-> s_hs, seq |-> 0]
        /\ keyed.t.cfg = h.t.cfg /\ keyed.t.peer_limit = h.t.peer_limit
    BY <2>3, ZenonT(40) DEF IsSession, TlsFields, HsFields, SameBut, SamePushed, KeyedTls
  <2> HIDE DEF keyed, p
  <2>6. p.ok = TRUE /\ p.h = keyed
    BY <2>1, <2>4 DEF Ok
  <2>7. SameBut(h, given, {}, KeyedHs)
    BY <1>3, <2>3, SameThen DEF KeyedHs
  <2>8. SameBut(h, keyed, KeyedTls, KeyedHs)
    BY <2>5, <2>7, SameThen DEF KeyedTls, KeyedHs
  <2>9. DOMAIN keyed.t.rd = {"key", "seq"} /\ DOMAIN keyed.t.wr = {"key", "seq"}
    BY <2>5
  <2>10. NotApp(keyed.t.wr)
    <3> DEFINE wr == [key |-> s_hs, seq |-> 0]
    <3>1. wr.key = s_hs
      OBVIOUS
    <3> HIDE DEF wr
    <3>2. NotApp(wr)
      BY <3>1, <2>2, Zenon DEF NotApp
    <3> QED BY <3>2, <2>5, ZenonT(40) DEF wr
  <2>11. keyed.made = h.made /\ keyed.room = h.room
    BY <1>3, <2>3, <2>5, ZenonT(40) DEF SamePushed
  <2>12. Flying(keyed)
    BY <2>5, <2>9, <2>10, <2>11, ZenonT(40) DEF Flying, Open
  <2> QED BY <2>2, <2>5, <2>6, <2>8, <2>9, <2>12, ZenonT(40) DEF p
<1> QED BY <1>5, <1>6, ZenonT(40)

\* The server's proof: nothing for a ticket, or a certificate and a signature over
\* all that was heard with it.
LEMMA SendsProof ==
    ASSUME NEW h, Flying(h), NEW psk, NEW signs
    PROVE  LET c1 == srv_send_certificate(h)
               p  == IF psk THEN Ok(h)
                     ELSE IF c1.ok THEN srv_send_certificate_verify(c1.h, signs) ELSE c1
               tr == h.t.transcript
           IN
           /\ IsSession(p.h) /\ p.ok \in BOOLEAN
           /\ p.ok => /\ Flying(p.h) /\ SameBut(h, p.h, {"wr", "transcript"}, {})
                      /\ psk => p.h.t.transcript = tr
                      /\ ~psk => \E c, v :
                            /\ c.type = "certificate" /\ v.type = "certificate_verify"
                            /\ v.over = Append(tr, c)
                            /\ p.h.t.transcript = Append(Append(tr, c), v)
           /\ ~p.ok => Spoilt(p.h)
<1> DEFINE c    == [type |-> "certificate", size |-> h.t.cfg.chain, malformed |-> "none",
                    verdict |-> "none", epoch |-> h.t.cfg.epoch, epoch_ok |-> TRUE]
           sent == srv_send_certificate(h)
           g    == sent.h
           v    == [type |-> "certificate_verify", size |-> 1, malformed |-> FALSE,
                    scheme |-> "leaf", signer |-> "leaf", over |-> g.t.transcript]
           last == srv_send_certificate_verify(g, signs)
           p    == IF psk THEN Ok(h) ELSE IF sent.ok THEN last ELSE sent
           tr   == h.t.transcript
<1>1. CASE psk
  <2>1. p.ok = TRUE /\ p.h = h
    BY <1>1 DEF Ok
  <2>2. IsSession(h) /\ SameBut(h, h, {"wr", "transcript"}, {})
    BY DEF Flying, Open, SameBut
  <2> QED BY <1>1, <2>1, <2>2, ZenonT(40)
<1>2. CASE ~psk
  <2>1. c.size \in Nat /\ c.type = "certificate"
    BY DEF Flying
  <2>2. sent = Send(h, c)
    BY Zenon DEF srv_send_certificate
  <2> HIDE DEF c
  <2>3. /\ IsSession(g) /\ sent.ok \in BOOLEAN
        /\ sent.ok => /\ Flying(g) /\ SameBut(h, g, {"wr", "transcript"}, {})
                      /\ g.t.transcript = Append(tr, c)
        /\ ~sent.ok => Spoilt(g)
    BY <2>1, <2>2, Sends, ZenonT(40)
  <2>4. p = IF sent.ok THEN last ELSE sent
    BY <1>2, Zenon
  <2> HIDE DEF sent, p, last
  <2>5. CASE ~sent.ok
    <3>1. p = sent
      BY <2>4, <2>5
    <3> QED BY <3>1, <2>3, <2>5, Zenon DEF p, sent, last
  <2>6. CASE sent.ok /\ ~signs
    <3>1. p = No(g, "internal_error")
      BY <2>4, <2>6, Zenon DEF last, srv_send_certificate_verify
    <3>2. p.ok = FALSE /\ IsSession(p.h) /\ SamePushed(g, p.h) /\ SameBut(g, p.h, {}, {"alert"})
      BY <3>1, <2>3, Refusal, ZenonT(40)
    <3>3. SameBut(g, p.h, TlsFields \ {"cfg", "wr", "peer_limit"}, {"alert"})
      BY <3>2 DEF SameBut
    <3>4. Spoilt(p.h)
      BY <3>2, <3>3, <2>3, <2>6, FlyingStays, ZenonT(40)
    <3> QED BY <3>2, <3>4, Zenon DEF p, sent, last
  <2>7. CASE sent.ok /\ signs
    <3>1. v.size \in Nat /\ v.type = "certificate_verify" /\ v.over = g.t.transcript
      OBVIOUS
    <3>2. p = Send(g, v)
      BY <2>4, <2>7, Zenon DEF last, srv_send_certificate_verify
    <3> HIDE DEF v, g
    <3>3. /\ IsSession(p.h) /\ p.ok \in BOOLEAN
          /\ p.ok => /\ Flying(p.h) /\ SameBut(g, p.h, {"wr", "transcript"}, {})
                     /\ p.h.t.transcript = Append(g.t.transcript, v)
          /\ ~p.ok => Spoilt(p.h)
      BY <3>1, <3>2, <2>3, <2>7, Sends, ZenonT(40)
    <3>4. ASSUME p.ok PROVE SameBut(h, p.h, {"wr", "transcript"}, {})
      BY <3>3, <3>4, <2>3, <2>7, SameThen
    <3>5. ASSUME p.ok
          PROVE  /\ c.type = "certificate" /\ v.type = "certificate_verify"
                 /\ v.over = Append(tr, c) /\ p.h.t.transcript = Append(Append(tr, c), v)
      BY <3>1, <3>3, <3>5, <2>1, <2>3, <2>7, Zenon
    <3>6. ASSUME p.ok
          PROVE  \E c1, v1 : /\ c1.type = "certificate" /\ v1.type = "certificate_verify"
                             /\ v1.over = Append(tr, c1)
                             /\ p.h.t.transcript = Append(Append(tr, c1), v1)
      BY <3>5, <3>6, Zenon
    <3> QED BY <3>3, <3>4, <3>6, <1>2, ZenonT(40) DEF p, sent, last, g
  <2> QED BY <2>3, <2>5, <2>6, <2>7, ZenonT(40)
<1> QED BY <1>1, <1>2, Zenon

\* The Finished is the last record under the handshake key: the write direction
\* moves to the application secret over it, from sequence number 0.
LEMMA SendsFinished ==
    ASSUME NEW h, Flying(h), {"label", "over"} \subseteq DOMAIN h.hs.handshake_secret
    PROVE  LET p == srv_send_finished(h) IN
           /\ IsSession(p.h) /\ p.ok \in BOOLEAN
           /\ p.ok => /\ CanSeal(p.h) /\ BeforeApp(p.h.made)
                      /\ SameBut(h, p.h, {"wr", "transcript", "rd_secret", "wr_secret"},
                                 {"master"})
                      /\ p.h.t.wr = [key |-> p.h.t.wr_secret, seq |-> 0]
                      /\ p.h.t.wr_secret.over = p.h.t.transcript
                      /\ \E m : /\ m.type = "finished"
                                /\ p.h.t.transcript = Append(h.t.transcript, m)
           /\ ~p.ok => Spoilt(p.h)
<1> DEFINE m    == FinishedMessage(HashOf(h.t.suite), h.hs.s_hs, h.t.transcript)
           sent == Send(h, m)
           g    == sent.h
           ma   == Derived(g, "master")
           rd   == Derived(g, "c ap")
           wr   == Derived(g, "s ap")
           dir  == [key |-> wr, seq |-> 0]
           done == [g EXCEPT !.hs.master = ma, !.t.rd_secret = rd, !.t.wr_secret = wr,
                             !.t.wr = dir]
           p    == srv_send_finished(h)
<1>1. m.size \in Nat /\ m.type = "finished"
  BY DEF FinishedMessage
<1>2. h.t.cfg.quic = FALSE
  BY DEF Flying
<1>3. p = IF sent.ok THEN Ok(done) ELSE sent
  <2> DEFINE kept == [g EXCEPT !.hs.master = ma, !.t.rd_secret = rd, !.t.wr_secret = wr,
                               !.t.wr = IF OverQuic(h) THEN @ ELSE dir]
  <2>1. p = IF sent.ok THEN Ok(kept) ELSE sent
    BY Zenon DEF srv_send_finished, Then
  <2>2. OverQuic(h) = FALSE
    BY <1>2 DEF OverQuic
  <2> HIDE DEF g, ma, rd, wr, dir, sent
  <2>3. kept = done
    BY <2>2
  <2> QED BY <2>1, <2>3, Zenon
<1> HIDE DEF m
<1>4. /\ IsSession(g) /\ sent.ok \in BOOLEAN
      /\ sent.ok => /\ Flying(g) /\ SameBut(h, g, {"wr", "transcript"}, {})
                    /\ g.t.transcript = Append(h.t.transcript, m)
      /\ ~sent.ok => Spoilt(g)
  BY <1>1, Sends, Zenon
<1> HIDE DEF sent, p
<1>5. CASE ~sent.ok
  <2>1. p = sent
    BY <1>3, <1>5
  <2> QED BY <2>1, <1>4, <1>5, Zenon DEF p
<1>6. CASE sent.ok
  <2>1. g.hs.handshake_secret = h.hs.handshake_secret
    BY <1>4, <1>6 DEF SameBut, HsFields
  <2>2. wr.over = g.t.transcript
    BY <2>1 DEF Derived
  <2>3. dir.key = wr /\ DOMAIN dir = {"key", "seq"}
    OBVIOUS
  <2> HIDE DEF g, ma, rd, wr, dir
  <2>4. /\ IsSession(done) /\ SamePushed(g, done)
        /\ SameBut(g, done, {"wr", "rd_secret", "wr_secret"}, {"master"})
        /\ done.t.wr = dir /\ done.t.wr_secret = wr
    BY <1>4, Zenon DEF IsSession, TlsFields, HsFields, SameBut, SamePushed
  <2> HIDE DEF done
  <2>5. p.ok = TRUE /\ p.h = done
    BY <1>3, <1>6 DEF Ok
  <2>6. /\ done.t.cfg = g.t.cfg /\ done.t.peer_limit = g.t.peer_limit
        /\ done.t.transcript = g.t.transcript
    BY <2>4 DEF SameBut, TlsFields
  <2>7. CanSeal(done) /\ BeforeApp(done.made)
    BY <2>3, <2>4, <2>6, <1>4, <1>6, Zenon DEF CanSeal, Flying, Open, SamePushed
  <2>8. SameBut(h, done, {"wr", "transcript", "rd_secret", "wr_secret"}, {"master"})
    BY <2>4, <1>4, <1>6, SameThen
  <2>9. done.t.wr = [key |-> done.t.wr_secret, seq |-> 0]
    BY <2>4, Zenon DEF dir
  <2>10. done.t.wr_secret.over = done.t.transcript
    BY <2>2, <2>4, <2>6, Zenon
  <2>11. \E x : x.type = "finished" /\ done.t.transcript = Append(h.t.transcript, x)
    BY <2>6, <1>1, <1>4, <1>6, Zenon
  <2> QED BY <2>4, <2>5, <2>7, <2>8, <2>9, <2>10, <2>11, ZenonT(40) DEF p
<1> QED BY <1>4, <1>5, <1>6, Zenon

-----------------------------------------------------------------------------
(* The inductive invariant *)

\* a cell of a message a client may say; its cookie counts until the hello is answered
CellOk(c, h) ==
    /\ c.msg.size \in Nat
    /\ h.step \in {"AWAIT_CLIENT_HELLO", "AWAIT_RETRY_HELLO"} => Sayable(c.msg, h.hs.cookie)
CellsOk(s, h) == IsSeq(s) /\ \A i \in 1..Len(s) : CellOk(s[i], h)

\* a first hello and the retry that answered it, which the cookie carries
RetryOwed(h, tr) ==
    /\ IsSeq(tr) /\ Len(tr) = 2
    /\ tr[1].type = "message_hash" /\ Len(tr[1].of) = 1
    /\ LET first == tr[1].of[1] IN
       /\ HelloFields = DOMAIN first
       /\ tr[2].hrr /\ Prefers(h.t.cfg, first, tr[2].suite, tr[2].group)
       /\ tr[2].group \notin first.shares
       /\ h.hs.cookie = << [key |-> TRUE, suite |-> tr[2].suite, group |-> tr[2].group,
                            frozen |-> Frozen(first)] >>

\* before the answer: nothing is sealed, and the client's hello is still to come
AwaitsHello(h) ==
    /\ Flying(h) /\ h.hs.encrypted = FALSE
    /\ h.step = "AWAIT_CLIENT_HELLO" => h.t.transcript = << >> /\ h.hs.cookie = << >>
    /\ h.step = "AWAIT_RETRY_HELLO" => RetryOwed(h, h.t.transcript)

\* the flight as it stands in the transcript: what was chosen, who was proved
Legal(h) ==
    LET tr == h.t.transcript IN
    /\ IsSeq(tr) /\ HelloAt(tr) \in {2, 4}
    /\ Len(tr) >= HelloAt(tr) + (IF h.t.psk_selected THEN 2 ELSE 3)
    /\ LegalSelection(h) /\ LegalAuthentication(h)

\* after the flight: the server writes under its application key already, and
\* reads under the handshake key
AwaitsFinished(h) ==
    LET tr == h.t.transcript IN
    /\ Legal(h) /\ CanSeal(h) /\ BeforeApp(h.made)
    /\ h.hs.c_hs.label = "c hs" /\ h.hs.c_hs.over = SubSeq(tr, 1, HelloAt(tr))
    /\ h.t.wr = [key |-> h.t.wr_secret, seq |-> 0] /\ h.t.wr_secret.over = tr

\* after the client's Finished
Proved(h) ==
    LET tr == h.t.transcript
        n  == Len(tr)
    IN  /\ Legal(h) /\ h.hs.encrypted = FALSE
        /\ tr[n].type = "finished" /\ tr[n].key.label = "c hs" /\ tr[n].over = Front(tr)
        /\ tr[n].key.over = SubSeq(tr, 1, HelloAt(tr))
        /\ h.t.rd = [key |-> h.t.rd_secret, seq |-> 0]
        /\ h.t.wr.key = h.t.wr_secret /\ h.t.wr_secret.over = Front(tr)
        /\ \A i \in 1..Len(h.made) : ~NotApp(h.made[i].rec.dir) =>
               i = Len(h.made) /\ h.t.wr.seq = 1

\* a session that goes on
Alive(h) ==
    /\ Open(h) /\ h.t.cfg \in Configs /\ DOMAIN h.t.rd = {"key", "seq"}
    /\ h.t.state = IF h.step = "COMPLETE" THEN "CONNECTED" ELSE "START"
    /\ \/ h.step \in {"AWAIT_CLIENT_HELLO", "AWAIT_RETRY_HELLO"} /\ AwaitsHello(h)
       \/ h.step = "AWAIT_CLIENT_FINISHED" /\ AwaitsFinished(h)
       \/ h.step = "COMPLETE" /\ Proved(h)

\* what a dead one pushed: the refused record, and the alert at most
DeadMade(made) ==
    \A i \in 1..Len(made) : ~made[i].taken =>
        /\ i >= Len(made) - 1
        /\ i < Len(made) => made[i + 1].rec.alert # NoAlert

IInv ==
    /\ driving \in BOOLEAN /\ IsSession(r)
    /\ IF session_dead(r) THEN driving = FALSE /\ DeadMade(r.made)
       ELSE Alive(r) /\ CellsOk(r.t.buf, r) /\ CellsOk(cut, r)

-----------------------------------------------------------------------------
(* The transcript of a flight *)

\* tr goes on where base ends
Extends(tr, base) ==
    /\ IsSeq(tr) /\ IsSeq(base) /\ Len(base) <= Len(tr)
    /\ SubSeq(tr, 1, Len(base)) = base
    /\ \A i \in 1..Len(base) : tr[i] = base[i]

\* A transcript goes on from itself.
LEMMA ExtendsItself ==
    ASSUME NEW tr, IsSeq(tr)
    PROVE  Extends(tr, tr)
<1>1. SubSeq(tr, 1, Len(tr)) = tr /\ Len(tr) \in Nat
  BY HeardPrefix, Heard, Zenon
<1>2. Len(tr) <= Len(tr)
  BY <1>1
<1> QED BY <1>1, <1>2, Zenon DEF Extends

\* A message more, and it still does.
LEMMA ExtendsMore ==
    ASSUME NEW tr, NEW base, Extends(tr, base), NEW m
    PROVE  Extends(Append(tr, m), base)
<1> DEFINE new == Append(tr, m)
<1>1. /\ IsSeq(new) /\ Len(tr) \in Nat /\ Len(new) = Len(tr) + 1
      /\ \A i \in 1..Len(tr) : new[i] = tr[i]
      /\ \A n \in 0..Len(tr) : SubSeq(new, 1, n) = SubSeq(tr, 1, n)
  BY Heard, HeardPrefix, ZenonT(40) DEF Extends
<1>2. /\ IsSeq(base) /\ Len(base) <= Len(tr) /\ SubSeq(tr, 1, Len(base)) = base
      /\ \A i \in 1..Len(base) : tr[i] = base[i]
  BY DEF Extends
<1>3. Len(base) \in Nat
  BY <1>2, Heard, Zenon
<1> HIDE DEF new
<1>4. Len(base) \in 0..Len(tr) /\ Len(base) <= Len(new)
  BY <1>1, <1>2, <1>3
<1>5. \A i \in 1..Len(base) : i \in 1..Len(tr)
  BY <1>1, <1>2, <1>3
<1> QED BY <1>1, <1>2, <1>4, <1>5, Zenon DEF Extends, new

\* the ServerHello sh answers m after what was heard before, the server's proof
\* is where LegalAuthentication looks for it, and the Finished closes the flight
FlightOf(tr, before, m, sh, psk) ==
    LET n == Len(before) IN
    /\ Extends(tr, Append(Append(before, m), sh))
    /\ psk => Len(tr) = n + 4 /\ tr[n + 4].type = "finished"
    /\ ~psk => /\ Len(tr) = n + 6 /\ tr[n + 4].type = "certificate"
               /\ tr[n + 5].type = "certificate_verify"
               /\ tr[n + 5].over = SubSeq(tr, 1, n + 4)

\* A resumed flight.
LEMMA ResumedFlight ==
    ASSUME NEW before, IsSeq(before), NEW m, NEW sh, NEW ee, NEW fin, fin.type = "finished"
    PROVE  FlightOf(Append(Append(Append(Append(before, m), sh), ee), fin), before, m, sh, TRUE)
<1> DEFINE base == Append(Append(before, m), sh)
           t1   == Append(base, ee)
           tr   == Append(t1, fin)
           n    == Len(before)
<1>1. IsSeq(Append(before, m)) /\ n \in Nat /\ Len(Append(before, m)) = n + 1
  BY Heard, Zenon
<1>2. IsSeq(base) /\ Len(base) = Len(Append(before, m)) + 1
  BY <1>1, Heard, Zenon
<1> HIDE DEF base
<1>3. Extends(base, base) /\ Extends(t1, base) /\ Extends(tr, base)
  BY <1>2, ExtendsItself, ExtendsMore, Zenon
<1>4. IsSeq(t1) /\ Len(t1) = Len(base) + 1
  BY <1>2, Heard, Zenon
<1> HIDE DEF t1
<1>5. Len(tr) = Len(t1) + 1 /\ tr[Len(t1) + 1] = fin
  BY <1>4, Heard, Zenon
<1> HIDE DEF tr, n
<1>6. Len(t1) + 1 = n + 4
  BY <1>1, <1>2, <1>4
<1>7. Len(tr) = n + 4 /\ tr[n + 4].type = "finished"
  BY <1>5, <1>6, Zenon
<1>8. FlightOf(tr, before, m, sh, TRUE)
  BY <1>3, <1>7, Zenon DEF FlightOf, base, n
<1> QED BY <1>8, Zenon DEF tr, t1, base

\* A flight with a certificate.
LEMMA CertifiedFlight ==
    ASSUME NEW before, IsSeq(before), NEW m, NEW sh, NEW ee, NEW c, NEW v, NEW fin,
           c.type = "certificate", v.type = "certificate_verify",
           v.over = Append(Append(Append(Append(before, m), sh), ee), c)
    PROVE  FlightOf(Append(Append(Append(Append(Append(Append(before, m), sh), ee), c), v), fin),
                    before, m, sh, FALSE)
<1> DEFINE base == Append(Append(before, m), sh)
           t1   == Append(base, ee)
           t2   == Append(t1, c)
           t3   == Append(t2, v)
           tr   == Append(t3, fin)
           n    == Len(before)
<1>1. IsSeq(Append(before, m)) /\ n \in Nat /\ Len(Append(before, m)) = n + 1
  BY Heard, Zenon
<1>2. IsSeq(base) /\ Len(base) = Len(Append(before, m)) + 1
  BY <1>1, Heard, Zenon
<1> HIDE DEF base
<1>3. Extends(base, base) /\ Extends(t1, base) /\ Extends(t2, base) /\ Extends(t3, base)
      /\ Extends(tr, base)
  BY <1>2, ExtendsItself, ExtendsMore, Zenon
<1>4. IsSeq(t1) /\ Len(t1) = Len(base) + 1
  BY <1>2, Heard, Zenon
<1> HIDE DEF t1
<1>5. IsSeq(t2) /\ Len(t2) = Len(t1) + 1 /\ t2[Len(t1) + 1] = c
  BY <1>4, Heard, Zenon
<1>6. v.over = t2
  BY DEF t2, t1, base
<1> HIDE DEF t2
<1>7. /\ IsSeq(t3) /\ Len(t3) = Len(t2) + 1 /\ t3[Len(t2) + 1] = v
      /\ \A i \in 1..Len(t2) : t3[i] = t2[i]
  BY <1>5, Heard, ZenonT(40)
<1>8. Extends(t2, t2) /\ Extends(t3, t2) /\ Extends(tr, t2)
  BY <1>5, ExtendsItself, ExtendsMore, Zenon
<1> HIDE DEF t3
<1>9. Len(tr) = Len(t3) + 1 /\ \A i \in 1..Len(t3) : tr[i] = t3[i]
  BY <1>7, Heard, ZenonT(40)
<1> HIDE DEF tr, n
<1>10. /\ Len(t1) + 1 = n + 4 /\ Len(t2) = n + 4 /\ Len(t2) + 1 = n + 5 /\ Len(tr) = n + 6
       /\ n + 4 \in 1..Len(t2) /\ n + 5 \in 1..Len(t3)
  BY <1>1, <1>2, <1>4, <1>5, <1>7, <1>9
<1>11. tr[n + 4] = c
  BY <1>5, <1>8, <1>10, Zenon DEF Extends
<1>12. tr[n + 5] = v
  BY <1>7, <1>9, <1>10, Zenon
<1>13. SubSeq(tr, 1, n + 4) = t2
  BY <1>8, <1>10, Zenon DEF Extends
<1>14. FlightOf(tr, before, m, sh, FALSE)
  BY <1>3, <1>6, <1>10, <1>11, <1>12, <1>13, ZenonT(40) DEF FlightOf, base, n
<1> QED BY <1>14, Zenon DEF tr, t3, t2, t1, base

\* what a flight leaves alone
FlightTls == Selected \cup KeyedTls \cup {"transcript", "rd_secret", "wr_secret"}
FlightHs  == KeyedHs \cup {"master"}

\* a selection says whether it resumes
Resuming(sel) == sel.psk_selected \in BOOLEAN

\* the session after the flight that answers m with sel
FlightSent(h, before, m, sel, g) ==
    LET sh == ServerHello(sel, FALSE, << >>) IN
    /\ SameBut(h, g, FlightTls, FlightHs) /\ CanSeal(g) /\ BeforeApp(g.made)
    /\ g.t.suite = sel.suite /\ g.t.sigalg = sel.sigalg
    /\ g.t.psk_selected = sel.psk_selected
    /\ g.t.alpn_selected = alpn_selected(h.t.cfg, m)
    /\ DOMAIN g.t.rd = {"key", "seq"}
    /\ g.hs.c_hs.label = "c hs" /\ g.hs.c_hs.over = Append(h.t.transcript, sh)
    /\ g.t.wr = [key |-> g.t.wr_secret, seq |-> 0]
    /\ g.t.wr_secret.over = g.t.transcript
    /\ FlightOf(g.t.transcript, before, m, sh, sel.psk_selected)

\* The flight: every message in its place, under the keys of its time, or a refusal.
LEMMA Flies ==
    ASSUME NEW h, Flying(h), NEW m, m.limit \in Nat, NEW sel, Resuming(sel),
           NEW signs, NEW before, IsSeq(before), h.t.transcript = Append(before, m)
    PROVE  LET p == server_flight(h, m, sel, signs) IN
           /\ IsSession(p.h) /\ p.ok \in BOOLEAN
           /\ p.ok => /\ EndsRecord(h) /\ \E g :
                         /\ p.h = Goto(g, "AWAIT_CLIENT_FINISHED")
                         /\ FlightSent(h, before, m, sel, g)
           /\ ~p.ok => Spoilt(p.h)
<1> DEFINE sh  == ServerHello(sel, FALSE, << >>)
           psk == sel.psk_selected
           s1  == srv_send_server_hello(h, m, sel)
           s2  == srv_send_compat_ccs(s1.h, m)
           k2  == s2.h
           st  == srv_store_selection(k2, m, sel)
           s3  == srv_derive_handshake_secrets(st, m, sel)
           s4  == srv_send_encrypted_extensions(s3.h)
           k4  == s4.h
           c1  == srv_send_certificate(k4)
           s5  == IF psk THEN Ok(k4)
                  ELSE IF c1.ok THEN srv_send_certificate_verify(c1.h, signs) ELSE c1
           s6  == srv_send_finished(s5.h)
           g   == s6.h
           p   == server_flight(h, m, sel, signs)
           ee  == [type |-> "encrypted_extensions", size |-> 1, malformed |-> FALSE,
                   exts |-> (IF s3.h.t.alpn_selected = "none" THEN << >>
                             ELSE << [ext |-> "alpn", body |-> "ok"] >>)
                            \o (IF OverQuic(s3.h)
                                THEN << [ext |-> "transport_params", body |-> "ok"] >>
                                ELSE << >>)]
           tr  == h.t.transcript
<1>1. p = IF ~EndsRecord(h) THEN No(h, "unexpected_message")
          ELSE IF ~s1.ok THEN s1 ELSE IF ~s2.ok THEN s2 ELSE IF ~s3.ok THEN s3
          ELSE IF ~s4.ok THEN s4 ELSE IF ~s5.ok THEN s5 ELSE IF ~s6.ok THEN s6
          ELSE Ok(Goto(g, "AWAIT_CLIENT_FINISHED"))
  BY Zenon DEF server_flight, Then
<1>2. /\ IsSession(s1.h) /\ s1.ok \in BOOLEAN
      /\ s1.ok => /\ Flying(s1.h) /\ SameBut(h, s1.h, {"transcript"}, {})
                  /\ s1.h.t.transcript = Append(tr, sh)
      /\ ~s1.ok => Spoilt(s1.h)
  BY SendsServerHello, Zenon
<1>3. s1.ok => /\ IsSession(s2.h) /\ s2.ok \in BOOLEAN
               /\ s2.ok => Flying(s2.h) /\ SameBut(s1.h, s2.h, {}, {})
               /\ ~s2.ok => Spoilt(s2.h)
  BY <1>2, OutCcs, ZenonT(40)
<1>4. s1.ok /\ s2.ok =>
         /\ Flying(st) /\ SameBut(s2.h, st, Selected, {})
         /\ st.t.suite = sel.suite /\ st.t.sigalg = sel.sigalg
         /\ st.t.psk_selected = sel.psk_selected
         /\ st.t.alpn_selected = alpn_selected(s2.h.t.cfg, m)
  <2> SUFFICES ASSUME s1.ok, s2.ok
               PROVE  /\ Flying(st) /\ SameBut(k2, st, Selected, {})
                      /\ st.t.suite = sel.suite /\ st.t.sigalg = sel.sigalg
                      /\ st.t.psk_selected = sel.psk_selected
                      /\ st.t.alpn_selected = alpn_selected(k2.t.cfg, m)
    OBVIOUS
  <2>1. Flying(k2)
    BY <1>3, Zenon
  <2> HIDE DEF k2
  <2> QED BY <2>1, StoresSelection, SMTT(30)
<1>5. s1.ok /\ s2.ok =>
         /\ IsSession(s3.h) /\ s3.ok \in BOOLEAN
         /\ s3.ok => /\ Flying(s3.h) /\ SameBut(st, s3.h, KeyedTls, KeyedHs)
                     /\ s3.h.hs.c_hs.label = "c hs" /\ s3.h.hs.c_hs.over = st.t.transcript
                     /\ DOMAIN s3.h.t.rd = {"key", "seq"}
                     /\ {"label", "over"} \subseteq DOMAIN s3.h.hs.handshake_secret
         /\ ~s3.ok => Spoilt(s3.h)
  <2> HIDE DEF st
  <2> QED BY <1>4, Derives, Zenon
<1>6. s1.ok /\ s2.ok /\ s3.ok =>
         /\ IsSession(s4.h) /\ s4.ok \in BOOLEAN
         /\ s4.ok => /\ Flying(s4.h) /\ SameBut(s3.h, s4.h, {"wr", "transcript"}, {})
                     /\ s4.h.t.transcript = Append(s3.h.t.transcript, ee)
         /\ ~s4.ok => Spoilt(s4.h)
  <2>1. s4 = Send(s3.h, ee)
    BY Zenon DEF srv_send_encrypted_extensions
  <2>2. ee.size \in Nat
    OBVIOUS
  <2> HIDE DEF ee, s3, s4
  <2> QED BY <2>1, <2>2, <1>5, Sends, Zenon
<1>7. s1.ok /\ s2.ok /\ s3.ok /\ s4.ok =>
         /\ IsSession(s5.h) /\ s5.ok \in BOOLEAN
         /\ s5.ok => /\ Flying(s5.h) /\ SameBut(s4.h, s5.h, {"wr", "transcript"}, {})
                     /\ psk => s5.h.t.transcript = s4.h.t.transcript
                     /\ ~psk => \E c, v :
                           /\ c.type = "certificate" /\ v.type = "certificate_verify"
                           /\ v.over = Append(s4.h.t.transcript, c)
                           /\ s5.h.t.transcript = Append(Append(s4.h.t.transcript, c), v)
         /\ ~s5.ok => Spoilt(s5.h)
  <2> DEFINE told == k4.t.transcript
  <2> SUFFICES ASSUME s1.ok, s2.ok, s3.ok, s4.ok
               PROVE  /\ IsSession(s5.h) /\ s5.ok \in BOOLEAN
                      /\ s5.ok => /\ Flying(s5.h) /\ SameBut(k4, s5.h, {"wr", "transcript"}, {})
                                  /\ psk => s5.h.t.transcript = told
                                  /\ ~psk => \E c, v :
                                        /\ c.type = "certificate" /\ v.type = "certificate_verify"
                                        /\ v.over = Append(told, c)
                                        /\ s5.h.t.transcript = Append(Append(told, c), v)
                      /\ ~s5.ok => Spoilt(s5.h)
    BY Zenon
  <2>1. Flying(k4)
    BY <1>6, ZenonT(40)
  <2> HIDE DEF k4, psk
  <2> QED BY <2>1, SendsProof, ZenonT(40)
<1> HIDE DEF s1, s2, st, s3, s4, c1, s5, ee
<1>8. ASSUME s1.ok, s2.ok, s3.ok, s4.ok, s5.ok
      PROVE  s5.h.hs.handshake_secret = s3.h.hs.handshake_secret
  BY <1>6, <1>7, <1>8, ZenonT(40) DEF SameBut, HsFields
<1>9. s1.ok /\ s2.ok /\ s3.ok /\ s4.ok /\ s5.ok =>
         /\ IsSession(g) /\ s6.ok \in BOOLEAN
         /\ s6.ok => /\ CanSeal(g) /\ BeforeApp(g.made)
                     /\ SameBut(s5.h, g, {"wr", "transcript", "rd_secret", "wr_secret"},
                                {"master"})
                     /\ g.t.wr = [key |-> g.t.wr_secret, seq |-> 0]
                     /\ g.t.wr_secret.over = g.t.transcript
                     /\ \E fin : /\ fin.type = "finished"
                                 /\ g.t.transcript = Append(s5.h.t.transcript, fin)
         /\ ~s6.ok => Spoilt(g)
  BY <1>5, <1>7, <1>8, SendsFinished, Zenon
<1> HIDE DEF s6, p, sh
<1>10. CASE ~EndsRecord(h)
  <2>1. p = No(h, "unexpected_message") /\ IsSession(h)
    BY <1>1, <1>10, Zenon DEF Flying, Open
  <2>2. p.ok = FALSE /\ IsSession(p.h) /\ SamePushed(h, p.h) /\ SameBut(h, p.h, {}, {"alert"})
    BY <2>1, Refusal, ZenonT(40)
  <2>3. SameBut(h, p.h, TlsFields \ {"cfg", "wr", "peer_limit"}, {"alert"})
    BY <2>2 DEF SameBut
  <2>4. Spoilt(p.h)
    BY <2>2, <2>3, FlyingStays, Zenon
  <2> QED BY <2>2, <2>4, Zenon DEF p
<1>11. CASE EndsRecord(h) /\ ~(s1.ok /\ s2.ok /\ s3.ok /\ s4.ok /\ s5.ok /\ s6.ok)
  <2>1. IsSession(p.h) /\ p.ok = FALSE /\ Spoilt(p.h)
    BY <1>1, <1>2, <1>3, <1>5, <1>6, <1>7, <1>9, <1>11, ZenonT(40)
  <2> QED BY <2>1, Zenon DEF p
<1>12. CASE EndsRecord(h) /\ s1.ok /\ s2.ok /\ s3.ok /\ s4.ok /\ s5.ok /\ s6.ok
  <2>1. p = Ok(Goto(g, "AWAIT_CLIENT_FINISHED"))
    BY <1>1, <1>12, Zenon
  <2>2. p.ok = TRUE /\ p.h = Goto(g, "AWAIT_CLIENT_FINISHED")
    BY <2>1 DEF Ok
  <2>3. IsSession(p.h)
    BY <2>2, <1>9, <1>12 DEF Goto, IsSession
  <2>4. SameBut(h, s3.h, FlightTls, FlightHs)
    <3>1. SameBut(h, s2.h, FlightTls, FlightHs)
      BY <1>2, <1>3, <1>12, SameThen, SMTT(30) DEF FlightTls, FlightHs
    <3>2. SameBut(s2.h, s3.h, FlightTls, FlightHs)
      <4>1. Selected \cup KeyedTls \subseteq FlightTls /\ {} \cup KeyedHs \subseteq FlightHs
        BY Zenon DEF FlightTls, FlightHs
      <4> QED BY <4>1, <1>4, <1>5, <1>12, ZenonT(40) DEF SameBut
    <3> QED BY <3>1, <3>2 DEF SameBut
  <2>5. SameBut(s3.h, g, {"wr", "transcript", "rd_secret", "wr_secret"}, {"master"})
    <3>1. SameBut(s3.h, s5.h, {"wr", "transcript"}, {})
      BY <1>6, <1>7, <1>12, SameThen
    <3> QED BY <3>1, <1>9, <1>12, SameThen, SMTT(30)
  <2>6. SameBut(h, g, FlightTls, FlightHs)
    <3> DEFINE T == {"wr", "transcript", "rd_secret", "wr_secret"}
    <3>1. FlightTls \cup T \subseteq FlightTls /\ FlightHs \cup {"master"} \subseteq FlightHs
      BY SMTT(30) DEF FlightTls, FlightHs, KeyedTls
    <3> QED BY <3>1, <2>4, <2>5 DEF SameBut
  <2>7. s2.h.t.transcript = Append(tr, sh) /\ s2.h.t.cfg = h.t.cfg
    BY <1>2, <1>3, <1>12, Zenon DEF SameBut, TlsFields
  <2>8. st.t.transcript = Append(tr, sh)
    BY <2>7, <1>4, <1>12 DEF SameBut, TlsFields, Selected
  <2>9. /\ s3.h.t.transcript = Append(tr, sh)
        /\ s3.h.t.suite = sel.suite /\ s3.h.t.sigalg = sel.sigalg
        /\ s3.h.t.psk_selected = sel.psk_selected
        /\ s3.h.t.alpn_selected = st.t.alpn_selected
    BY <2>8, <1>4, <1>5, <1>12, ZenonT(40) DEF SameBut, TlsFields, KeyedTls
  <2>10. /\ g.t.suite = s3.h.t.suite /\ g.t.sigalg = s3.h.t.sigalg
         /\ g.t.psk_selected = s3.h.t.psk_selected
         /\ g.t.alpn_selected = s3.h.t.alpn_selected /\ g.t.rd = s3.h.t.rd
         /\ g.hs.c_hs = s3.h.hs.c_hs
    BY <2>5, SMTT(30) DEF SameBut, TlsFields, HsFields
  <2>11. /\ g.t.suite = sel.suite /\ g.t.sigalg = sel.sigalg
         /\ g.t.psk_selected = sel.psk_selected
         /\ g.t.alpn_selected = alpn_selected(h.t.cfg, m)
         /\ DOMAIN g.t.rd = {"key", "seq"} /\ g.hs.c_hs.label = "c hs"
         /\ g.hs.c_hs.over = Append(tr, sh)
    BY <2>7, <2>8, <2>9, <2>10, <1>4, <1>5, <1>12, Zenon
  <2>12. PICK fin : fin.type = "finished" /\ g.t.transcript = Append(s5.h.t.transcript, fin)
    BY <1>9, <1>12, Zenon
  <2>13. s4.h.t.transcript = Append(Append(Append(before, m), sh), ee)
    BY <2>9, <1>6, <1>12, Zenon
  <2>14. FlightOf(g.t.transcript, before, m, sh, psk)
    <3>1. CASE psk = TRUE
      <4>1. g.t.transcript = Append(Append(Append(Append(before, m), sh), ee), fin)
        BY <3>1, <2>12, <2>13, <1>7, <1>12, ZenonT(40)
      <4>2. FlightOf(g.t.transcript, before, m, sh, TRUE)
        BY <4>1, <2>12, ResumedFlight, Zenon
      <4> QED BY <3>1, <4>2, Zenon
    <3>2. CASE psk = FALSE
      <4>1. PICK c, v : /\ c.type = "certificate" /\ v.type = "certificate_verify"
                        /\ v.over = Append(s4.h.t.transcript, c)
                        /\ s5.h.t.transcript = Append(Append(s4.h.t.transcript, c), v)
        BY <3>2, <1>7, <1>12, Zenon
      <4>2. v.over = Append(Append(Append(Append(before, m), sh), ee), c)
        BY <4>1, <2>13, Zenon
      <4>3. g.t.transcript =
               Append(Append(Append(Append(Append(Append(before, m), sh), ee), c), v), fin)
        BY <4>1, <2>12, <2>13, Zenon
      <4>4. FlightOf(g.t.transcript, before, m, sh, FALSE)
        BY <4>1, <4>2, <4>3, CertifiedFlight, ZenonT(40)
      <4> QED BY <3>2, <4>4, Zenon
    <3> QED BY <3>1, <3>2, Zenon DEF Resuming
  <2>15. FlightSent(h, before, m, sel, g)
    BY <2>6, <2>11, <2>14, <1>9, <1>12, ZenonT(40) DEF FlightSent, sh
  <2> QED BY <2>2, <2>3, <2>15, <1>12, Zenon DEF p
<1> QED BY <1>10, <1>11, <1>12, Zenon

\* What goes on from what goes on.
LEMMA ExtendsThen ==
    ASSUME NEW a, NEW b, NEW c, Extends(a, b), Extends(b, c)
    PROVE  Extends(a, c)
<1>1. /\ IsSeq(a) /\ IsSeq(c) /\ Len(c) <= Len(b) /\ Len(b) <= Len(a)
      /\ b = SubSeq(a, 1, Len(b)) /\ c = SubSeq(b, 1, Len(c))
      /\ \A i \in 1..Len(b) : a[i] = b[i]
      /\ \A i \in 1..Len(c) : b[i] = c[i]
  BY Zenon DEF Extends
<1>2. Len(a) \in Nat /\ Len(b) \in Nat /\ Len(c) \in Nat
  BY Heard, Zenon DEF Extends
<1>3. Len(c) <= Len(a) /\ \A i \in 1..Len(c) : i \in 1..Len(b)
  BY <1>1, <1>2
<1>4. PICK S : a \in Seq(S)
  BY <1>1, Zenon DEF IsSeq
<1>5. \A n, k \in Nat : n <= k /\ k <= Len(a) => SubSeq(SubSeq(a, 1, k), 1, n) = SubSeq(a, 1, n)
  BY <1>4
<1>6. SubSeq(SubSeq(a, 1, Len(b)), 1, Len(c)) = SubSeq(a, 1, Len(c))
  BY <1>1, <1>2, <1>5, Zenon
<1>7. SubSeq(a, 1, Len(c)) = c
  BY <1>1, <1>6, Zenon
<1> QED BY <1>1, <1>3, <1>7, Zenon DEF Extends

\* Two messages heard after what was heard before.
LEMMA TwoHeard ==
    ASSUME NEW before, IsSeq(before), NEW m, NEW sh
    PROVE  LET base == Append(Append(before, m), sh)
               n    == Len(before)
           IN  /\ IsSeq(base) /\ n \in Nat /\ Len(base) = n + 2
               /\ base[n + 1] = m /\ base[n + 2] = sh /\ Extends(base, before)
<1> DEFINE one  == Append(before, m)
           base == Append(one, sh)
           n    == Len(before)
<1>1. /\ IsSeq(one) /\ n \in Nat /\ Len(one) = n + 1 /\ one[n + 1] = m
  BY Heard, Zenon
<1>2. Extends(one, before)
  BY ExtendsItself, ExtendsMore, Zenon
<1> HIDE DEF one
<1>3. /\ IsSeq(base) /\ Len(base) = Len(one) + 1 /\ base[Len(one) + 1] = sh
      /\ \A i \in 1..Len(one) : base[i] = one[i]
  BY <1>1, Heard
<1>4. Extends(base, before)
  BY <1>2, ExtendsMore, Zenon
<1> HIDE DEF base, n
<1>5. n + 1 \in 1..Len(one) /\ Len(one) + 1 = n + 2
  BY <1>1
<1>6. IsSeq(base) /\ n \in Nat /\ Len(base) = n + 2 /\ base[n + 1] = m /\ base[n + 2] = sh
  BY <1>1, <1>3, <1>5, Zenon
<1> QED BY <1>4, <1>6, Zenon DEF base, one, n

\* The places of a flight's messages.
LEMMA FlightPlaces ==
    ASSUME NEW before, IsSeq(before), NEW m, m.type = "client_hello", NEW sh, NEW psk, NEW tr,
           FlightOf(tr, before, m, sh, psk),
           \/ Len(before) = 0
           \/ Len(before) = 2 /\ before[1].type = "message_hash"
    PROVE  LET at == Len(before) + 2 IN
           /\ IsSeq(tr) /\ HelloAt(tr) = at /\ at \in {2, 4}
           /\ tr[at] = sh /\ tr[at - 1] = m
           /\ SubSeq(tr, 1, at) = Append(Append(before, m), sh)
           /\ SubSeq(tr, 1, at - 2) = before
           /\ \A i \in 1..Len(before) : tr[i] = before[i]
           /\ psk => Len(tr) = at + 2 /\ tr[at + 2].type = "finished"
           /\ ~psk => /\ Len(tr) = at + 4 /\ tr[at + 2].type = "certificate"
                      /\ tr[at + 3].type = "certificate_verify"
                      /\ tr[at + 3].over = SubSeq(tr, 1, at + 2)
<1> DEFINE n    == Len(before)
           base == Append(Append(before, m), sh)
           at   == n + 2
<1>1. /\ IsSeq(base) /\ n \in Nat /\ Len(base) = n + 2
      /\ base[n + 1] = m /\ base[n + 2] = sh /\ Extends(base, before)
  BY TwoHeard, Zenon
<1>3. Extends(tr, base)
  BY Zenon DEF FlightOf
<1> HIDE DEF base
<1>4. Extends(tr, before)
  BY <1>1, <1>3, ExtendsThen, Zenon
<1>5. n + 1 \in 1..Len(base) /\ n + 2 \in 1..Len(base) /\ Len(base) = n + 2
  BY <1>1
<1>6. tr[n + 2] = sh /\ tr[n + 1] = m /\ IsSeq(tr)
  BY <1>1, <1>3, <1>5, Zenon DEF Extends
<1>7. /\ SubSeq(tr, 1, n + 2) = base /\ SubSeq(tr, 1, n) = before
      /\ \A i \in 1..n : tr[i] = before[i]
  BY <1>3, <1>4, <1>5, Zenon DEF Extends
<1>8. /\ psk => Len(tr) = n + 4 /\ tr[n + 4].type = "finished"
      /\ ~psk => /\ Len(tr) = n + 6 /\ tr[n + 4].type = "certificate"
                 /\ tr[n + 5].type = "certificate_verify"
                 /\ tr[n + 5].over = SubSeq(tr, 1, n + 4)
  BY Zenon DEF FlightOf
<1>9. /\ at \in {2, 4} /\ at - 1 = n + 1 /\ at - 2 = n /\ at + 2 = n + 4 /\ at + 3 = n + 5
      /\ at + 4 = n + 6
  <2>1. n = 0 \/ n = 2
    BY Zenon
  <2> HIDE DEF n
  <2> QED BY <2>1, <1>1
<1>10. HelloAt(tr) = at
  <2>1. CASE n = 0
    <3>1. tr[1] = m
      BY <2>1, <1>6
    <3>2. tr[1].type # "message_hash"
      BY <3>1
    <3>3. HelloAt(tr) = 2
      BY <3>2, Zenon DEF HelloAt
    <3> QED BY <2>1, <3>3
  <2>2. CASE n = 2 /\ before[1].type = "message_hash"
    <3>1. 1 \in 1..n
      BY <2>2
    <3>2. tr[1].type = "message_hash"
      BY <3>1, <2>2, <1>7, Zenon
    <3>3. HelloAt(tr) = 4
      BY <3>2, Zenon DEF HelloAt
    <3> QED BY <2>2, <3>3
  <2> QED BY <2>1, <2>2
<1> HIDE DEF n
<1>11. /\ IsSeq(tr) /\ HelloAt(tr) = at /\ at \in {2, 4}
       /\ tr[at] = sh /\ tr[at - 1] = m
       /\ SubSeq(tr, 1, at) = base
       /\ SubSeq(tr, 1, at - 2) = before
       /\ \A i \in 1..n : tr[i] = before[i]
       /\ psk => Len(tr) = at + 2 /\ tr[at + 2].type = "finished"
       /\ ~psk => /\ Len(tr) = at + 4 /\ tr[at + 2].type = "certificate"
                  /\ tr[at + 3].type = "certificate_verify"
                  /\ tr[at + 3].over = SubSeq(tr, 1, at + 2)
  BY <1>6, <1>7, <1>8, <1>9, <1>10, Zenon
<1> QED BY <1>11, Zenon DEF n, base

\* the retry that came before, which the ServerHello repeats
Repeats(before, m, sel) ==
    /\ Len(before) = 2 /\ before[1].type = "message_hash"
    /\ before[2].hrr /\ before[2].suite = sel.suite /\ before[2].group = sel.group
    /\ Len(before[1].of) = 1 /\ sel.group \notin before[1].of[1].shares
    /\ Frozen(m) = Frozen(before[1].of[1])

\* an answer the server may give to the hello m, after what was heard before
MayAnswer(h, before, m, sel) ==
    /\ IsSeq(before) /\ (Len(before) = 0 \/ Repeats(before, m, sel))
    /\ m.type = "client_hello" /\ h.t.transcript = Append(before, m)
    /\ Prefers(h.t.cfg, m, sel.suite, sel.group) /\ sel.group \in m.shares
    /\ h.t.cfg.require_server_name => m.sni
    /\ Authenticates(h, m, sel)

\* A ticket that a session resumes on is proved.
LEMMA TicketIsProved ==
    ASSUME NEW h, NEW before, IsSeq(before), NEW m, h.t.transcript = Append(before, m),
           NEW s, NEW i, Resumes(h, m, s, i), m.tickets[i].auth \in Nat, h.t.cfg.now \in Nat,
           NEW g, g.t.cfg = h.t.cfg, g.t.suite = s.suite,
           g.t.alpn_selected = alpn_selected(h.t.cfg, m)
    PROVE  i \in 1..Len(m.tickets) /\ ProvedTicket(g, m, i, before)
<1> DEFINE ticket == m.tickets[i]
           now    == h.t.cfg.now
           naked  == [m EXCEPT !.binders = << >>]
<1>1. /\ i \in 1..Len(m.tickets) /\ ticket.key /\ ticket_fresh(ticket.auth, now)
      /\ HashOf(ticket.suite) = HashOf(s.suite) /\ ticket.alpn = alpn_selected(h.t.cfg, m)
      /\ m.binders[i] = [psk |-> ticket.psk, over |-> Append(Front(h.t.transcript), naked)]
  BY ZenonT(40) DEF Resumes, ticket_holds
<1>2. now \in ticket.auth..(ticket.auth + TicketLifetime)
  <2>1. now >= ticket.auth /\ now - ticket.auth <= TicketLifetime
    BY <1>1 DEF ticket_fresh
  <2> QED BY <2>1, LifetimeAssumption, SMTT(30)
<1>3. Front(h.t.transcript) = before
  BY HeardPrefix, Zenon
<1>4. Append(before, naked) = before \o << naked >>
  <2>1. PICK S : before \in Seq(S)
    BY DEF IsSeq
  <2>2. before \in Seq(S \cup {naked})
    BY <2>1
  <2> HIDE DEF naked
  <2> QED BY <2>2
<1> HIDE DEF ticket, now, naked
<1>5. m.binders[i].psk = ticket.psk /\ m.binders[i].over = before \o << naked >>
  <2>1. m.binders[i] = [psk |-> ticket.psk, over |-> before \o << naked >>]
    BY <1>1, <1>3, <1>4, Zenon
  <2> QED BY <2>1
<1>6. /\ ticket.key /\ g.t.cfg.now \in ticket.auth..(ticket.auth + TicketLifetime)
      /\ HashOf(ticket.suite) = HashOf(g.t.suite) /\ ticket.alpn = g.t.alpn_selected
  BY <1>1, <1>2, Zenon DEF now
<1> QED BY <1>1, <1>5, <1>6, Zenon DEF ProvedTicket, ticket, naked

\* What was chosen and who was proved depend on the session's t alone.
LEMMA LegalSame ==
    ASSUME NEW h, NEW g, g.t = h.t, Legal(h)
    PROVE  Legal(g)
<1>1. LegalSelection(g)
  <2>1. LegalSelection(h)
    BY Zenon DEF Legal
  <2> QED BY <2>1, Zenon DEF LegalSelection
<1>2. LegalAuthentication(g)
  <2>1. LegalAuthentication(h)
    BY Zenon DEF Legal
  <2> QED BY <2>1, ZenonT(40) DEF LegalAuthentication, ProvedTicket
<1> QED BY <1>1, <1>2, Zenon DEF Legal

\* every ticket of a hello says when its holder was authenticated
Dated(m) == \A i \in 1..Len(m.tickets) : m.tickets[i].auth \in Nat

\* An answer the server may give makes a legal flight.
LEMMA FlightIsLegal ==
    ASSUME NEW h, NEW before, NEW m, NEW sel, MayAnswer(h, before, m, sel),
           Dated(m), h.t.cfg.now \in Nat, NEW g, FlightSent(h, before, m, sel, g)
    PROVE  LET tr == g.t.transcript IN
           /\ Legal(g)
           /\ SubSeq(tr, 1, HelloAt(tr)) = Append(h.t.transcript, ServerHello(sel, FALSE, << >>))
<1> DEFINE sh  == ServerHello(sel, FALSE, << >>)
           tr  == g.t.transcript
           at  == HelloAt(tr)
           psk == sel.psk_selected
           cfg == g.t.cfg
<1>11. /\ g.t.suite = sel.suite /\ g.t.sigalg = sel.sigalg
       /\ g.t.psk_selected = sel.psk_selected /\ g.t.alpn_selected = alpn_selected(h.t.cfg, m)
       /\ FlightOf(tr, before, m, sh, psk) /\ SameBut(h, g, FlightTls, FlightHs)
  BY Zenon DEF FlightSent
<1>12. g.t.cfg = h.t.cfg
  BY <1>11, Zenon DEF SameBut, TlsFields, FlightTls, Selected, KeyedTls
<1>1. /\ IsSeq(before) /\ m.type = "client_hello"
      /\ h.t.transcript = Append(before, m) /\ Prefers(cfg, m, sel.suite, sel.group)
      /\ sel.group \in m.shares /\ (cfg.require_server_name => m.sni)
      /\ (Len(before) = 0 \/ Repeats(before, m, sel)) /\ Authenticates(h, m, sel)
  BY <1>12, Zenon DEF MayAnswer
<1>2. \/ Len(before) = 0
      \/ Len(before) = 2 /\ before[1].type = "message_hash"
  BY <1>1, ZenonT(40) DEF Repeats
<1>3. /\ sh.type = "server_hello" /\ sh.hrr = FALSE /\ sh.suite = sel.suite
      /\ sh.group = sel.group /\ (psk => sh.psk # "none") /\ (~psk => sh.psk = "none")
  BY DEF ServerHello
<1> HIDE DEF sh
<1>4. /\ IsSeq(tr) /\ at = Len(before) + 2 /\ at \in {2, 4} /\ tr[at] = sh /\ tr[at - 1] = m
      /\ SubSeq(tr, 1, at) = Append(Append(before, m), sh) /\ SubSeq(tr, 1, at - 2) = before
      /\ \A i \in 1..Len(before) : tr[i] = before[i]
      /\ psk => Len(tr) = at + 2 /\ tr[at + 2].type = "finished"
      /\ ~psk => /\ Len(tr) = at + 4 /\ tr[at + 2].type = "certificate"
                 /\ tr[at + 3].type = "certificate_verify"
                 /\ tr[at + 3].over = SubSeq(tr, 1, at + 2)
  <2>1. FlightOf(tr, before, m, sh, psk)
    BY <1>11, SMTT(30)
  <2> DEFINE k == Len(before) + 2
  <2> HIDE DEF tr, psk
  <2>2. /\ IsSeq(tr) /\ at = k /\ k \in {2, 4} /\ tr[k] = sh /\ tr[k - 1] = m
        /\ SubSeq(tr, 1, k) = Append(Append(before, m), sh) /\ SubSeq(tr, 1, k - 2) = before
        /\ \A i \in 1..Len(before) : tr[i] = before[i]
        /\ psk => Len(tr) = k + 2 /\ tr[k + 2].type = "finished"
        /\ ~psk => /\ Len(tr) = k + 4 /\ tr[k + 2].type = "certificate"
                   /\ tr[k + 3].type = "certificate_verify"
                   /\ tr[k + 3].over = SubSeq(tr, 1, k + 2)
    BY <2>1, <1>1, <1>2, FlightPlaces, SMTT(30)
  <2>3. at = Len(before) + 2
    BY <2>2
  <2> HIDE DEF k, at
  <2> QED BY <2>2, <2>3, ZenonT(40)
<1>5. psk \in BOOLEAN /\ (psk => \E s : s.suite = sel.suite /\ Resumes(h, m, s, sel.index))
      /\ (~psk => sel.sigalg \in m.sigalgs \cap cfg.identities)
  BY <1>1, <1>12, Zenon DEF Authenticates
<1>6. ASSUME at = 4
      PROVE  /\ tr[2].hrr /\ tr[2].suite = sh.suite /\ tr[2].group = sh.group
             /\ Len(tr[1].of) = 1 /\ sh.group \notin tr[1].of[1].shares
             /\ Frozen(m) = Frozen(tr[1].of[1])
  <2>1. Len(before) # 0 /\ 1 \in 1..2 /\ 2 \in 1..2
    BY <1>4, <1>6, SMTT(30)
  <2>2. Repeats(before, m, sel)
    BY <2>1, <1>1
  <2>3. tr[1] = before[1] /\ tr[2] = before[2]
    BY <2>1, <2>2, <1>4, Zenon DEF Repeats
  <2> QED BY <2>2, <2>3, <1>3, ZenonT(40) DEF Repeats
<1>7. LegalSelection(g)
  <2>1. /\ sel.suite = FirstOffered(cfg.suites, m.suites) /\ sel.suite # "none"
        /\ sel.group = FirstOffered(GroupOrder, m.groups) /\ ~alpn_mismatch(cfg, m)
    BY <1>1, Zenon DEF Prefers
  <2>2. g.t.alpn_selected = FirstOffered(cfg.alpn, m.alpn)
    BY <1>11, <1>12, Zenon DEF alpn_selected
  <2>3. ~g.t.psk_selected => g.t.sigalg \in m.sigalgs \cap cfg.identities
    BY <1>5, <1>11, Zenon
  <2> DEFINE Stated(ch, s) ==
        /\ ch.type = "client_hello" /\ s.type = "server_hello" /\ ~s.hrr
        /\ s.suite = FirstOffered(cfg.suites, ch.suites) /\ s.suite # "none"
        /\ s.group = FirstOffered(GroupOrder, ch.groups) /\ s.group \in ch.shares
        /\ ~alpn_mismatch(cfg, ch) /\ g.t.alpn_selected = FirstOffered(cfg.alpn, ch.alpn)
        /\ cfg.require_server_name => ch.sni
        /\ ~g.t.psk_selected => g.t.sigalg \in ch.sigalgs \cap cfg.identities
        /\ at = 4 => /\ tr[2].hrr /\ tr[2].suite = s.suite /\ tr[2].group = s.group
                     /\ Len(tr[1].of) = 1 /\ s.group \notin tr[1].of[1].shares
                     /\ Frozen(ch) = Frozen(tr[1].of[1])
  <2>4. Stated(m, sh)
    BY <1>1, <1>3, <1>6, <2>1, <2>2, <2>3, ZenonT(40)
  <2>5. Stated(tr[at - 1], tr[at])
    <3> HIDE DEF Stated, at
    <3> QED BY <2>4, <1>4, Zenon
  <2> QED BY <2>5, Zenon DEF LegalSelection
<1>8. LegalAuthentication(g)
  <2>1. CASE psk = TRUE
    <3>1. PICK s : s.suite = sel.suite /\ Resumes(h, m, s, sel.index)
      BY <2>1, <1>5, Zenon
    <3>2. sel.index \in 1..Len(m.tickets)
      BY <3>1, Zenon DEF Resumes
    <3>3. g.t.suite = s.suite /\ m.tickets[sel.index].auth \in Nat
      BY <3>1, <3>2, <1>11, Zenon DEF Dated
    <3>4. ProvedTicket(g, m, sel.index, before)
      BY <3>1, <3>2, <3>3, <1>1, <1>11, <1>12, TicketIsProved, ZenonT(40)
    <3>5. tr[at].psk # "none" /\ tr[at + 2].type = "finished"
      BY <2>1, <1>3, <1>4, Zenon
    <3>6. \E i \in 1..Len(tr[at - 1].tickets) :
             ProvedTicket(g, tr[at - 1], i, SubSeq(tr, 1, at - 2))
      <4> HIDE DEF at, tr
      <4> QED BY <3>2, <3>4, <1>4, ZenonT(40)
    <3>7. g.t.psk_selected = TRUE
      BY <2>1, <1>11
    <3> QED BY <3>5, <3>6, <3>7, Zenon DEF LegalAuthentication
  <2>2. CASE psk = FALSE
    <3>1. /\ tr[at].psk = "none" /\ tr[at + 2].type = "certificate"
          /\ tr[at + 3].type = "certificate_verify"
          /\ tr[at + 3].over = SubSeq(tr, 1, at + 2)
      BY <2>2, <1>3, <1>4, ZenonT(40)
    <3>2. g.t.psk_selected = FALSE
      BY <2>2, <1>11
    <3> QED BY <3>1, <3>2, Zenon DEF LegalAuthentication
  <2> QED BY <1>5, <2>1, <2>2, Zenon
<1>9. Len(tr) >= at + (IF g.t.psk_selected THEN 2 ELSE 3)
  <2>1. /\ psk => Len(tr) = at + 2
        /\ ~psk => Len(tr) = at + 4
        /\ at \in Nat /\ g.t.psk_selected = psk
    BY <1>4, <1>11
  <2> HIDE DEF at, tr, psk
  <2> QED BY <2>1, SMTT(30)
<1>10. Legal(g)
  BY <1>4, <1>7, <1>8, <1>9, Zenon DEF Legal
<1> QED BY <1>1, <1>4, <1>10, Zenon DEF sh

\* A flight that went out leaves a session that awaits the client's Finished.
LEMMA Answers ==
    ASSUME NEW h, Flying(h), h.t.cfg \in Configs, h.t.state = "START",
           NEW m, m.limit \in Nat, Dated(m), NEW before, NEW sel, MayAnswer(h, before, m, sel), NEW signs
    PROVE  LET p == server_flight(h, m, sel, signs) IN
           /\ IsSession(p.h) /\ p.ok \in BOOLEAN
           /\ p.ok => /\ EndsRecord(h) /\ Alive(p.h) /\ p.h.step = "AWAIT_CLIENT_FINISHED"
                      /\ p.h.t.buf = h.t.buf
           /\ ~p.ok => Spoilt(p.h)
<1> DEFINE p   == server_flight(h, m, sel, signs)
           sh  == ServerHello(sel, FALSE, << >>)
           psk == sel.psk_selected
<1>1. IsSeq(before) /\ h.t.transcript = Append(before, m) /\ Resuming(sel)
  BY Zenon DEF MayAnswer, Authenticates, Resuming
<1>2. h.t.cfg.now \in Nat
  BY ServerAssumption, Zenon
<1>3. /\ IsSession(p.h) /\ p.ok \in BOOLEAN
      /\ p.ok => /\ EndsRecord(h) /\ \E g : /\ p.h = Goto(g, "AWAIT_CLIENT_FINISHED")
                                           /\ FlightSent(h, before, m, sel, g)
      /\ ~p.ok => Spoilt(p.h)
  BY <1>1, Flies, Zenon
<1> HIDE DEF p
<1>4. ASSUME p.ok
      PROVE  Alive(p.h) /\ p.h.step = "AWAIT_CLIENT_FINISHED" /\ p.h.t.buf = h.t.buf
  <2>14. PICK g : p.h = Goto(g, "AWAIT_CLIENT_FINISHED") /\ FlightSent(h, before, m, sel, g)
    BY <1>3, <1>4, Zenon
  <2>1. /\ SameBut(h, g, FlightTls, FlightHs) /\ CanSeal(g) /\ BeforeApp(g.made)
        /\ g.t.suite = sel.suite /\ g.t.sigalg = sel.sigalg
        /\ g.t.psk_selected = psk
        /\ g.t.alpn_selected = alpn_selected(h.t.cfg, m)
        /\ DOMAIN g.t.rd = {"key", "seq"}
        /\ g.hs.c_hs.label = "c hs"
        /\ g.hs.c_hs.over = Append(h.t.transcript, sh)
        /\ g.t.wr = [key |-> g.t.wr_secret, seq |-> 0]
        /\ g.t.wr_secret.over = g.t.transcript
        /\ FlightOf(g.t.transcript, before, m, sh, psk)
    BY <2>14, Zenon DEF FlightSent
  <2>2. g.t.cfg = h.t.cfg /\ g.t.state = "START" /\ g.t.buf = h.t.buf
    BY <2>1, Zenon DEF SameBut, TlsFields, FlightTls, Selected, KeyedTls
  <2> DEFINE tr == g.t.transcript
  <2>3. Legal(g) /\ SubSeq(tr, 1, HelloAt(tr)) = Append(h.t.transcript, sh)
    BY <2>14, <1>2, FlightIsLegal, ZenonT(40)
  <2>4. IsSession(g) /\ Open(g)
    BY <2>1, Zenon DEF CanSeal, Open
  <2> DEFINE k == p.h
  <2>5. /\ k.t = g.t /\ k.hs = g.hs /\ k.made = g.made /\ k.room = g.room
        /\ k.step = "AWAIT_CLIENT_FINISHED"
    BY <2>14, <2>4, ZenonT(40) DEF Goto, IsSession
  <2>6. IsSession(k)
    BY <1>3
  <2> HIDE DEF k
  <2>7. Open(k)
    BY <2>4, <2>5, <2>6, Zenon DEF Open
  <2>8. CanSeal(k)
    BY <2>1, <2>5, <2>7, Zenon DEF CanSeal
  <2>9. Legal(k)
    BY <2>3, <2>5, LegalSame, Zenon
  <2>10. AwaitsFinished(k)
    BY <2>1, <2>3, <2>5, <2>8, <2>9, ZenonT(40) DEF AwaitsFinished
  <2>11. k.t.state = IF k.step = "COMPLETE" THEN "CONNECTED" ELSE "START"
    BY <2>2, <2>5
  <2>12. k.t.cfg \in Configs /\ DOMAIN k.t.rd = {"key", "seq"}
    BY <2>1, <2>2, <2>5, Zenon
  <2>13. Alive(k)
    BY <2>5, <2>7, <2>10, <2>11, <2>12, ZenonT(40) DEF Alive
  <2> QED BY <2>2, <2>5, <2>13, Zenon DEF k
<1> QED BY <1>3, <1>4, Zenon DEF p

\* The call's end closes the sink, and nothing else.
LEMMA AliveClosed ==
    ASSUME NEW h, Alive(h)
    PROVE  LET g == [h EXCEPT !.room = 0] IN
           /\ IsSession(g) /\ Alive(g)
           /\ g.t = h.t /\ g.hs = h.hs /\ g.step = h.step /\ g.made = h.made
<1> DEFINE g == [h EXCEPT !.room = 0]
<1>1. Open(h) /\ IsSession(h)
  BY Zenon DEF Alive, Open
<1>2. /\ IsSession(g) /\ g.t = h.t /\ g.hs = h.hs /\ g.step = h.step /\ g.made = h.made
      /\ g.room = 0
  BY <1>1 DEF IsSession
<1> HIDE DEF g
<1>3. g.room \in Nat
  BY <1>2
<1>4. Open(g)
  BY <1>1, <1>2, <1>3, Zenon DEF Open
<1>5. ASSUME Legal(h) PROVE Legal(g)
  BY <1>2, <1>5, LegalSame, Zenon
<1>6. ASSUME AwaitsHello(h) PROVE AwaitsHello(g)
  <2>1. Flying(g)
    BY <1>2, <1>4, <1>6, Zenon DEF AwaitsHello, Flying
  <2>2. ASSUME RetryOwed(h, h.t.transcript) PROVE RetryOwed(g, g.t.transcript)
    BY <1>2, <2>2, Zenon DEF RetryOwed
  <2> QED BY <1>2, <1>6, <2>1, <2>2, Zenon DEF AwaitsHello
<1>7. ASSUME AwaitsFinished(h) PROVE AwaitsFinished(g)
  BY <1>2, <1>4, <1>5, <1>7, Zenon DEF AwaitsFinished, CanSeal
<1>8. ASSUME Proved(h) PROVE Proved(g)
  BY <1>2, <1>5, <1>8, Zenon DEF Proved
<1>9. Alive(g)
  <2>1. /\ g.t.cfg \in Configs /\ DOMAIN g.t.rd = {"key", "seq"}
        /\ g.t.state = IF g.step = "COMPLETE" THEN "CONNECTED" ELSE "START"
    <3>1. /\ h.t.cfg \in Configs /\ DOMAIN h.t.rd = {"key", "seq"}
          /\ h.t.state = IF h.step = "COMPLETE" THEN "CONNECTED" ELSE "START"
      BY Zenon DEF Alive
    <3> QED BY <1>2, <3>1
  <2>2. \/ g.step \in {"AWAIT_CLIENT_HELLO", "AWAIT_RETRY_HELLO"} /\ AwaitsHello(g)
        \/ g.step = "AWAIT_CLIENT_FINISHED" /\ AwaitsFinished(g)
        \/ g.step = "COMPLETE" /\ Proved(g)
    BY <1>2, <1>6, <1>7, <1>8, Zenon DEF Alive
  <2> QED BY <1>4, <2>1, <2>2, ZenonT(40) DEF Alive
<1> QED BY <1>2, <1>9, Zenon DEF g

-----------------------------------------------------------------------------
(* Failure, and the cells still to be read *)

\* The alert of a failure is the last record of a session.
LEMMA Tells ==
    ASSUME NEW h, Spoilt(h), NEW taken
    PROVE  LET d == Told(h, taken) IN
           IsSession(d) /\ session_dead(d) /\ DeadMade(d.made)
<1> DEFINE dead == [tcp_nonblocking_fail(h) EXCEPT !.room = 0]
           rec  == alert_record(h, OwedAlert(h))
           new  == Made(rec, taken)
           d    == Told(h, taken)
<1>1. IsSession(h) /\ IsSeq(h.made) /\ \A i \in 1..Len(h.made) : ~h.made[i].taken => i = Len(h.made)
  BY DEF Spoilt, LastRefused
<1>2. IsSession(dead) /\ dead.t.state = "FAILED" /\ dead.made = h.made
  <2>1. /\ IsSession(wipe(h)) /\ wipe(h).made = h.made
    BY <1>1, ZenonT(40) DEF wipe, NoHs, IsSession, TlsFields, HsFields
  <2>2. /\ IsSession(tcp_nonblocking_fail(h)) /\ tcp_nonblocking_fail(h).made = h.made
        /\ tcp_nonblocking_fail(h).t.state = "FAILED"
    BY <2>1, Zenon DEF tcp_nonblocking_fail, IsSession, TlsFields
  <2> QED BY <2>2, Zenon DEF IsSession
<1>3. DeadMade(h.made)
  <2>1. Len(h.made) \in Nat
    BY <1>1, Heard, Zenon
  <2>2. ASSUME NEW i \in 1..Len(h.made), ~h.made[i].taken
        PROVE  i >= Len(h.made) - 1 /\ ~(i < Len(h.made))
    <3>1. i = Len(h.made)
      BY <1>1, <2>2, Zenon
    <3> QED BY <2>1, <3>1
  <2> QED BY <2>2, Zenon DEF DeadMade
<1>4. new.rec.alert # NoAlert
  <2>1. rec.alert = Alert(OwedAlert(h))
    BY DEF alert_record, SealedRecord, PlainRecord
  <2>2. Alert(OwedAlert(h)) # NoAlert
    BY DEF Alert, NoAlert
  <2>3. new.rec = rec
    BY DEF Made
  <2> HIDE DEF rec, new
  <2> QED BY <2>1, <2>2, <2>3, Zenon
<1> HIDE DEF dead, new
<1>5. CASE OwedAlert(h) = "none"
  <2>1. d = dead
    BY <1>5, Zenon DEF Told, dead
  <2> QED BY <2>1, <1>2, <1>3, Zenon DEF session_dead
<1>6. CASE OwedAlert(h) # "none"
  <2> DEFINE all == Append(h.made, new)
  <2>1. d = [dead EXCEPT !.made = all]
    <3>1. d = [dead EXCEPT !.made = Append(@, new)]
      BY <1>6, Zenon DEF Told, dead, new
    <3> QED BY <3>1, <1>2 DEF IsSession
  <2>2. IsSession(d) /\ d.t.state = "FAILED" /\ d.made = all
    <3> HIDE DEF all
    <3> QED BY <2>1, <1>2, Zenon DEF IsSession
  <2>3. /\ Len(h.made) \in Nat /\ Len(all) = Len(h.made) + 1 /\ all[Len(h.made) + 1] = new
        /\ \A i \in 1..Len(h.made) : all[i] = h.made[i]
    BY <1>1, Heard, ZenonT(40)
  <2> HIDE DEF all, d
  <2>4. ASSUME NEW i \in 1..Len(all), ~all[i].taken
        PROVE  /\ i >= Len(all) - 1
               /\ i < Len(all) => all[i + 1].rec.alert # NoAlert
    <3>1. CASE i \in 1..Len(h.made)
      <4>1. i = Len(h.made)
        BY <3>1, <2>3, <2>4, <1>1, Zenon
      <4>2. i >= Len(all) - 1
        BY <4>1, <2>3
      <4>3. all[i + 1] = new
        BY <4>1, <2>3, Zenon
      <4> QED BY <4>2, <4>3, <1>4, Zenon
    <3>2. CASE i \notin 1..Len(h.made)
      BY <3>2, <2>3
    <3> QED BY <3>1, <3>2
  <2>5. DeadMade(all)
    BY <2>4, Zenon DEF DeadMade
  <2> QED BY <2>2, <2>5, Zenon DEF session_dead, d
<1> QED BY <1>5, <1>6, Zenon

\* A failure leaves a dead session.
LEMMA Fails ==
    ASSUME NEW h, Spoilt(h), fail(h)
    PROVE  IInv' /\ session_dead(r)'
<1>1. PICK taken \in BOOLEAN : r' = Told(h, taken)
  BY DEF fail
<1>2. IsSession(r') /\ session_dead(r') /\ DeadMade(r'.made)
  BY <1>1, Tells, Zenon
<1>3. driving' = FALSE
  BY DEF fail
<1> QED BY <1>2, <1>3, Zenon DEF IInv

\* What is left of a sequence behind its first n elements.
LEMMA Rest ==
    ASSUME NEW s, IsSeq(s), NEW n \in Nat, n <= Len(s)
    PROVE  LET t == SubSeq(s, n + 1, Len(s)) IN
           /\ IsSeq(t) /\ Len(t) = Len(s) - n
           /\ \A i \in 1..Len(t) : t[i] = s[n + i] /\ n + i \in 1..Len(s)
           /\ t = << >> => Len(s) = n
<1>1. PICK S : s \in Seq(S)
  BY DEF IsSeq
<1> DEFINE t == SubSeq(s, n + 1, Len(s))
<1>2. t \in Seq(S) /\ Len(t) = Len(s) - n /\ \A i \in 1..Len(t) : t[i] = s[n + i]
  BY <1>1
<1>3. Len(s) \in Nat
  BY <1>1
<1> HIDE DEF t
<1>4. \A i \in 1..Len(t) : n + i \in 1..Len(s)
  BY <1>2, <1>3
<1>5. t = << >> => Len(s) = n
  BY <1>2, <1>3
<1>6. IsSeq(t)
  BY <1>2, Zenon DEF IsSeq
<1> QED BY <1>2, <1>4, <1>5, <1>6, Zenon DEF t

\* What is left of a run of cells is one.
LEMMA RestOk ==
    ASSUME NEW h, NEW s, CellsOk(s, h), NEW n \in Nat, n <= Len(s)
    PROVE  CellsOk(SubSeq(s, n + 1, Len(s)), h)
<1> DEFINE t == SubSeq(s, n + 1, Len(s))
<1>1. /\ IsSeq(t) /\ \A i \in 1..Len(t) : t[i] = s[n + i] /\ n + i \in 1..Len(s)
  BY Rest, Zenon DEF CellsOk
<1> HIDE DEF t
<1>2. \A i \in 1..Len(t) : CellOk(t[i], h)
  BY <1>1, Zenon DEF CellsOk
<1> QED BY <1>1, <1>2, Zenon DEF CellsOk, t

\* Two runs of cells make one.
LEMMA JoinedOk ==
    ASSUME NEW h, NEW a, CellsOk(a, h), NEW b, CellsOk(b, h)
    PROVE  CellsOk(a \o b, h)
<1> DEFINE s == a \o b
<1>1. /\ IsSeq(s) /\ Len(a) \in Nat /\ Len(b) \in Nat /\ Len(s) = Len(a) + Len(b)
      /\ \A i \in 1..Len(a) : s[i] = a[i]
      /\ \A i \in 1..Len(b) : s[Len(a) + i] = b[i]
  <2>1. IsSeq(a) /\ IsSeq(b)
    BY Zenon DEF CellsOk
  <2> QED BY <2>1, Joined
<1> HIDE DEF s
<1>2. ASSUME NEW i \in 1..Len(s) PROVE CellOk(s[i], h)
  <2>1. CASE i \in 1..Len(a)
    BY <2>1, <1>1, Zenon DEF CellsOk
  <2>2. CASE i \notin 1..Len(a)
    <3>1. i - Len(a) \in 1..Len(b) /\ i = Len(a) + (i - Len(a))
      BY <2>2, <1>1
    <3>2. s[i] = b[i - Len(a)]
      BY <3>1, <1>1, Zenon
    <3> QED BY <3>1, <3>2, Zenon DEF CellsOk
  <2> QED BY <2>1, <2>2
<1> QED BY <1>1, <1>2, Zenon DEF CellsOk, s

\* A cell stays good when the cookie does, or when there was none, and once the
\* hello is answered.
LEMMA CellsStay ==
    ASSUME NEW h, NEW g, NEW s, CellsOk(s, h),
           g.step \in {"AWAIT_CLIENT_HELLO", "AWAIT_RETRY_HELLO"} =>
               /\ h.step \in {"AWAIT_CLIENT_HELLO", "AWAIT_RETRY_HELLO"}
               /\ g.hs.cookie = h.hs.cookie \/ h.hs.cookie = << >>
    PROVE  CellsOk(s, g)
<1>1. ASSUME NEW m, Sayable(m, << >>), NEW cookie PROVE Sayable(m, cookie)
  BY <1>1, Zenon DEF Sayable, OwnCookie
<1>2. ASSUME NEW c, CellOk(c, h) PROVE CellOk(c, g)
  <2>1. CASE g.step \in {"AWAIT_CLIENT_HELLO", "AWAIT_RETRY_HELLO"}
    <3>1. Sayable(c.msg, h.hs.cookie)
      BY <2>1, <1>2, Zenon DEF CellOk
    <3>2. Sayable(c.msg, g.hs.cookie)
      BY <3>1, <2>1, <1>1, Zenon
    <3> QED BY <3>2, <1>2, Zenon DEF CellOk
  <2>2. CASE g.step \notin {"AWAIT_CLIENT_HELLO", "AWAIT_RETRY_HELLO"}
    BY <2>2, <1>2, Zenon DEF CellOk
  <2> QED BY <2>1, <2>2
<1> QED BY <1>2, Zenon DEF CellsOk

\* the session may read its next message
Reads ==
    /\ IInv /\ driving = TRUE /\ Whole(r)

\* What a step takes from the buffer: a message a client may say, and the rest.
LEMMA TakesMessage ==
    ASSUME Reads, NEW room \in Rooms
    PROVE  LET k == [Taken(r) EXCEPT !.room = room]
               m == NextMsg(r)
           IN
           /\ ~session_dead(r) /\ Alive(r) /\ CellsOk(cut, r) /\ IsSession(r)
           /\ IsSession(k) /\ SameBut(r, k, {"buf"}, {}) /\ k.made = r.made /\ k.room = room
           /\ room \in Nat /\ CellsOk(k.t.buf, r)
           /\ EndsRecord(k) => Len(r.t.buf) = Head(r.t.buf).msg.size
           /\ r.step \in {"AWAIT_CLIENT_HELLO", "AWAIT_RETRY_HELLO"} => Sayable(m, r.hs.cookie)
<1> DEFINE k    == [Taken(r) EXCEPT !.room = room]
           m    == NextMsg(r)
           buf  == r.t.buf
           size == Head(buf).msg.size
           rest == SubSeq(buf, size + 1, Len(buf))
<1>1. ~session_dead(r) /\ IsSession(r) /\ Alive(r) /\ CellsOk(buf, r) /\ CellsOk(cut, r)
  BY Zenon DEF Reads, IInv
<1>2. /\ IsSession(k) /\ SameBut(r, k, {"buf"}, {}) /\ k.made = r.made /\ k.room = room
      /\ k.t.buf = Taken(r).t.buf
  BY <1>1, TakenFacts, ZenonT(40)
<1>3. Taken(r).t.buf = rest
  BY <1>1 DEF Taken, IsSession, TlsFields
<1>4. buf # << >> /\ Len(buf) >= size
  BY Zenon DEF Reads, Whole
<1>5. PICK S : buf \in Seq(S)
  BY <1>1, Zenon DEF CellsOk, IsSeq
<1>6. Len(buf) \in Nat /\ 1 \in 1..Len(buf) /\ Head(buf) = buf[1]
  BY <1>4, <1>5
<1>7. CellOk(Head(buf), r)
  BY <1>1, <1>6, Zenon DEF CellsOk
<1>8. size \in Nat /\ m = Head(buf).msg
  BY <1>7, Zenon DEF CellOk, NextMsg
<1> HIDE DEF buf, size, k
<1>9. size <= Len(buf)
  BY <1>4, <1>6, <1>8
<1>10. CellsOk(rest, r)
  BY <1>1, <1>8, <1>9, RestOk, ZenonT(40)
<1>11. rest = << >> => Len(buf) = size
  BY <1>1, <1>8, <1>9, Rest, Zenon DEF CellsOk
<1>12. EndsRecord(k) => Len(buf) = size
  BY <1>2, <1>3, <1>11, Zenon DEF EndsRecord
<1>13. r.step \in {"AWAIT_CLIENT_HELLO", "AWAIT_RETRY_HELLO"} => Sayable(m, r.hs.cookie)
  BY <1>7, <1>8, Zenon DEF CellOk
<1>14. room \in Nat
  BY ServerAssumption
<1> QED BY <1>1, <1>2, <1>3, <1>10, <1>12, <1>13, <1>14, ZenonT(40) DEF k, buf, size

\* what a step must keep: the invariant, and the record a key change ends
KeyEndsRecord ==
    (~session_dead(r)' /\ r'.t.rd.key # r.t.rd.key) => Len(r.t.buf) = Head(r.t.buf).msg.size
Keeps == IInv' /\ KeyEndsRecord

\* A step's end.
LEMMA Advances ==
    ASSUME Reads, NEW res, Advance(res), IsSession(res.h), res.ok \in BOOLEAN,
           res.ok => /\ Alive(res.h) /\ CellsOk(res.h.t.buf, res.h) /\ CellsOk(cut, res.h)
                     /\ \/ res.h.t.rd.key = r.t.rd.key
                        \/ Len(r.t.buf) = Head(r.t.buf).msg.size,
           ~res.ok => Spoilt(res.h)
    PROVE  Keeps
<1>1. CASE ~res.ok
  <2>1. fail(res.h)
    BY <1>1, ZenonT(40) DEF Advance
  <2> QED BY <1>1, <2>1, Fails, Zenon DEF Keeps, KeyEndsRecord
<1>2. CASE res.ok
  <2> DEFINE g == [res.h EXCEPT !.room = 0]
  <2>1. r' = g /\ driving' = driving /\ cut' = cut
    BY <1>2, Zenon DEF Advance
  <2>2. /\ IsSession(g) /\ Alive(g) /\ g.t = res.h.t /\ g.hs = res.h.hs /\ g.step = res.h.step
    BY <1>2, AliveClosed, Zenon
  <2> HIDE DEF g
  <2>3. CellsOk(g.t.buf, g) /\ CellsOk(cut, g)
    BY <1>2, <2>2, CellsStay, ZenonT(40)
  <2>4. ~session_dead(g)
    <3>1. g.t.state = "CONNECTED" \/ g.t.state = "START"
      BY <2>2, Zenon DEF Alive
    <3> QED BY <3>1 DEF session_dead
  <2>5. driving \in BOOLEAN
    BY Zenon DEF Reads, IInv
  <2>6. IInv'
    BY <2>1, <2>2, <2>3, <2>4, <2>5, ZenonT(40) DEF IInv
  <2>7. KeyEndsRecord
    BY <1>2, <2>1, <2>2, Zenon DEF KeyEndsRecord
  <2> QED BY <2>6, <2>7 DEF Keeps
<1> QED BY <1>1, <1>2

-----------------------------------------------------------------------------
(* The steps of the handshake *)

\* The retry: the cookie carries the choice, and the transcript what is left of
\* the first hello.
LEMMA SendsRetry ==
    ASSUME NEW h, Flying(h), h.t.cfg \in Configs, h.t.state = "START",
           h.hs.encrypted = FALSE, DOMAIN h.t.rd = {"key", "seq"},
           NEW m, HelloFields = DOMAIN m, h.t.transcript = Append(<< >>, m),
           NEW sel, Prefers(h.t.cfg, m, sel.suite, sel.group), sel.group \notin m.shares
    PROVE  LET s1 == srv_send_hello_retry_request(h, m, sel)
               s2 == srv_send_compat_ccs(s1.h, m)
               p  == IF ~s1.ok THEN s1 ELSE IF ~s2.ok THEN s2
                     ELSE Ok(Goto(s2.h, "AWAIT_RETRY_HELLO"))
           IN
           /\ IsSession(p.h) /\ p.ok \in BOOLEAN
           /\ p.ok => /\ Alive(p.h) /\ p.h.step = "AWAIT_RETRY_HELLO"
                      /\ p.h.t.buf = h.t.buf /\ p.h.t.rd = h.t.rd
           /\ ~p.ok => Spoilt(p.h)
<1> DEFINE cookie == srv_cookie_mint(sel, m)
           retry  == ServerHello(sel, TRUE, cookie)
           told   == << [type |-> "message_hash", of |-> h.t.transcript], retry >>
           again  == [h EXCEPT !.hs.cookie = cookie, !.t.hrr_sent = TRUE, !.t.transcript = told]
           rec    == PlainRecord("handshake", Cells(retry))
           s1     == srv_send_hello_retry_request(h, m, sel)
           s2     == srv_send_compat_ccs(s1.h, m)
           g      == s2.h
           k      == Goto(g, "AWAIT_RETRY_HELLO")
           p      == IF ~s1.ok THEN s1 ELSE IF ~s2.ok THEN s2 ELSE Ok(k)
<1>1. IsSession(h) /\ h.t.cfg.quic = FALSE
  BY DEF Flying, Open
<1>2. restart_transcript([h EXCEPT !.hs.cookie = cookie, !.t.hrr_sent = TRUE], retry) = again
  <2> HIDE DEF cookie, retry
  <2> QED BY <1>1, Zenon DEF restart_transcript, IsSession, TlsFields
<1>3. retry.hrr = TRUE /\ retry.suite = sel.suite /\ retry.group = sel.group
  BY DEF ServerHello
<1>4. cookie = << [key |-> TRUE, suite |-> retry.suite, group |-> retry.group,
                   frozen |-> Frozen(m)] >>
  BY <1>3, Zenon DEF srv_cookie_mint
<1>5. s1 = srv_out_plain(again, retry)
  BY <1>2, Zenon DEF srv_send_hello_retry_request
<1>6. rec.dir = NoDir
  BY DEF PlainRecord
<1> HIDE DEF cookie, retry, told, rec
<1>7. /\ IsSession(again) /\ SamePushed(h, again)
      /\ SameBut(h, again, {"hrr_sent", "transcript"}, {"cookie"})
      /\ again.t.transcript = told /\ again.hs.cookie = cookie
  BY <1>1, Zenon DEF IsSession, TlsFields, HsFields, SameBut, SamePushed
<1> HIDE DEF again
<1>8. Flying(again)
  <2>1. SameBut(h, again, TlsFields \ {"cfg", "wr", "peer_limit"}, {"cookie"})
    BY <1>7, Zenon DEF SameBut, TlsFields
  <2> QED BY <2>1, <1>7, FlyingStays, Zenon
<1>9. s1 = Push(again, << rec >>)
  <2>1. OverQuic(again) = FALSE
    BY <1>8, Zenon DEF OverQuic, Flying
  <2> QED BY <2>1, <1>5, Zenon DEF srv_out_plain, rec
<1> HIDE DEF s1
<1>10. /\ IsSession(s1.h) /\ s1.ok \in BOOLEAN
       /\ s1.ok => Flying(s1.h) /\ SameBut(again, s1.h, {}, {})
       /\ ~s1.ok => Spoilt(s1.h)
  BY <1>6, <1>8, <1>9, OutPlain, ZenonT(40)
<1>11. s1.ok => /\ IsSession(g) /\ s2.ok \in BOOLEAN
                /\ s2.ok => Flying(g) /\ SameBut(s1.h, g, {}, {})
                /\ ~s2.ok => Spoilt(g)
  BY <1>10, OutCcs, Zenon
<1> HIDE DEF s2
<1>12. CASE ~s1.ok \/ ~s2.ok
  <2>1. IsSession(p.h) /\ p.ok = FALSE /\ Spoilt(p.h)
    BY <1>10, <1>11, <1>12, Zenon
  <2> QED BY <2>1, Zenon DEF s1, s2
<1>13. CASE s1.ok /\ s2.ok
  <2>1. p.ok = TRUE /\ p.h = k
    BY <1>13, SMTT(30) DEF Ok
  <2>2. SameBut(again, g, {}, {})
    BY <1>10, <1>11, <1>13, SameThen, SMTT(30)
  <2>3. SameBut(h, g, {"hrr_sent", "transcript"}, {"cookie"})
    BY <2>2, <1>7, SameThen
  <2>4. /\ g.t.transcript = told /\ g.hs.cookie = cookie /\ g.t.cfg = h.t.cfg
        /\ g.t.state = "START" /\ g.hs.encrypted = FALSE
        /\ g.t.buf = h.t.buf /\ g.t.rd = h.t.rd
    BY <2>2, <2>3, <1>7, ZenonT(40) DEF SameBut, TlsFields, HsFields
  <2>5. Flying(g) /\ IsSession(g)
    BY <1>11, <1>13
  <2>6. /\ IsSession(k) /\ k.t = g.t /\ k.hs = g.hs /\ k.made = g.made /\ k.room = g.room
        /\ k.step = "AWAIT_RETRY_HELLO"
    BY <2>5, Zenon DEF Goto, IsSession
  <2> HIDE DEF k, g
  <2>7. Open(k) /\ Flying(k)
    BY <2>5, <2>6, Zenon DEF Flying, Open
  <2>8. RetryOwed(k, k.t.transcript)
    <3> DEFINE hash == [type |-> "message_hash", of |-> h.t.transcript]
    <3>1. /\ IsSeq(told) /\ Len(told) = 2 /\ told[1] = hash /\ told[2] = retry
      <4>1. told = << hash, retry >>
        BY Zenon DEF told
      <4> HIDE DEF hash
      <4>2. << hash, retry >> \in Seq({hash, retry})
        OBVIOUS
      <4>3. told \in Seq({hash, retry}) /\ Len(told) = 2 /\ told[1] = hash /\ told[2] = retry
        BY <4>1, <4>2
      <4> QED BY <4>3, Zenon DEF IsSeq
    <3>2. hash.type = "message_hash" /\ hash.of = h.t.transcript
      OBVIOUS
    <3>3. Len(h.t.transcript) = 1 /\ h.t.transcript[1] = m
      <4>1. Append(<< >>, m) = << m >>
        OBVIOUS
      <4> QED BY <4>1, OneRecord, ZenonT(40)
    <3> HIDE DEF hash
    <3>4. /\ told[1].type = "message_hash" /\ Len(told[1].of) = 1 /\ told[1].of[1] = m
      BY <3>1, <3>2, <3>3, Zenon
    <3>5. /\ told[2].hrr /\ Prefers(k.t.cfg, m, told[2].suite, told[2].group)
          /\ told[2].group \notin m.shares
      BY <3>1, <1>3, <2>4, <2>6, ZenonT(40)
    <3>6. k.hs.cookie = << [key |-> TRUE, suite |-> told[2].suite, group |-> told[2].group,
                            frozen |-> Frozen(m)] >>
      BY <3>1, <1>4, <2>4, <2>6, ZenonT(40)
    <3>7. RetryOwed(k, told)
      BY <3>1, <3>4, <3>5, <3>6, ZenonT(40) DEF RetryOwed
    <3> QED BY <3>7, <2>4, <2>6, ZenonT(40)
  <2>9. AwaitsHello(k)
    BY <2>4, <2>6, <2>7, <2>8, ZenonT(40) DEF AwaitsHello
  <2>10. k.t.state = IF k.step = "COMPLETE" THEN "CONNECTED" ELSE "START"
    BY <2>4, <2>6
  <2>11. Alive(k)
    BY <2>4, <2>6, <2>7, <2>9, <2>10, ZenonT(40) DEF Alive
  <2>12. /\ IsSession(p.h) /\ p.ok \in BOOLEAN /\ p.ok = TRUE
         /\ Alive(p.h) /\ p.h.step = "AWAIT_RETRY_HELLO"
         /\ p.h.t.buf = h.t.buf /\ p.h.t.rd = h.t.rd
    BY <2>1, <2>4, <2>6, <2>11, ZenonT(40)
  <2> QED BY <2>12, ZenonT(40) DEF s1, s2, g, k
<1> QED BY <1>10, <1>11, <1>12, <1>13, ZenonT(40)

\* the session h after it read a hello, and decided on it
HelloRead(h, g) ==
    /\ IsSession(g) /\ g.made = h.made /\ g.room \in Nat
    /\ SameBut(h, g, {"buf", "transcript", "sni"}, {"alert", "early", "ticket_auth"})

HelloSteps == {"AWAIT_CLIENT_HELLO", "AWAIT_RETRY_HELLO"}

\* Reading and deciding leave the session as open as it was.
LEMMA StillFlying ==
    ASSUME NEW h, Alive(h), h.step \in HelloSteps, NEW g, HelloRead(h, g)
    PROVE  /\ AwaitsHello(h) /\ Flying(g)
           /\ g.t.cfg = h.t.cfg /\ g.t.cfg \in Configs /\ g.t.state = "START"
           /\ g.t.rd = h.t.rd /\ DOMAIN g.t.rd = {"key", "seq"}
           /\ g.hs.encrypted = FALSE /\ g.hs.cookie = h.hs.cookie /\ g.step = h.step
<1>1. h.step # "AWAIT_CLIENT_FINISHED" /\ h.step # "COMPLETE"
  BY DEF HelloSteps
<1>2. AwaitsHello(h) /\ h.t.cfg \in Configs /\ DOMAIN h.t.rd = {"key", "seq"}
  BY <1>1, ZenonT(40) DEF Alive
<1>3. h.t.state = "START"
  BY <1>1 DEF Alive
<1>4. /\ g.t.cfg = h.t.cfg /\ g.t.state = h.t.state /\ g.t.rd = h.t.rd /\ g.t.wr = h.t.wr
      /\ g.t.peer_limit = h.t.peer_limit
      /\ g.hs.encrypted = h.hs.encrypted /\ g.hs.cookie = h.hs.cookie /\ g.step = h.step
  BY DEF HelloRead, SameBut, TlsFields, HsFields
<1>5. Flying(h) /\ h.hs.encrypted = FALSE
  BY <1>2, Zenon DEF AwaitsHello
<1>6. Open(g)
  BY <1>5, Zenon DEF Flying, Open, HelloRead
<1>7. Flying(g)
  BY <1>4, <1>5, <1>6, Zenon DEF Flying, HelloRead
<1> QED BY <1>2, <1>3, <1>4, <1>5, <1>7, ZenonT(40)

\* A refusal before anything was pushed.
LEMMA RefusedEarly ==
    ASSUME NEW h, Alive(h), NEW g, IsSession(g), g.made = h.made
    PROVE  Spoilt(g)
BY Zenon DEF Alive, Open, AllTaken, Spoilt, LastRefused

\* The choice counts for every session that heard the same.
LEMMA AuthenticatesSame ==
    ASSUME NEW h, NEW g, NEW m, NEW sel, NEW hs, SameBut(h, g, {}, hs), Authenticates(h, m, sel)
    PROVE  Authenticates(g, m, sel)
<1>1. /\ g.t.cfg = h.t.cfg /\ g.t.transcript = h.t.transcript
      /\ g.t.quic_negotiated_version = h.t.quic_negotiated_version
  BY DEF SameBut, TlsFields
<1>2. \A s, i : Resumes(h, m, s, i) => Resumes(g, m, s, i)
  BY <1>1, Zenon DEF Resumes, ticket_holds, session_quic_version
<1> QED BY <1>1, <1>2, ZenonT(40) DEF Authenticates

\* A read hello, and the choice made on it without touching t.
LEMMA ReadThenChose ==
    ASSUME NEW h, NEW k, IsSession(k), SameBut(h, k, {"buf"}, {}), k.made = h.made, k.room \in Nat,
           NEW a, SamePushed(k, a), SameBut(k, a, {"transcript", "sni"}, {"alert"}),
           NEW g, IsSession(g), SamePushed(a, g), SameBut(a, g, {}, {"alert", "early", "ticket_auth"})
    PROVE  HelloRead(h, g) /\ g.t.buf = k.t.buf
<1>1. SameBut(k, g, {"transcript", "sni"}, {"alert", "early", "ticket_auth"})
  BY SameThen
<1>2. SameBut(h, g, {"buf", "transcript", "sni"}, {"alert", "early", "ticket_auth"})
  BY <1>1, SameThen
<1>3. g.t.buf = k.t.buf
  BY <1>1 DEF SameBut, TlsFields
<1> QED BY <1>2, <1>3, ZenonT(40) DEF HelloRead, SamePushed

\* A step's end after a hello: an answer that ended the record, or a retry.
LEMMA AfterHello ==
    ASSUME Reads, NEW room \in Rooms, r.step \in HelloSteps,
           NEW res, Advance(res), IsSession(res.h), res.ok \in BOOLEAN,
           LET k == [Taken(r) EXCEPT !.room = room] IN
           res.ok => /\ Alive(res.h) /\ res.h.t.buf = k.t.buf
                     /\ \/ EndsRecord(k) /\ res.h.step = "AWAIT_CLIENT_FINISHED"
                        \/ r.hs.cookie = << >> /\ res.h.t.rd = r.t.rd,
           ~res.ok => Spoilt(res.h)
    PROVE  Keeps
<1> DEFINE k == [Taken(r) EXCEPT !.room = room]
<1>1. /\ CellsOk(cut, r) /\ CellsOk(k.t.buf, r)
      /\ EndsRecord(k) => Len(r.t.buf) = Head(r.t.buf).msg.size
  BY TakesMessage, Zenon
<1>2. res.ok => /\ Alive(res.h) /\ res.h.t.buf = k.t.buf
                /\ \/ EndsRecord(k) /\ res.h.step = "AWAIT_CLIENT_FINISHED"
                   \/ r.hs.cookie = << >> /\ res.h.t.rd = r.t.rd
  BY Zenon
<1> HIDE DEF k
<1>3. ASSUME res.ok
      PROVE  res.h.step \in HelloSteps =>
                 /\ r.step \in HelloSteps
                 /\ res.h.hs.cookie = r.hs.cookie \/ r.hs.cookie = << >>
  <2>1. "AWAIT_CLIENT_FINISHED" \notin HelloSteps
    BY DEF HelloSteps
  <2> QED BY <2>1, <1>2, <1>3, Zenon
<1>4. ASSUME res.ok
      PROVE  CellsOk(res.h.t.buf, res.h) /\ CellsOk(cut, res.h)
  <2>1. \A s : CellsOk(s, r) => CellsOk(s, res.h)
    BY <1>3, <1>4, CellsStay, ZenonT(40) DEF HelloSteps
  <2> QED BY <2>1, <1>1, <1>2, <1>4, ZenonT(40)
<1>5. ASSUME res.ok
      PROVE  res.h.t.rd.key = r.t.rd.key \/ Len(r.t.buf) = Head(r.t.buf).msg.size
  BY <1>1, <1>2, <1>5, Zenon
<1> QED BY <1>2, <1>4, <1>5, Advances, ZenonT(40)

\* The first hello: the flight answers it, or a retry does.
LEMMA FirstHello ==
    ASSUME Reads, NEW room \in Rooms, NEW signs, step_client_hello(room, signs)
    PROVE  Keeps
<1> DEFINE k     == [Taken(r) EXCEPT !.room = room]
           m     == NextMsg(r)
           read  == srv_read_client_hello(k, m)
           chose == srv_select(read.h, m)
           a     == read.h
           g     == chose.h
           sel   == chose.sel
           fly   == server_flight(g, m, sel, signs)
           s1    == srv_send_hello_retry_request(g, m, sel)
           s2    == srv_send_compat_ccs(s1.h, m)
           again == IF ~s1.ok THEN s1 ELSE IF ~s2.ok THEN s2
                    ELSE Ok(Goto(s2.h, "AWAIT_RETRY_HELLO"))
           res   == IF ~read.ok THEN read ELSE IF ~chose.ok THEN chose
                    ELSE IF ~sel.need_retry THEN fly ELSE again
           asked == Then(s1, LAMBDA h1 : Then(srv_send_compat_ccs(h1, m), LAMBDA h2 :
                         Ok(Goto(h2, "AWAIT_RETRY_HELLO"))))
<1>1. r.step = "AWAIT_CLIENT_HELLO"
  BY DEF step_client_hello, At
<1>2. again = asked
  <2>1. asked = IF s1.ok THEN IF s2.ok THEN Ok(Goto(s2.h, "AWAIT_RETRY_HELLO")) ELSE s2 ELSE s1
    BY Zenon DEF Then
  <2> HIDE DEF s1, s2, asked
  <2> QED BY <2>1
<1>3. Advance(res)
  <2>1. Advance(IF ~read.ok THEN read ELSE IF ~chose.ok THEN chose
                ELSE IF ~chose.sel.need_retry THEN fly ELSE asked)
    BY Zenon DEF step_client_hello
  <2> HIDE DEF read, chose, fly, again, asked
  <2> QED BY <2>1, <1>2, Zenon
<1>4. /\ Alive(r) /\ IsSession(k) /\ SameBut(r, k, {"buf"}, {}) /\ k.made = r.made
      /\ k.room = room /\ room \in Nat /\ k.room \in Nat
      /\ r.step \in HelloSteps => Sayable(m, r.hs.cookie)
  BY TakesMessage, Zenon DEF HelloSteps
<1>5. r.step \in HelloSteps
  BY <1>1 DEF HelloSteps
<1> HIDE DEF k, m
<1>6. /\ IsSession(a) /\ read.ok \in BOOLEAN /\ SamePushed(k, a)
      /\ read.ok => /\ m.type = "client_hello"
                    /\ k.t.cfg.require_server_name => m.sni
                    /\ SameBut(k, a, {"transcript", "sni"}, {"alert"})
                    /\ a.t.transcript = Append(k.t.transcript, m)
  BY <1>4, ReadHello, Zenon
<1> HIDE DEF read
<1>7. /\ IsSession(g) /\ chose.ok \in BOOLEAN /\ SamePushed(a, g)
      /\ chose.ok => /\ SameBut(a, g, {}, {"alert", "early", "ticket_auth"})
                     /\ Prefers(a.t.cfg, m, sel.suite, sel.group)
                     /\ sel.need_retry = (sel.group \notin m.shares)
                     /\ ~sel.need_retry => Authenticates(a, m, sel)
  BY <1>6, Selects, Zenon
<1> HIDE DEF chose
<1>8. CASE ~read.ok \/ ~chose.ok
  <2>1. a.made = r.made /\ g.made = r.made
    BY <1>4, <1>6, <1>7, ZenonT(40) DEF SamePushed
  <2>2. Spoilt(a) /\ Spoilt(g)
    BY <2>1, <1>4, <1>6, <1>7, RefusedEarly, ZenonT(40)
  <2>3. (res.ok \in BOOLEAN) /\ ~res.ok /\ IsSession(res.h) /\ Spoilt(res.h)
    BY <2>2, <1>6, <1>7, <1>8, ZenonT(40)
  <2> HIDE DEF res
  <2> QED BY <2>3, <1>3, <1>5, AfterHello, ZenonT(40)
<1>9. CASE read.ok /\ chose.ok
  <2>0. /\ SameBut(k, a, {"transcript", "sni"}, {"alert"})
        /\ SameBut(a, g, {}, {"alert", "early", "ticket_auth"})
        /\ SamePushed(k, a) /\ SamePushed(a, g) /\ IsSession(g)
    BY <1>6, <1>7, <1>9, ZenonT(40)
  <2>1. HelloRead(r, g) /\ g.t.buf = k.t.buf
    BY <2>0, <1>4, ReadThenChose
  <2>2. /\ AwaitsHello(r) /\ Flying(g) /\ g.t.cfg = r.t.cfg /\ g.t.cfg \in Configs
        /\ g.t.state = "START" /\ g.t.rd = r.t.rd /\ DOMAIN g.t.rd = {"key", "seq"}
        /\ g.hs.encrypted = FALSE
    BY <2>1, <1>4, <1>5, StillFlying, ZenonT(40)
  <2>3. r.t.transcript = << >> /\ r.hs.cookie = << >>
    BY <2>2, <1>1, Zenon DEF AwaitsHello
  <2>4. k.t.transcript = r.t.transcript /\ k.t.cfg = r.t.cfg
    BY <1>4, SMTT(30) DEF SameBut, TlsFields
  <2>5. a.t.cfg = g.t.cfg /\ g.t.transcript = a.t.transcript
    BY <1>7, <1>9 DEF SameBut, TlsFields
  <2>6. g.t.transcript = Append(<< >>, m)
    BY <2>3, <2>4, <2>5, <1>6, <1>9, ZenonT(40)
  <2>7. HelloFields = DOMAIN m /\ m.limit \in Nat /\ Dated(m)
    BY <1>4, <1>5, <1>6, <1>9, ZenonT(40) DEF Sayable, Dated
  <2>8. Prefers(g.t.cfg, m, sel.suite, sel.group)
    BY <2>5, <1>7, <1>9, ZenonT(40)
  <2>9. CASE ~sel.need_retry
    <3>1. Authenticates(g, m, sel)
      BY <2>9, <1>7, <1>9, AuthenticatesSame, ZenonT(40)
    <3>2. sel.group \in m.shares
      BY <2>9, <1>7, <1>9, ZenonT(40)
    <3>3. IsSeq(<< >>) /\ Len(<< >>) = 0
      BY DEF IsSeq
    <3>4. g.t.cfg.require_server_name => m.sni
      BY <2>2, <2>4, <1>6, <1>9, ZenonT(40)
    <3>5. MayAnswer(g, << >>, m, sel)
      BY <3>1, <3>2, <3>3, <3>4, <2>6, <2>8, <1>6, <1>9, ZenonT(40) DEF MayAnswer
    <3>6. /\ IsSession(fly.h) /\ fly.ok \in BOOLEAN
          /\ fly.ok => /\ EndsRecord(g) /\ Alive(fly.h) /\ fly.h.step = "AWAIT_CLIENT_FINISHED"
                       /\ fly.h.t.buf = g.t.buf
          /\ ~fly.ok => Spoilt(fly.h)
      BY <3>5, <2>2, <2>7, Answers, ZenonT(40)
    <3> HIDE DEF fly
    <3>7. res = fly
      BY <2>9, <1>9, Zenon
    <3>8. EndsRecord(g) => EndsRecord(k)
      BY <2>1, Zenon DEF EndsRecord
    <3> HIDE DEF res, g
    <3>9. /\ IsSession(res.h) /\ res.ok \in BOOLEAN
          /\ res.ok => /\ Alive(res.h) /\ res.h.t.buf = k.t.buf
                       /\ EndsRecord(k) /\ res.h.step = "AWAIT_CLIENT_FINISHED"
          /\ ~res.ok => Spoilt(res.h)
      BY <3>6, <3>7, <3>8, <2>1, ZenonT(40)
    <3> QED BY <3>9, <1>3, <1>5, AfterHello, ZenonT(40) DEF k
  <2>10. CASE sel.need_retry
    <3>1. sel.group \notin m.shares
      BY <2>10, <1>7, <1>9, ZenonT(40)
    <3>2. /\ IsSession(again.h) /\ again.ok \in BOOLEAN
          /\ again.ok => /\ Alive(again.h) /\ again.h.step = "AWAIT_RETRY_HELLO"
                         /\ again.h.t.buf = g.t.buf /\ again.h.t.rd = g.t.rd
          /\ ~again.ok => Spoilt(again.h)
      BY <3>1, <2>2, <2>6, <2>7, <2>8, SendsRetry, ZenonT(40)
    <3> HIDE DEF again
    <3>3. res = again
      BY <2>10, <1>9, Zenon
    <3> HIDE DEF res, g
    <3>4. /\ IsSession(res.h) /\ res.ok \in BOOLEAN
          /\ res.ok => /\ Alive(res.h) /\ res.h.t.buf = k.t.buf
                       /\ r.hs.cookie = << >> /\ res.h.t.rd = r.t.rd
          /\ ~res.ok => Spoilt(res.h)
      BY <3>2, <3>3, <2>1, <2>2, <2>3, ZenonT(40)
    <3> QED BY <3>4, <1>3, <1>5, AfterHello, ZenonT(40) DEF k
  <2> QED BY <2>9, <2>10
<1> QED BY <1>8, <1>9

\* Two hellos with one digest offer the same suites, groups and protocols.
LEMMA FrozenSame ==
    ASSUME NEW m, HelloFields = DOMAIN m, NEW f, HelloFields = DOMAIN f, Frozen(m) = Frozen(f)
    PROVE  m.suites = f.suites /\ m.groups = f.groups /\ m.alpn = f.alpn
<1>1. \A x : HelloFields = DOMAIN x =>
          /\ Frozen(x).suites = x.suites /\ Frozen(x).groups = x.groups
          /\ Frozen(x).alpn = x.alpn
  BY DEF Frozen, HelloFields
<1> QED BY <1>1, Zenon

\* A cookie that is this session's own repeats the retry's choice, which is then
\* the choice for the second hello too.
LEMMA CookieRepeats ==
    ASSUME NEW h, NEW before, RetryOwed(h, before), NEW m, HelloFields = DOMAIN m,
           OwnCookie(m, h.hs.cookie), m.cookie # << >>, m.cookie[1].key,
           m.cookie[1].frozen = Frozen(m), NEW sel,
           sel.suite = m.cookie[1].suite, sel.group = m.cookie[1].group
    PROVE  Repeats(before, m, sel) /\ Prefers(h.t.cfg, m, sel.suite, sel.group)
<1> DEFINE first == before[1].of[1]
           c     == [key |-> TRUE, suite |-> before[2].suite, group |-> before[2].group,
                     frozen |-> Frozen(first)]
<1>1. h.hs.cookie = << c >> /\ m.cookie = h.hs.cookie
  BY Zenon DEF RetryOwed, OwnCookie
<1>2. c.suite = before[2].suite /\ c.group = before[2].group /\ c.frozen = Frozen(first)
  OBVIOUS
<1> HIDE DEF c
<1>3. m.cookie[1] = c
  BY <1>1, OneRecord, Zenon
<1>4. sel.suite = before[2].suite /\ sel.group = before[2].group /\ Frozen(m) = Frozen(first)
  BY <1>2, <1>3, Zenon
<1>5. HelloFields = DOMAIN first /\ Prefers(h.t.cfg, first, before[2].suite, before[2].group)
  BY ZenonT(40) DEF RetryOwed
<1>6. m.suites = first.suites /\ m.groups = first.groups /\ m.alpn = first.alpn
  BY <1>4, <1>5, FrozenSame, Zenon
<1>7. Repeats(before, m, sel)
  BY <1>4, Zenon DEF RetryOwed, Repeats
<1>8. Prefers(h.t.cfg, m, sel.suite, sel.group)
  <2>1. alpn_mismatch(h.t.cfg, m) <=> alpn_mismatch(h.t.cfg, first)
    BY <1>6, Zenon DEF alpn_mismatch, alpn_selected
  <2> QED BY <2>1, <1>4, <1>5, <1>6, Zenon DEF Prefers
<1> QED BY <1>7, <1>8

\* The second hello: the flight answers it with the choice of the cookie.
LEMMA SecondHello ==
    ASSUME Reads, NEW room \in Rooms, NEW signs, step_retry_hello(room, signs)
    PROVE  Keeps
<1> DEFINE k     == [Taken(r) EXCEPT !.room = room]
           m     == NextMsg(r)
           read  == srv_read_client_hello(k, m)
           chose == srv_check_retry_hello(read.h, m)
           a     == read.h
           g     == chose.h
           sel   == chose.sel
           fly   == server_flight(g, m, sel, signs)
           res   == IF ~read.ok THEN read ELSE IF ~chose.ok THEN chose ELSE fly
           before == r.t.transcript
<1>1. r.step = "AWAIT_RETRY_HELLO"
  BY DEF step_retry_hello, At
<1>3. Advance(res)
  BY Zenon DEF step_retry_hello
<1>4. /\ Alive(r) /\ IsSession(k) /\ SameBut(r, k, {"buf"}, {}) /\ k.made = r.made
      /\ k.room = room /\ room \in Nat /\ k.room \in Nat
      /\ r.step \in HelloSteps => Sayable(m, r.hs.cookie)
  BY TakesMessage, Zenon DEF HelloSteps
<1>5. r.step \in HelloSteps
  BY <1>1 DEF HelloSteps
<1> HIDE DEF k, m
<1>6. /\ IsSession(a) /\ read.ok \in BOOLEAN /\ SamePushed(k, a)
      /\ read.ok => /\ m.type = "client_hello"
                    /\ k.t.cfg.require_server_name => m.sni
                    /\ SameBut(k, a, {"transcript", "sni"}, {"alert"})
                    /\ a.t.transcript = Append(k.t.transcript, m)
  BY <1>4, ReadHello, Zenon
<1> HIDE DEF read
<1>7. /\ IsSession(g) /\ chose.ok \in BOOLEAN /\ SamePushed(a, g)
      /\ chose.ok => /\ SameBut(a, g, {}, {"alert", "early", "ticket_auth"})
                     /\ m.cookie # << >> /\ m.cookie[1].key /\ m.cookie[1].frozen = Frozen(m)
                     /\ sel.suite = m.cookie[1].suite /\ sel.group = m.cookie[1].group
                     /\ m.cookie[1].group \in m.shares
                     /\ Authenticates(a, m, sel)
  BY <1>6, ChecksRetry, ZenonT(40)
<1> HIDE DEF chose
<1>8. CASE ~read.ok \/ ~chose.ok
  <2>1. a.made = r.made /\ g.made = r.made
    BY <1>4, <1>6, <1>7, Zenon DEF SamePushed
  <2>2. Spoilt(a) /\ Spoilt(g)
    BY <2>1, <1>4, <1>6, <1>7, RefusedEarly, ZenonT(40)
  <2>3. (res.ok \in BOOLEAN) /\ ~res.ok /\ IsSession(res.h) /\ Spoilt(res.h)
    BY <2>2, <1>6, <1>7, <1>8, ZenonT(40)
  <2> HIDE DEF res
  <2> QED BY <2>3, <1>3, <1>5, AfterHello, Zenon
<1>9. CASE read.ok /\ chose.ok
  <2>1. /\ SameBut(k, a, {"transcript", "sni"}, {"alert"})
        /\ SameBut(a, g, {}, {"alert", "early", "ticket_auth"})
        /\ SamePushed(k, a) /\ SamePushed(a, g) /\ IsSession(g)
    BY <1>6, <1>7, <1>9, ZenonT(40)
  <2>2. HelloRead(r, g) /\ g.t.buf = k.t.buf
    BY <2>1, <1>4, ReadThenChose
  <2>3. /\ AwaitsHello(r) /\ Flying(g) /\ g.t.cfg = r.t.cfg /\ g.t.cfg \in Configs
        /\ g.t.state = "START"
    BY <2>2, <1>4, <1>5, StillFlying, ZenonT(40)
  <2>4. RetryOwed(r, before)
    BY <2>3, <1>1, ZenonT(40) DEF AwaitsHello
  <2>5. k.t.transcript = before /\ k.t.cfg = r.t.cfg
    BY <1>4, SMTT(30) DEF SameBut, TlsFields
  <2>6. a.t.cfg = g.t.cfg /\ g.t.transcript = a.t.transcript
    BY <2>1 DEF SameBut, TlsFields
  <2>7. g.t.transcript = Append(before, m)
    BY <2>5, <2>6, <1>6, <1>9, ZenonT(40)
  <2>8. HelloFields = DOMAIN m /\ m.limit \in Nat /\ Dated(m) /\ OwnCookie(m, r.hs.cookie)
    BY <1>4, <1>5, <1>6, <1>9, ZenonT(40) DEF Sayable, Dated
  <2>9. Repeats(before, m, sel) /\ Prefers(g.t.cfg, m, sel.suite, sel.group)
    BY <2>3, <2>4, <2>8, <1>7, <1>9, CookieRepeats, ZenonT(40)
  <2>10. Authenticates(g, m, sel) /\ sel.group \in m.shares
    BY <1>7, <1>9, AuthenticatesSame, ZenonT(40)
  <2>11. (g.t.cfg.require_server_name => m.sni) /\ m.type = "client_hello"
    BY <2>3, <2>5, <1>6, <1>9, ZenonT(40)
  <2>12. IsSeq(before)
    BY <2>4, Zenon DEF RetryOwed
  <2>13. MayAnswer(g, before, m, sel)
    BY <2>7, <2>9, <2>10, <2>11, <2>12, ZenonT(40) DEF MayAnswer
  <2>14. /\ IsSession(fly.h) /\ fly.ok \in BOOLEAN
         /\ fly.ok => /\ EndsRecord(g) /\ Alive(fly.h) /\ fly.h.step = "AWAIT_CLIENT_FINISHED"
                      /\ fly.h.t.buf = g.t.buf
         /\ ~fly.ok => Spoilt(fly.h)
    BY <2>13, <2>3, <2>8, Answers, ZenonT(40)
  <2> HIDE DEF fly
  <2>15. res = fly
    BY <1>9, ZenonT(40)
  <2>16. EndsRecord(g) => EndsRecord(k)
    BY <2>2, Zenon DEF EndsRecord
  <2> HIDE DEF res, g
  <2>17. /\ IsSession(res.h) /\ res.ok \in BOOLEAN
         /\ res.ok => /\ Alive(res.h) /\ res.h.t.buf = k.t.buf
                      /\ EndsRecord(k) /\ res.h.step = "AWAIT_CLIENT_FINISHED"
         /\ ~res.ok => Spoilt(res.h)
    BY <2>14, <2>15, <2>16, <2>2, Zenon
  <2> QED BY <2>17, <1>3, <1>5, AfterHello, Zenon DEF k
<1> QED BY <1>8, <1>9

\* The client's Finished is taken when it is over all that was heard, under the
\* client's handshake secret.
LEMMA ReadFinished ==
    ASSUME NEW h, IsSession(h), NEW m
    PROVE  LET res == srv_read_client_finished(h, m) IN
           /\ IsSession(res.h) /\ res.ok \in BOOLEAN /\ SamePushed(h, res.h)
           /\ res.ok => /\ m.type = "finished" /\ m.key = h.hs.c_hs /\ m.over = h.t.transcript
                        /\ SameBut(h, res.h, {"transcript"}, {})
                        /\ res.h.t.transcript = Append(h.t.transcript, m)
<1> DEFINE res == srv_read_client_finished(h, m)
<1>1. CASE m.type # "finished" \/ m.hash # HashOf(h.t.suite)
  <2>1. res = No(h, "unexpected_message")
    BY <1>1, Zenon DEF srv_read_client_finished
  <2> HIDE DEF res
  <2>2. res.ok = FALSE /\ IsSession(res.h) /\ SamePushed(h, res.h)
    BY <2>1, Refusal, ZenonT(40)
  <2> QED BY <2>2, Zenon DEF res
<1>2. CASE ~(m.type # "finished" \/ m.hash # HashOf(h.t.suite))
           /\ (m.key # h.hs.c_hs \/ m.over # h.t.transcript)
  <2>1. res = No(h, "decrypt_error")
    BY <1>2, Zenon DEF srv_read_client_finished
  <2> HIDE DEF res
  <2>2. res.ok = FALSE /\ IsSession(res.h) /\ SamePushed(h, res.h)
    BY <2>1, Refusal, Zenon
  <2> QED BY <2>2, Zenon DEF res
<1>3. CASE ~(m.type # "finished" \/ m.hash # HashOf(h.t.suite))
           /\ ~(m.key # h.hs.c_hs \/ m.over # h.t.transcript)
  <2>1. res = Ok(Hear(h, m))
    BY <1>3, Zenon DEF srv_read_client_finished
  <2>2. res.ok = TRUE /\ res.h = Hear(h, m)
    BY <2>1 DEF Ok
  <2> HIDE DEF res
  <2>3. /\ IsSession(res.h) /\ SamePushed(h, res.h) /\ SameBut(h, res.h, {"transcript"}, {})
        /\ res.h.t.transcript = Append(h.t.transcript, m)
    BY <2>2, HearFacts, Zenon
  <2> QED BY <2>2, <2>3, <1>3, ZenonT(40) DEF res
<1> QED BY <1>1, <1>2, <1>3, ZenonT(40)

\* the fields that say what a flight was
LegalFields == {"cfg", "alpn_selected", "psk_selected", "sigalg", "suite"}

\* a session after the same flight, and a message more
HeardMore(h, m, g) ==
    /\ g.t.transcript = Append(h.t.transcript, m)
    /\ \A f \in LegalFields : g.t[f] = h.t[f]

\* two transcripts with the same hellos
SameHellos(tr, t2) == SubSeq(t2, 1, HelloAt(t2)) = SubSeq(tr, 1, HelloAt(tr))

\* What was chosen and who was proved stays so when one more message is heard.
LEMMA LegalMore ==
    ASSUME NEW h, Legal(h), NEW m, NEW g, HeardMore(h, m, g)
    PROVE  LET tr == h.t.transcript
               t2 == g.t.transcript
           IN  /\ Legal(g) /\ SameHellos(tr, t2)
               /\ IsSeq(t2) /\ Len(t2) = Len(tr) + 1 /\ Len(tr) \in Nat
               /\ t2[Len(t2)] = m /\ Front(t2) = tr
<1> DEFINE tr == h.t.transcript
           t2 == g.t.transcript
           at == HelloAt(tr)
<1>1. /\ IsSeq(tr) /\ at \in {2, 4} /\ LegalSelection(h) /\ LegalAuthentication(h)
      /\ Len(tr) >= at + (IF h.t.psk_selected THEN 2 ELSE 3)
  BY Zenon DEF Legal
<1>2. /\ g.t.cfg = h.t.cfg /\ g.t.alpn_selected = h.t.alpn_selected
      /\ g.t.psk_selected = h.t.psk_selected /\ g.t.sigalg = h.t.sigalg
      /\ g.t.suite = h.t.suite
  BY DEF LegalFields, HeardMore
<1>3. /\ IsSeq(t2) /\ Len(tr) \in Nat /\ Len(t2) = Len(tr) + 1 /\ t2[Len(tr) + 1] = m
      /\ \A i \in 1..Len(tr) : t2[i] = tr[i]
      /\ \A n \in 0..Len(tr) : SubSeq(t2, 1, n) = SubSeq(tr, 1, n)
      /\ Front(t2) = tr
  <2>0. IsSeq(tr)
    BY <1>1
  <2>1. t2 = Append(tr, m)
    BY DEF HeardMore
  <2> HIDE DEF tr, t2
  <2>2. /\ IsSeq(t2) /\ Len(tr) \in Nat /\ Len(t2) = Len(tr) + 1 /\ t2[Len(tr) + 1] = m
        /\ \A i \in 1..Len(tr) : t2[i] = tr[i]
    BY <2>0, <2>1, Heard
  <2>3. /\ \A n \in 0..Len(tr) : SubSeq(t2, 1, n) = SubSeq(tr, 1, n)
        /\ Front(t2) = tr
    BY <2>1, <1>1, HeardPrefix, ZenonT(40)
  <2> QED BY <2>2, <2>3, ZenonT(40)
<1>4. at \in Nat /\ at - 1 \in 1..Len(tr) /\ at \in 1..Len(tr) /\ at + 2 \in 1..Len(tr)
      /\ 1 \in 1..Len(tr) /\ 2 \in 1..Len(tr) /\ at - 2 \in 0..Len(tr) /\ at + 2 \in 0..Len(tr)
      /\ at \in 0..Len(tr) /\ (~h.t.psk_selected => at + 3 \in 1..Len(tr))
  <2> HIDE DEF at, tr
  <2> QED BY <1>1, <1>3
<1>5. /\ t2[1] = tr[1] /\ t2[2] = tr[2] /\ t2[at - 1] = tr[at - 1] /\ t2[at] = tr[at]
      /\ t2[at + 2] = tr[at + 2] /\ (~h.t.psk_selected => t2[at + 3] = tr[at + 3])
      /\ SubSeq(t2, 1, at) = SubSeq(tr, 1, at) /\ SubSeq(t2, 1, at - 2) = SubSeq(tr, 1, at - 2)
      /\ SubSeq(t2, 1, at + 2) = SubSeq(tr, 1, at + 2)
  BY <1>3, <1>4, Zenon
<1>6. HelloAt(t2) = at
  BY <1>5, Zenon DEF HelloAt
<1>7. LegalSelection(g)
  BY <1>1, <1>2, <1>5, <1>6, ZenonT(40) DEF LegalSelection
<1>8. LegalAuthentication(g)
  <2>1. \A i : ProvedTicket(g, t2[at - 1], i, SubSeq(t2, 1, at - 2))
               <=> ProvedTicket(h, tr[at - 1], i, SubSeq(tr, 1, at - 2))
    BY <1>2, <1>5, Zenon DEF ProvedTicket
  <2>2. CASE h.t.psk_selected
    <3>1. /\ tr[at].psk # "none" /\ tr[at + 2].type = "finished"
          /\ \E i \in 1..Len(tr[at - 1].tickets) :
                ProvedTicket(h, tr[at - 1], i, SubSeq(tr, 1, at - 2))
      BY <2>2, <1>1, ZenonT(40) DEF LegalAuthentication
    <3>2. /\ t2[at].psk # "none" /\ t2[at + 2].type = "finished"
          /\ \E i \in 1..Len(t2[at - 1].tickets) :
                ProvedTicket(g, t2[at - 1], i, SubSeq(t2, 1, at - 2))
      BY <3>1, <2>1, <1>5, ZenonT(40)
    <3>3. g.t.psk_selected
      BY <2>2, <1>2
    <3> QED BY <3>2, <3>3, <1>6, ZenonT(40) DEF LegalAuthentication
  <2>3. CASE ~h.t.psk_selected
    BY <2>3, <1>1, <1>2, <1>5, <1>6, ZenonT(40) DEF LegalAuthentication
  <2> QED BY <2>2, <2>3
<1>9. Len(t2) >= HelloAt(t2) + (IF g.t.psk_selected THEN 2 ELSE 3)
  <2> HIDE DEF at, tr, t2
  <2> QED BY <1>1, <1>2, <1>3, <1>4, <1>6 DEF at, tr, t2
<1>10. Legal(g)
  BY <1>1, <1>3, <1>6, <1>7, <1>8, <1>9, ZenonT(40) DEF Legal
<1>11. SameHellos(tr, t2)
  BY <1>5, <1>6, Zenon DEF SameHellos
<1> QED BY <1>3, <1>10, <1>11, ZenonT(40)

\* the only record under the application key is the last, and it was number 0
TicketLast(g) ==
    \A i \in 1..Len(g.made) : ~NotApp(g.made[i].rec.dir) => i = Len(g.made) /\ g.t.wr.seq = 1

\* A ticket is one record, the first under the application key; or none is sent.
LEMMA SendsTicket ==
    ASSUME NEW h, CanSeal(h), BeforeApp(h.made), h.t.wr.seq = 0
    PROVE  LET p == srv_send_new_session_ticket(h) IN
           /\ IsSession(p.h) /\ p.ok \in BOOLEAN
           /\ p.ok => /\ Open(p.h) /\ SameBut(h, p.h, {"wr"}, {})
                      /\ p.h.t.wr.key = h.t.wr.key /\ TicketLast(p.h)
           /\ ~p.ok => Spoilt(p.h)
<1> DEFINE p    == srv_send_new_session_ticket(h)
           cfg  == h.t.cfg
           auth == AuthSeconds(h.t.psk_selected, h.hs.ticket_auth, cfg.now)
           tick == [type |-> "new_session_ticket", size |-> 1,
                    lifetime |-> LifetimeLeft(auth, cfg.now),
                    ticket |-> [key |-> TRUE, auth |-> auth, suite |-> h.t.suite,
                                alpn |-> h.t.alpn_selected, version |-> session_quic_version(h),
                                psk |-> Derived(h, "res")]]
<1>1. CASE ~tickets_on(cfg) \/ LifetimeLeft(auth, cfg.now) = 0
  <2>1. p = Ok(h)
    BY <1>1, ZenonT(40) DEF srv_send_new_session_ticket
  <2>2. p.ok = TRUE /\ p.h = h
    BY <2>1 DEF Ok
  <2> HIDE DEF p
  <2>3. IsSession(h) /\ Open(h) /\ SameBut(h, h, {"wr"}, {})
    BY Zenon DEF CanSeal, Open, SameBut
  <2>4. TicketLast(h)
    BY Zenon DEF TicketLast, BeforeApp
  <2>5. /\ IsSession(p.h) /\ p.ok = TRUE /\ Open(p.h) /\ SameBut(h, p.h, {"wr"}, {})
        /\ p.h.t.wr.key = h.t.wr.key /\ TicketLast(p.h)
    BY <2>2, <2>3, <2>4, ZenonT(40)
  <2> QED BY <2>5, Zenon DEF p
<1>2. CASE ~(~tickets_on(cfg) \/ LifetimeLeft(auth, cfg.now) = 0)
  <2>1. p = srv_out_sealed(h, tick)
    BY <1>2, ZenonT(40) DEF srv_send_new_session_ticket
  <2>2. tick.size = 1 /\ tick.size \in Nat
    OBVIOUS
  <2> HIDE DEF p, tick
  <2>3. RecordsOf(h, tick.size) = 1
    BY <2>2, RecordCount DEF CanSeal
  <2>4. /\ IsSession(p.h) /\ p.ok \in BOOLEAN
        /\ p.ok => /\ CanSeal(p.h) /\ SameBut(h, p.h, {"wr"}, {})
                   /\ p.h.t.wr.key = h.t.wr.key
                   /\ p.h.t.wr.seq = h.t.wr.seq + Len(p.h.made) - Len(h.made)
                   /\ Len(p.h.made) = Len(h.made) + RecordsOf(h, tick.size)
                   /\ \A i \in 1..Len(h.made) : p.h.made[i] = h.made[i]
        /\ ~p.ok => Spoilt(p.h)
    BY <2>1, <2>2, Seals, ZenonT(40)
  <2>5. ASSUME p.ok
        PROVE  Open(p.h) /\ TicketLast(p.h)
    <3>1. Open(p.h) /\ IsSeq(h.made)
      BY <2>4, <2>5, Zenon DEF CanSeal, Open, AllTaken
    <3>2. Len(h.made) \in Nat
      BY <3>1, Heard, ZenonT(40)
    <3>3. Len(p.h.made) = Len(h.made) + 1 /\ p.h.t.wr.seq = 1
      <4> DEFINE x == Len(p.h.made)
                 y == Len(h.made)
                 s == p.h.t.wr.seq
      <4>1. x = y + 1 /\ s = 0 + x - y
        BY <2>3, <2>4, <2>5, ZenonT(40)
      <4>2. y \in Nat
        BY <3>2
      <4> HIDE DEF x, y, s
      <4>3. x = y + 1 /\ s = 1
        BY <4>1, <4>2
      <4> QED BY <4>3, Zenon DEF x, y, s
    <3>4. \A i \in 1..Len(p.h.made) : i = Len(p.h.made) \/ i \in 1..Len(h.made)
      BY <3>2, <3>3
    <3>5. \A i \in 1..Len(h.made) : NotApp(p.h.made[i].rec.dir)
      BY <2>4, <2>5, ZenonT(40) DEF BeforeApp
    <3>6. TicketLast(p.h)
      BY <3>3, <3>4, <3>5, ZenonT(40) DEF TicketLast
    <3> QED BY <3>1, <3>6
  <2>6. /\ IsSession(p.h) /\ p.ok \in BOOLEAN
        /\ p.ok => /\ Open(p.h) /\ SameBut(h, p.h, {"wr"}, {})
                   /\ p.h.t.wr.key = h.t.wr.key /\ TicketLast(p.h)
        /\ ~p.ok => Spoilt(p.h)
    BY <2>4, <2>5, ZenonT(40)
  <2> QED BY <2>6, Zenon DEF p
<1> QED BY <1>1, <1>2, Zenon

\* The session is connected, and nothing of the handshake is left.
LEMMA Completes ==
    ASSUME NEW h, AwaitsFinished(h), h.t.cfg \in Configs, h.t.cfg.quic = FALSE,
           NEW m, m.type = "finished", m.key = h.hs.c_hs, m.over = h.t.transcript,
           NEW a, IsSession(a), a.made = h.made, a.room \in Nat,
           SameBut(h, a, {"buf", "transcript"}, {}),
           a.t.transcript = Append(h.t.transcript, m)
    PROVE  LET p == Completed(a) IN
           /\ IsSession(p.h) /\ p.ok \in BOOLEAN
           /\ p.ok => Alive(p.h) /\ p.h.step = "COMPLETE" /\ p.h.t.buf = << >>
           /\ ~p.ok => Spoilt(p.h)
<1> DEFINE c   == Goto(srv_complete(a), "COMPLETE")
           rd  == [key |-> a.t.rd_secret, seq |-> 0]
           res == srv_send_new_session_ticket(c)
           b   == res.h
           g   == [b EXCEPT !.hs = NoHs]
           p   == Completed(a)
<1>1. CanSeal(h) /\ IsSession(h)
  BY ZenonT(40) DEF AwaitsFinished, CanSeal, Open
<1>2. /\ a.t.cfg = h.t.cfg /\ a.t.wr = h.t.wr /\ a.t.wr_secret = h.t.wr_secret
      /\ a.t.peer_limit = h.t.peer_limit /\ OverQuic(a) = FALSE
      /\ a.t.alpn_selected = h.t.alpn_selected /\ a.t.psk_selected = h.t.psk_selected
      /\ a.t.sigalg = h.t.sigalg /\ a.t.suite = h.t.suite
  BY DEF SameBut, TlsFields, OverQuic
<1>3. /\ IsSession(c) /\ c.made = a.made /\ c.room = a.room /\ c.step = "COMPLETE"
      /\ c.hs = a.hs /\ c.t.rd = rd /\ c.t.buf = << >> /\ c.t.state = "CONNECTED"
      /\ \A f \in TlsFields \ {"rd", "buf", "state"} : c.t[f] = a.t[f]
  <2>1. srv_complete(a) = [a EXCEPT !.t.rd = rd, !.t.buf = << >>, !.t.state = "CONNECTED"]
    BY <1>2, ZenonT(40) DEF srv_complete
  <2> DEFINE t == [a.t EXCEPT !.rd = rd, !.buf = << >>, !.state = "CONNECTED"]
  <2> HIDE DEF rd
  <2>2. DOMAIN a = {"t", "hs", "step", "made", "room"} /\ DOMAIN a.t = TlsFields
        /\ DOMAIN a.hs = HsFields
    BY DEF IsSession
  <2>3. /\ DOMAIN t = TlsFields /\ t.rd = rd /\ t.buf = << >> /\ t.state = "CONNECTED"
        /\ \A f \in TlsFields \ {"rd", "buf", "state"} : t[f] = a.t[f]
    BY <2>2, Zenon DEF TlsFields
  <2>4. c = [a EXCEPT !.t = t, !.step = "COMPLETE"]
    BY <2>1, <2>2, ZenonT(40) DEF Goto
  <2> HIDE DEF c, t
  <2>5. /\ DOMAIN c = DOMAIN a /\ c.t = t /\ c.hs = a.hs /\ c.made = a.made
        /\ c.room = a.room /\ c.step = "COMPLETE"
    BY <2>2, <2>4, SMTT(30)
  <2> QED BY <2>2, <2>3, <2>5, ZenonT(40) DEF IsSession
<1> HIDE DEF c
<1>4. /\ c.t.cfg = h.t.cfg /\ c.t.wr = h.t.wr /\ c.t.wr_secret = h.t.wr_secret
      /\ c.t.peer_limit = h.t.peer_limit /\ c.t.rd_secret = a.t.rd_secret
      /\ c.t.transcript = a.t.transcript
      /\ c.t.alpn_selected = h.t.alpn_selected /\ c.t.psk_selected = h.t.psk_selected
      /\ c.t.sigalg = h.t.sigalg /\ c.t.suite = h.t.suite
  BY <1>2, <1>3, ZenonT(40) DEF TlsFields
<1>5. CanSeal(c) /\ BeforeApp(c.made)
  BY <1>1, <1>3, <1>4, ZenonT(40) DEF CanSeal, Open, AwaitsFinished
<1>6. h.t.wr = [key |-> h.t.wr_secret, seq |-> 0] /\ h.t.wr_secret.over = h.t.transcript
  BY ZenonT(40) DEF AwaitsFinished
<1>7. c.t.wr.seq = 0 /\ c.t.wr.key = c.t.wr_secret
  <2> DEFINE x  == h.t.wr_secret
             wr == [key |-> x, seq |-> 0]
  <2>1. c.t.wr = wr /\ c.t.wr_secret = x
    BY <1>4, <1>6, Zenon
  <2> HIDE DEF x
  <2>2. wr.seq = 0 /\ wr.key = x
    OBVIOUS
  <2> HIDE DEF wr
  <2> QED BY <2>1, <2>2, Zenon
<1>8. /\ IsSession(b) /\ res.ok \in BOOLEAN
      /\ res.ok => /\ Open(b) /\ SameBut(c, b, {"wr"}, {})
                   /\ b.t.wr.key = c.t.wr.key /\ TicketLast(b)
      /\ ~res.ok => Spoilt(b)
  BY <1>5, <1>7, SendsTicket, ZenonT(40)
<1>9. p = IF res.ok THEN Ok(g) ELSE res
  BY Zenon DEF Completed, Then, c
<1> HIDE DEF res, p
<1>10. CASE ~res.ok
  <2>1. p = res
    BY <1>9, <1>10
  <2>2. IsSession(p.h) /\ p.ok \in BOOLEAN /\ ~p.ok /\ Spoilt(p.h)
    BY <2>1, <1>8, <1>10, ZenonT(40)
  <2> QED BY <2>2, ZenonT(40) DEF p
<1>11. CASE res.ok
  <2>1. p.ok = TRUE /\ p.h = g
    BY <1>9, <1>11 DEF Ok
  <2>2. /\ IsSession(g) /\ g.t = b.t /\ g.hs = NoHs /\ g.made = b.made /\ g.room = b.room
        /\ g.step = b.step
    BY <1>8, SMTT(30) DEF IsSession, NoHs, HsFields
  <2>3. SameBut(c, b, {"wr"}, {}) /\ Open(b) /\ b.t.wr.key = c.t.wr.key /\ TicketLast(b)
    BY <1>8, <1>11, SMTT(30)
  <2>4. /\ b.t.cfg = h.t.cfg /\ b.t.transcript = Append(h.t.transcript, m)
        /\ b.t.rd = c.t.rd /\ b.t.buf = << >> /\ b.t.state = "CONNECTED"
        /\ b.t.rd_secret = c.t.rd_secret /\ b.t.wr_secret = h.t.wr_secret
        /\ b.step = "COMPLETE"
        /\ b.t.alpn_selected = h.t.alpn_selected /\ b.t.psk_selected = h.t.psk_selected
        /\ b.t.sigalg = h.t.sigalg /\ b.t.suite = h.t.suite
    BY <2>3, <1>3, <1>4, SMTT(30) DEF SameBut, TlsFields
  <2> HIDE DEF g, b
  <2>5. \A f \in LegalFields : g.t[f] = h.t[f]
    BY <2>2, <2>4 DEF LegalFields
  <2> DEFINE tr == h.t.transcript
             t2 == g.t.transcript
             n  == Len(t2)
  <2>6. Legal(h)
    BY Zenon DEF AwaitsFinished
  <2>7. HeardMore(h, m, g)
    BY <2>2, <2>4, <2>5, ZenonT(40) DEF HeardMore
  <2>8. /\ Legal(g) /\ SubSeq(t2, 1, HelloAt(t2)) = SubSeq(tr, 1, HelloAt(tr))
        /\ t2[n] = m /\ Front(t2) = tr
    <3>1. Legal(g)
      BY <2>6, <2>7, LegalMore, Zenon
    <3>2. SubSeq(t2, 1, HelloAt(t2)) = SubSeq(tr, 1, HelloAt(tr))
      <4>1. SameHellos(h.t.transcript, g.t.transcript)
        BY <2>6, <2>7, LegalMore, Zenon
      <4> QED BY <4>1, Zenon DEF SameHellos
    <3>3. t2[n] = m
      BY <2>6, <2>7, LegalMore, SMTT(20)
    <3>4. Front(t2) = tr
      BY <2>6, <2>7, LegalMore, ZenonT(40)
    <3> QED BY <3>1, <3>2, <3>3, <3>4, ZenonT(40)
  <2>9. h.hs.c_hs.label = "c hs" /\ h.hs.c_hs.over = SubSeq(tr, 1, HelloAt(tr))
    BY ZenonT(40) DEF AwaitsFinished
  <2>10. g.hs.encrypted = FALSE
    BY <2>2, SMTT(30) DEF NoHs
  <2>11. g.t.rd = [key |-> g.t.rd_secret, seq |-> 0] /\ DOMAIN g.t.rd = {"key", "seq"}
    <3>1. g.t.rd = rd /\ g.t.rd_secret = a.t.rd_secret
      BY <2>2, <2>4, <1>3, <1>4, Zenon
    <3>2. DOMAIN rd = {"key", "seq"}
      OBVIOUS
    <3>3. rd = [key |-> g.t.rd_secret, seq |-> 0]
      BY <3>1, Zenon
    <3> HIDE DEF rd
    <3> QED BY <3>1, <3>2, <3>3, Zenon
  <2>12. g.t.wr.key = g.t.wr_secret /\ g.t.wr_secret.over = tr
    BY <2>2, <2>3, <2>4, <1>4, <1>6, <1>7, Zenon
  <2>13. TicketLast(g) /\ Open(g)
    BY <2>2, <2>3, Zenon DEF TicketLast, Open
  <2>14. /\ t2[n].type = "finished" /\ t2[n].key.label = "c hs" /\ t2[n].over = Front(t2)
         /\ t2[n].key.over = SubSeq(t2, 1, HelloAt(t2))
    BY <2>8, <2>9, Zenon
  <2>15. Proved(g)
    BY <2>8, <2>10, <2>11, <2>12, <2>13, <2>14, Zenon DEF Proved, TicketLast
  <2>16. /\ g.t.cfg \in Configs /\ g.step = "COMPLETE" /\ g.t.state = "CONNECTED"
         /\ g.t.buf = << >>
    BY <2>2, <2>4, Zenon
  <2>17. Alive(g)
    BY <2>11, <2>13, <2>15, <2>16, ZenonT(40) DEF Alive
  <2>18. /\ IsSession(p.h) /\ p.ok \in BOOLEAN /\ p.ok = TRUE
         /\ Alive(p.h) /\ p.h.step = "COMPLETE" /\ p.h.t.buf = << >>
    BY <2>1, <2>2, <2>16, <2>17, ZenonT(40)
  <2> QED BY <2>18, ZenonT(40) DEF p
<1> QED BY <1>8, <1>10, <1>11, ZenonT(40)

\* The client's Finished: the read key changes, at the end of a record.
LEMMA ClientFinished ==
    ASSUME Reads, NEW room \in Rooms, step_client_finished(room)
    PROVE  Keeps
<1> DEFINE k    == [Taken(r) EXCEPT !.room = room]
           m    == NextMsg(r)
           read == srv_read_client_finished(k, m)
           a    == read.h
           done == Completed(a)
           open == No(a, "unexpected_message")
           res  == IF read.ok THEN IF EndsRecord(a) THEN done ELSE open ELSE read
<1>1. r.step = "AWAIT_CLIENT_FINISHED"
  BY DEF step_client_finished, At
<1>2. Advance(res)
  BY Zenon DEF step_client_finished, Then
<1>3. /\ Alive(r) /\ CellsOk(cut, r) /\ IsSession(k) /\ SameBut(r, k, {"buf"}, {})
      /\ k.made = r.made /\ k.room = room /\ room \in Nat /\ k.room \in Nat
      /\ EndsRecord(k) => Len(r.t.buf) = Head(r.t.buf).msg.size
  BY TakesMessage, Zenon
<1>4. AwaitsFinished(r) /\ r.t.cfg \in Configs
  <2>1. r.step \notin {"AWAIT_CLIENT_HELLO", "AWAIT_RETRY_HELLO"} /\ r.step # "COMPLETE"
    BY <1>1
  <2> QED BY <2>1, <1>3, ZenonT(40) DEF Alive
<1>5. r.t.cfg.quic = FALSE
  BY <1>4, Zenon DEF AwaitsFinished, CanSeal
<1> HIDE DEF k, m
<1>6. /\ IsSession(a) /\ read.ok \in BOOLEAN /\ SamePushed(k, a)
      /\ read.ok => /\ m.type = "finished" /\ m.key = k.hs.c_hs /\ m.over = k.t.transcript
                    /\ SameBut(k, a, {"transcript"}, {})
                    /\ a.t.transcript = Append(k.t.transcript, m)
  BY <1>3, ReadFinished, Zenon
<1> HIDE DEF read
<1>7. a.made = r.made /\ a.room \in Nat
  BY <1>3, <1>6, Zenon DEF SamePushed
<1>8. CASE ~read.ok
  <2>1. res = read
    BY <1>8, Zenon
  <2>2. Spoilt(a)
    BY <1>3, <1>6, <1>7, RefusedEarly, ZenonT(40)
  <2> HIDE DEF res
  <2>3. IsSession(res.h) /\ res.ok \in BOOLEAN /\ ~res.ok /\ Spoilt(res.h)
    BY <2>1, <2>2, <1>6, <1>8, ZenonT(40)
  <2> QED BY <2>3, <1>2, Advances, ZenonT(40)
<1>9. CASE read.ok /\ ~EndsRecord(a)
  <2>1. res = open
    BY <1>9, Zenon
  <2>2. open.ok = FALSE /\ IsSession(open.h) /\ open.h.made = a.made
    BY <1>6, Refusal, Zenon DEF SamePushed
  <2> HIDE DEF open
  <2>3. Spoilt(open.h)
    BY <2>2, <1>3, <1>7, RefusedEarly, ZenonT(40)
  <2> HIDE DEF res
  <2>4. IsSession(res.h) /\ res.ok \in BOOLEAN /\ ~res.ok /\ Spoilt(res.h)
    BY <2>1, <2>2, <2>3, ZenonT(40)
  <2> QED BY <2>4, <1>2, Advances, Zenon
<1>10. CASE read.ok /\ EndsRecord(a)
  <2>1. res = done
    BY <1>10, ZenonT(40)
  <2>2. k.hs.c_hs = r.hs.c_hs /\ k.t.transcript = r.t.transcript
    BY <1>3, SMTT(30) DEF SameBut, TlsFields, HsFields
  <2>3. SameBut(k, a, {"transcript"}, {})
    BY <1>6, <1>10, ZenonT(40)
  <2>4. SameBut(r, a, {"buf", "transcript"}, {}) /\ a.t.buf = k.t.buf
    <3>1. SameBut(r, a, {"buf", "transcript"}, {})
      BY <2>3, <1>3, SameThen
    <3>2. a.t.buf = k.t.buf
      BY <2>3 DEF SameBut, TlsFields
    <3> QED BY <3>1, <3>2, SMTT(30)
  <2>5. /\ m.type = "finished" /\ m.key = r.hs.c_hs /\ m.over = r.t.transcript
        /\ a.t.transcript = Append(r.t.transcript, m)
    BY <2>2, <1>6, <1>10, ZenonT(40)
  <2>6. /\ IsSession(done.h) /\ done.ok \in BOOLEAN
        /\ done.ok => Alive(done.h) /\ done.h.step = "COMPLETE" /\ done.h.t.buf = << >>
        /\ ~done.ok => Spoilt(done.h)
    BY <2>4, <2>5, <1>4, <1>5, <1>6, <1>7, Completes, ZenonT(40)
  <2> HIDE DEF done
  <2>7. Len(r.t.buf) = Head(r.t.buf).msg.size
    BY <2>4, <1>3, <1>10, ZenonT(40) DEF EndsRecord
  <2> HIDE DEF res
  <2>8. /\ IsSession(res.h) /\ res.ok \in BOOLEAN
        /\ res.ok => Alive(res.h) /\ res.h.step = "COMPLETE" /\ res.h.t.buf = << >>
        /\ ~res.ok => Spoilt(res.h)
    BY <2>1, <2>6, Zenon
  <2>9. ASSUME res.ok
        PROVE  CellsOk(res.h.t.buf, res.h) /\ CellsOk(cut, res.h)
    <3>1. res.h.step = "COMPLETE" /\ res.h.t.buf = << >>
      BY <2>8, <2>9
    <3>2. res.h.step \notin {"AWAIT_CLIENT_HELLO", "AWAIT_RETRY_HELLO"}
      BY <3>1
    <3>3. CellsOk(cut, res.h)
      BY <3>2, <1>3, CellsStay, ZenonT(40)
    <3>4. \A h : CellsOk(<< >>, h)
      BY DEF CellsOk, IsSeq
    <3> QED BY <3>1, <3>3, <3>4, ZenonT(40)
  <2> QED BY <2>7, <2>8, <2>9, <1>2, Advances, ZenonT(40)
<1> QED BY <1>6, <1>8, <1>9, <1>10, ZenonT(40)

\* A handshake message to a session that is connected kills it.
LEMMA AfterComplete ==
    ASSUME Reads, step_complete
    PROVE  Keeps
<1> DEFINE res == No(r, "unexpected_message")
<1>1. Advance(res) /\ ~session_dead(r)
  <2>1. IInv /\ driving = TRUE
    BY DEF Reads
  <2> QED BY <2>1, Zenon DEF step_complete, IInv
<1>2. Alive(r) /\ IsSession(r)
  BY <1>1, Zenon DEF Reads, IInv
<1>3. res.ok = FALSE /\ IsSession(res.h) /\ res.h.made = r.made
  BY <1>2, Refusal, Zenon DEF SamePushed
<1> HIDE DEF res
<1>4. Spoilt(res.h)
  BY <1>2, <1>3, RefusedEarly, ZenonT(40)
<1>5. IsSession(res.h) /\ res.ok \in BOOLEAN /\ ~res.ok /\ Spoilt(res.h)
  BY <1>3, <1>4, Zenon
<1> QED BY <1>1, <1>5, Advances, ZenonT(40)

-----------------------------------------------------------------------------
(* A record in *)

\* The client's alert refuses the session, whatever it says.
LEMMA RefusesAlert ==
    ASSUME NEW h, IsSession(h), NEW rec
    PROVE  LET p == refuse_alert(h, rec) IN
           p.ok = FALSE /\ IsSession(p.h) /\ p.h.made = h.made
<1> DEFINE p     == refuse_alert(h, rec)
           heard == [h EXCEPT !.hs.alert = "unexpected_message"]
           told  == [heard EXCEPT !.t.alert_received = rec.alert.desc]
<1>1. IsSession(heard) /\ heard.made = h.made
  BY Zenon DEF IsSession, HsFields
<1>2. IsSession(told) /\ told.made = h.made
  <2> HIDE DEF heard
  <2> QED BY <1>1, Zenon DEF IsSession, TlsFields
<1>3. CASE rec.alert.len # 2
  <2>1. p = No(h, "decode_error")
    BY <1>3, Zenon DEF refuse_alert
  <2> HIDE DEF p
  <2>2. p.ok = FALSE /\ IsSession(p.h) /\ p.h.made = h.made
    BY <2>1, Refusal, Zenon DEF SamePushed
  <2> QED BY <2>2, Zenon DEF p
<1>4. CASE ~(rec.alert.len # 2) /\ rec.alert.desc \in {"close_notify", "user_canceled"}
  <2>1. p = [ok |-> FALSE, h |-> heard]
    BY <1>4, Zenon DEF refuse_alert
  <2> HIDE DEF p, heard
  <2>2. p.ok = FALSE /\ p.h = heard
    BY <2>1
  <2> QED BY <2>2, <1>1, Zenon DEF p
<1>5. CASE ~(rec.alert.len # 2) /\ rec.alert.desc \notin {"close_notify", "user_canceled"}
  <2>1. p = [ok |-> FALSE, h |-> told]
    BY <1>5, Zenon DEF refuse_alert
  <2> HIDE DEF p, told
  <2>2. p.ok = FALSE /\ p.h = told
    BY <2>1
  <2> QED BY <2>2, <1>2, Zenon DEF p
<1> QED BY <1>3, <1>4, <1>5, ZenonT(40)

\* The cells of a record go behind those in the buffer, where there is room.
LEMMA Feeds ==
    ASSUME NEW h, IsSession(h), NEW cells
    PROVE  LET p == hsr_feed(h, cells) IN
           /\ IsSession(p.h) /\ p.ok \in BOOLEAN /\ p.h.made = h.made
           /\ p.ok => /\ SameBut(h, p.h, {"buf"}, {}) /\ p.h.room = h.room
                      /\ p.h.t.buf = h.t.buf \o cells
<1> DEFINE p   == hsr_feed(h, cells)
           buf == h.t.buf \o cells
           g   == [h EXCEPT !.t.buf = buf]
<1>1. CASE Len(h.t.buf) + Len(cells) > BufLen
  <2>1. p = No(h, "record_overflow")
    BY <1>1, Zenon DEF hsr_feed
  <2> HIDE DEF p
  <2>2. p.ok = FALSE /\ IsSession(p.h) /\ p.h.made = h.made
    BY <2>1, Refusal, ZenonT(40) DEF SamePushed
  <2> QED BY <2>2, Zenon DEF p
<1>2. CASE ~(Len(h.t.buf) + Len(cells) > BufLen)
  <2>1. p = Ok([h EXCEPT !.t.buf = @ \o cells])
    BY <1>2, Zenon DEF hsr_feed
  <2>2. [h EXCEPT !.t.buf = @ \o cells] = g
    BY DEF IsSession, TlsFields
  <2>3. p.ok = TRUE /\ p.h = g
    <3> HIDE DEF p, g
    <3> QED BY <2>1, <2>2 DEF Ok
  <2>4. /\ IsSession(g) /\ g.made = h.made /\ g.room = h.room /\ g.t.buf = buf
        /\ SameBut(h, g, {"buf"}, {})
    <3> HIDE DEF buf
    <3> QED BY Zenon DEF IsSession, TlsFields, SameBut
  <2> HIDE DEF p, g
  <2>5. /\ IsSession(p.h) /\ p.ok = TRUE /\ p.h.made = h.made
        /\ SameBut(h, p.h, {"buf"}, {}) /\ p.h.room = h.room /\ p.h.t.buf = buf
    BY <2>3, <2>4, Zenon
  <2> QED BY <2>5, Zenon DEF p
<1> QED BY <1>1, <1>2, Zenon

\* what one record may change in a session: its buffer and, under a key, the
\* number of the next record
RecordTaken(h, g, cells) ==
    /\ g.room = h.room /\ SameBut(h, g, {"buf", "rd"}, {})
    /\ g.t.buf = h.t.buf \/ g.t.buf = h.t.buf \o cells
    /\ g.t.rd = h.t.rd \/ h.hs.encrypted
    /\ g.t.rd.key = h.t.rd.key /\ DOMAIN g.t.rd = DOMAIN h.t.rd

\* A record is taken, or refused before anything was pushed.
LEMMA TakesRecord ==
    ASSUME NEW h, IsSession(h), DOMAIN h.t.rd = {"key", "seq"}, NEW rec
    PROVE  LET p == take_record(h, rec) IN
           /\ IsSession(p.h) /\ p.ok \in BOOLEAN /\ p.h.made = h.made
           /\ p.ok => RecordTaken(h, p.h, rec.cells)
<1> DEFINE p      == take_record(h, rec)
           opened == [h EXCEPT !.t.rd.seq = @ + 1]
           Good(q) == /\ IsSession(q.h) /\ q.ok \in BOOLEAN /\ q.h.made = h.made
                      /\ q.ok => RecordTaken(h, q.h, rec.cells)
<1>1. \A g, alert : IsSession(g) /\ g.made = h.made => Good(No(g, alert))
  BY Refusal, Zenon DEF SamePushed
<1>2. \A g : IsSession(g) /\ g.made = h.made => Good(refuse_alert(g, rec))
  BY RefusesAlert, ZenonT(40)
<1>3. Good(Ok(h))
  <2>1. RecordTaken(h, h, rec.cells)
    BY Zenon DEF RecordTaken, SameBut
  <2> QED BY <2>1 DEF Ok
<1>4. Good(hsr_feed(h, rec.cells))
  <2> DEFINE q == hsr_feed(h, rec.cells)
  <2>1. /\ IsSession(q.h) /\ q.ok \in BOOLEAN /\ q.h.made = h.made
        /\ q.ok => /\ SameBut(h, q.h, {"buf"}, {}) /\ q.h.room = h.room
                   /\ q.h.t.buf = h.t.buf \o rec.cells
    BY Feeds, Zenon
  <2> HIDE DEF q
  <2>2. ASSUME q.ok PROVE RecordTaken(h, q.h, rec.cells)
    <3>1. SameBut(h, q.h, {"buf", "rd"}, {}) /\ q.h.t.rd = h.t.rd
      BY <2>1, <2>2 DEF SameBut, TlsFields
    <3> QED BY <3>1, <2>1, <2>2, ZenonT(40) DEF RecordTaken
  <2>3. Good(q)
    BY <2>1, <2>2, Zenon
  <2> QED BY <2>3, Zenon DEF q
<1>5. /\ IsSession(opened) /\ opened.made = h.made /\ opened.room = h.room
      /\ SameBut(h, opened, {"rd"}, {}) /\ opened.t.rd.key = h.t.rd.key
      /\ DOMAIN opened.t.rd = DOMAIN h.t.rd
  <2> DEFINE rd == [h.t.rd EXCEPT !.seq = @ + 1]
  <2>1. opened = [h EXCEPT !.t.rd = rd]
    BY DEF IsSession, TlsFields
  <2>2. rd.key = h.t.rd.key /\ DOMAIN rd = DOMAIN h.t.rd
    OBVIOUS
  <2> HIDE DEF rd
  <2>3. [h EXCEPT !.t.rd = rd].t.rd = rd
    BY Zenon DEF IsSession, TlsFields
  <2>4. /\ IsSession([h EXCEPT !.t.rd = rd]) /\ [h EXCEPT !.t.rd = rd].made = h.made
        /\ [h EXCEPT !.t.rd = rd].room = h.room /\ SameBut(h, [h EXCEPT !.t.rd = rd], {"rd"}, {})
    BY Zenon DEF IsSession, TlsFields, SameBut
  <2> HIDE DEF opened
  <2> QED BY <2>1, <2>2, <2>3, <2>4, ZenonT(40)
<1> HIDE DEF opened
<1>6. h.hs.encrypted => Good(hsr_feed(opened, rec.cells))
  <2> DEFINE q == hsr_feed(opened, rec.cells)
  <2>1. /\ IsSession(q.h) /\ q.ok \in BOOLEAN /\ q.h.made = opened.made
        /\ q.ok => /\ SameBut(opened, q.h, {"buf"}, {}) /\ q.h.room = opened.room
                   /\ q.h.t.buf = opened.t.buf \o rec.cells
    BY <1>5, Feeds, Zenon
  <2> HIDE DEF q
  <2>2. ASSUME q.ok, h.hs.encrypted PROVE RecordTaken(h, q.h, rec.cells)
    <3>1. SameBut(h, q.h, {"buf", "rd"}, {}) /\ q.h.t.rd = opened.t.rd /\ opened.t.buf = h.t.buf
      BY <2>1, <2>2, <1>5 DEF SameBut, TlsFields
    <3> QED BY <3>1, <2>1, <2>2, <1>5, ZenonT(40) DEF RecordTaken
  <2>3. h.hs.encrypted => Good(q)
    BY <2>1, <2>2, <1>5, ZenonT(40)
  <2> QED BY <2>3, Zenon DEF q
<1> HIDE DEF Good
<1>7. Good(p)
  BY <1>1, <1>2, <1>3, <1>4, <1>5, <1>6, ZenonT(40) DEF take_record, opened
<1> QED BY <1>7, Zenon DEF Good

\* A record leaves the session in the state it was in.
LEMMA AliveTaken ==
    ASSUME NEW h, Alive(h), NEW g, IsSession(g), g.made = h.made, NEW cells,
           RecordTaken(h, g, cells)
    PROVE  Alive(g)
<1>1. Open(h) /\ IsSession(h) /\ h.t.cfg \in Configs /\ DOMAIN h.t.rd = {"key", "seq"}
  BY Zenon DEF Alive, Open
<1>2. SameBut(h, g, {"buf", "rd"}, {}) /\ g.room = h.room /\ DOMAIN g.t.rd = DOMAIN h.t.rd
      /\ (g.t.rd = h.t.rd \/ h.hs.encrypted)
  BY ZenonT(40) DEF RecordTaken
<1>3. /\ g.step = h.step /\ g.t.cfg = h.t.cfg /\ g.t.state = h.t.state /\ g.t.wr = h.t.wr
      /\ g.t.peer_limit = h.t.peer_limit /\ g.t.transcript = h.t.transcript
      /\ g.t.rd_secret = h.t.rd_secret /\ g.t.wr_secret = h.t.wr_secret
      /\ g.t.alpn_selected = h.t.alpn_selected /\ g.t.psk_selected = h.t.psk_selected
      /\ g.t.sigalg = h.t.sigalg /\ g.t.suite = h.t.suite
      /\ g.hs.encrypted = h.hs.encrypted /\ g.hs.cookie = h.hs.cookie /\ g.hs.c_hs = h.hs.c_hs
  BY <1>2 DEF SameBut, TlsFields, HsFields
<1>4. Open(g)
  BY <1>1, <1>2, Zenon DEF Open
<1>5. ASSUME Legal(h) PROVE Legal(g)
  <2>1. LegalSelection(h) /\ LegalAuthentication(h)
    BY <1>5, Zenon DEF Legal
  <2>2. LegalSelection(g)
    BY <2>1, <1>3, Zenon DEF LegalSelection
  <2>3. LegalAuthentication(g)
    BY <2>1, <1>3, ZenonT(40) DEF LegalAuthentication, ProvedTicket
  <2> QED BY <1>3, <1>5, <2>2, <2>3, ZenonT(40) DEF Legal
<1>6. ASSUME AwaitsHello(h) PROVE AwaitsHello(g)
  <2>1. Flying(g)
    BY <1>3, <1>4, <1>6, Zenon DEF AwaitsHello, Flying
  <2>2. ASSUME RetryOwed(h, h.t.transcript) PROVE RetryOwed(g, g.t.transcript)
    BY <1>3, <2>2, ZenonT(40) DEF RetryOwed
  <2> QED BY <1>3, <1>6, <2>1, <2>2, Zenon DEF AwaitsHello
<1>7. ASSUME AwaitsFinished(h) PROVE AwaitsFinished(g)
  BY <1>3, <1>4, <1>5, <1>7, ZenonT(40) DEF AwaitsFinished, CanSeal
<1>8. ASSUME Proved(h) PROVE Proved(g)
  <2>1. h.hs.encrypted = FALSE /\ Legal(h)
    BY <1>8, ZenonT(40) DEF Proved
  <2>2. g.t.rd = h.t.rd
    BY <2>1, <1>2
  <2> QED BY <2>1, <2>2, <1>3, <1>5, <1>8, ZenonT(40) DEF Proved
<1>9. Alive(g)
  <2>1. /\ g.t.cfg \in Configs /\ DOMAIN g.t.rd = {"key", "seq"}
        /\ g.t.state = IF g.step = "COMPLETE" THEN "CONNECTED" ELSE "START"
    <3>1. h.t.state = IF h.step = "COMPLETE" THEN "CONNECTED" ELSE "START"
      BY Zenon DEF Alive
    <3> QED BY <1>1, <1>2, <1>3, <3>1
  <2>2. \/ g.step \in {"AWAIT_CLIENT_HELLO", "AWAIT_RETRY_HELLO"} /\ AwaitsHello(g)
        \/ g.step = "AWAIT_CLIENT_FINISHED" /\ AwaitsFinished(g)
        \/ g.step = "COMPLETE" /\ Proved(g)
    BY <1>3, <1>6, <1>7, <1>8, ZenonT(40) DEF Alive
  <2> QED BY <1>4, <2>1, <2>2, ZenonT(40) DEF Alive
<1> QED BY <1>9

\* A record of the client, whatever it is.
LEMMA Receives ==
    ASSUME IInv, NEW rec, CellsOk(rec.cells, r), srv_tcp_in(rec), CellsOk(cut', r)
    PROVE  Keeps
<1> DEFINE p == take_record(r, rec)
<1>1. ~session_dead(r) /\ IF p.ok THEN r' = p.h /\ driving' = TRUE ELSE fail(p.h)
  BY Zenon DEF srv_tcp_in
<1>2. IsSession(r) /\ Alive(r) /\ CellsOk(r.t.buf, r)
  BY <1>1, Zenon DEF IInv
<1>3. DOMAIN r.t.rd = {"key", "seq"}
  BY <1>2, Zenon DEF Alive
<1>4. /\ IsSession(p.h) /\ p.ok \in BOOLEAN /\ p.h.made = r.made
      /\ p.ok => RecordTaken(r, p.h, rec.cells)
  BY <1>2, <1>3, TakesRecord, ZenonT(40)
<1> HIDE DEF p
<1>5. CASE ~p.ok
  <2>1. Spoilt(p.h)
    BY <1>2, <1>4, RefusedEarly, ZenonT(40)
  <2>2. fail(p.h)
    BY <1>1, <1>5, Zenon
  <2>3. IInv' /\ session_dead(r)'
    BY <2>1, <2>2, Fails, ZenonT(40)
  <2> QED BY <2>3, Zenon DEF Keeps, KeyEndsRecord
<1>6. CASE p.ok
  <2> DEFINE g == r'
  <2>1. g = p.h /\ driving' = TRUE
    BY <1>1, <1>6, Zenon
  <2>2. IsSession(g) /\ g.made = r.made /\ RecordTaken(r, g, rec.cells)
    BY <2>1, <1>4, <1>6, ZenonT(40)
  <2>3. Alive(g)
    BY <2>2, <1>2, AliveTaken, ZenonT(40)
  <2>4. g.step = r.step /\ g.hs.cookie = r.hs.cookie /\ g.t.rd.key = r.t.rd.key
    BY <2>2, SMTT(30) DEF RecordTaken, SameBut, HsFields
  <2>5. g.t.buf = r.t.buf \/ g.t.buf = r.t.buf \o rec.cells
    BY <2>2, Zenon DEF RecordTaken
  <2> HIDE DEF g
  <2>6. CellsOk(g.t.buf, r)
    BY <2>5, <1>2, JoinedOk, Zenon
  <2>7. CellsOk(g.t.buf, g) /\ CellsOk(cut', g)
    <3>1. \A s : CellsOk(s, r) => CellsOk(s, g)
      BY <2>4, CellsStay, Zenon
    <3> QED BY <3>1, <2>6, Zenon
  <2>8. ~session_dead(g)
    <3>1. g.t.state = IF g.step = "COMPLETE" THEN "CONNECTED" ELSE "START"
      BY <2>3, ZenonT(40) DEF Alive
    <3> QED BY <3>1 DEF session_dead
  <2>9. IInv'
    BY <2>1, <2>2, <2>3, <2>7, <2>8 DEF IInv, g
  <2>10. KeyEndsRecord
    BY <2>4, Zenon DEF KeyEndsRecord, g
  <2> QED BY <2>9, <2>10, ZenonT(40) DEF Keeps
<1> QED BY <1>4, <1>5, <1>6, ZenonT(40)

\* The start of a run of cells is one.
LEMMA StartOk ==
    ASSUME NEW h, NEW s, CellsOk(s, h), NEW n \in Nat, n <= Len(s)
    PROVE  CellsOk(SubSeq(s, 1, n), h)
<1> DEFINE t == SubSeq(s, 1, n)
<1>1. PICK S : s \in Seq(S)
  BY DEF CellsOk, IsSeq
<1>2. t \in Seq(S) /\ Len(t) = n /\ \A i \in 1..n : t[i] = s[i]
  BY <1>1
<1>3. Len(s) \in Nat
  BY <1>1
<1>4. \A i \in 1..Len(t) : t[i] = s[i] /\ i \in 1..Len(s)
  BY <1>2, <1>3
<1> HIDE DEF t
<1>5. IsSeq(t)
  BY <1>2 DEF IsSeq
<1>6. CellsOk(t, h)
  BY <1>4, <1>5, ZenonT(40) DEF CellsOk
<1> QED BY <1>6, Zenon DEF t

\* One more cell behind a run of cells.
LEMMA OneMoreOk ==
    ASSUME NEW h, NEW s, CellsOk(s, h), NEW c, CellOk(c, h)
    PROVE  CellsOk(Append(s, c), h)
<1> DEFINE t == Append(s, c)
<1>1. IsSeq(s)
  BY Zenon DEF CellsOk
<1>2. /\ IsSeq(t) /\ Len(s) \in Nat /\ Len(t) = Len(s) + 1 /\ t[Len(s) + 1] = c
      /\ \A i \in 1..Len(s) : t[i] = s[i]
  BY <1>1, Heard, ZenonT(40)
<1> HIDE DEF t
<1>3. ASSUME NEW i \in 1..Len(t) PROVE CellOk(t[i], h)
  <2>1. i \in 1..Len(s) \/ i = Len(s) + 1
    BY <1>2
  <2> QED BY <2>1, <1>2, Zenon DEF CellsOk
<1>4. CellsOk(t, h)
  BY <1>2, <1>3, Zenon DEF CellsOk
<1> QED BY <1>4, Zenon DEF t

\* The cells of a message a client may say.
LEMMA SaidOk ==
    ASSUME NEW h, NEW m, Sayable(m, h.hs.cookie)
    PROVE  CellsOk(Cells(m), h)
<1> DEFINE s == Cells(m)
<1>1. m.size \in Nat
  BY Zenon DEF Sayable
<1>2. s = [i \in 1..m.size |-> s[i]] /\ \A i \in 1..m.size : s[i].msg = m
  BY DEF Cells
<1> HIDE DEF s
<1>3. IsSeq(s) /\ Len(s) = m.size
  BY <1>1, <1>2, Listed
<1>4. ASSUME NEW i \in 1..Len(s) PROVE CellOk(s[i], h)
  <2>1. s[i].msg = m
    BY <1>2, <1>3, Zenon
  <2> QED BY <2>1, <1>1, Zenon DEF CellOk
<1>5. CellsOk(s, h)
  BY <1>3, <1>4, ZenonT(40) DEF CellsOk
<1> QED BY <1>5, Zenon DEF s

\* The client says a message, or a part of one.
LEMMA HearsHandshake ==
    ASSUME IInv, PeerHandshake
    PROVE  Keeps
<1> DEFINE o == [msg |-> [type |-> "other", size |-> 1], at |-> 1]
           Say(c, n, more) == IF more THEN Append(c, o) ELSE SubSeq(c, 1, n)
<1>1. PICK c \in NextCells, n \in 1..RecordCells, more \in BOOLEAN :
          /\ n <= Len(c)
          /\ srv_tcp_in(HandshakeRecord(Say(c, n, more)))
          /\ cut' = SubSeq(c, n + 1, Len(c))
  BY ZenonT(40) DEF PeerHandshake
<1>2. n \in Nat
  BY <1>1, ServerAssumption
<1>3. ~session_dead(r)
  BY <1>1, Zenon DEF srv_tcp_in
<1>4. CellsOk(cut, r)
  BY <1>3, Zenon DEF IInv
<1>5. CellsOk(c, r)
  <2>1. CASE cut # << >>
    <3>1. c = cut
      BY <2>1 DEF NextCells
    <3> QED BY <3>1, <1>4
  <2>2. CASE cut = << >>
    <3>1. PICK m : Sayable(m, r.hs.cookie) /\ c = Cells(m)
      BY <2>2 DEF NextCells
    <3> QED BY <3>1, SaidOk, ZenonT(40)
  <2> QED BY <2>1, <2>2
<1>6. CellOk(o, r)
  <2>1. o.msg.size = 1 /\ o.msg.type # "client_hello" /\ o.msg.size \in Nat
    OBVIOUS
  <2> HIDE DEF o
  <2> QED BY <2>1, ZenonT(40) DEF CellOk, Sayable
<1> HIDE DEF o
<1>7. CellsOk(Say(c, n, more), r)
  <2>1. CellsOk(Append(c, o), r)
    BY <1>5, <1>6, OneMoreOk, ZenonT(40)
  <2>2. CellsOk(SubSeq(c, 1, n), r)
    BY <1>1, <1>2, <1>5, StartOk, ZenonT(40)
  <2> QED BY <2>1, <2>2, ZenonT(40)
<1> HIDE DEF Say
<1>8. HandshakeRecord(Say(c, n, more)).cells = Say(c, n, more)
  BY DEF HandshakeRecord, SealedRecord, PlainRecord
<1>9. CellsOk(cut', r)
  BY <1>1, <1>2, <1>5, RestOk, ZenonT(40)
<1> QED BY <1>1, <1>7, <1>8, <1>9, Receives, ZenonT(40)

\* The client sends something else.
LEMMA HearsOther ==
    ASSUME IInv, PeerOther
    PROVE  Keeps
<1>1. PICK rec : rec.cells = << >> /\ srv_tcp_in(rec) /\ cut' = cut
  <2>1. \A rec \in AlertRecords : rec.cells = << >>
    BY DEF AlertRecords, PlainRecord, SealedRecord
  <2>2. /\ CcsRecord.cells = << >> /\ PlainRecord("appdata", << >>).cells = << >>
        /\ PlainRecord("other", << >>).cells = << >>
        /\ SealedRecord(r.t.rd, "appdata", << >>).cells = << >>
    BY DEF CcsRecord, PlainRecord, SealedRecord
  <2> QED BY <2>1, <2>2, Zenon DEF PeerOther
<1>2. ~session_dead(r)
  BY <1>1, Zenon DEF srv_tcp_in
<1>3. CellsOk(cut, r)
  BY <1>2, Zenon DEF IInv
<1>4. CellsOk(<< >>, r)
  BY DEF CellsOk, IsSeq
<1>5. CellsOk(rec.cells, r) /\ CellsOk(cut', r)
  BY <1>1, <1>3, <1>4, ZenonT(40)
<1> QED BY <1>1, <1>5, Receives, ZenonT(40)

\* A session that goes on may fail at any time.
LEMMA FailsAlive ==
    ASSUME IInv, ~session_dead(r), NEW alert, fail([r EXCEPT !.hs.alert = alert])
    PROVE  Keeps
<1> DEFINE g == [r EXCEPT !.hs.alert = alert]
<1>1. IsSession(r) /\ Alive(r)
  BY Zenon DEF IInv
<1>2. IsSession(g) /\ g.made = r.made
  BY <1>1, Zenon DEF IsSession, HsFields
<1> HIDE DEF g
<1>3. Spoilt(g)
  BY <1>1, <1>2, RefusedEarly, ZenonT(40)
<1>4. IInv' /\ session_dead(r)'
  BY <1>3, Fails, Zenon DEF g
<1> QED BY <1>4, Zenon DEF Keeps, KeyEndsRecord

\* Nothing changes but the call that ends.
LEMMA SameSession ==
    ASSUME IInv, r' = r, cut' = cut, driving' \in BOOLEAN, driving' = driving \/ driving' = FALSE
    PROVE  Keeps
<1>1. driving = FALSE => driving' = FALSE
  OBVIOUS
<1>2. IInv'
  BY <1>1, Zenon DEF IInv
<1>3. KeyEndsRecord
  BY Zenon DEF KeyEndsRecord
<1> QED BY <1>2, <1>3, Zenon DEF Keeps

\* A close wipes the session and takes back nothing that was pushed.
LEMMA Closes ==
    ASSUME IInv, tcp_close
    PROVE  Keeps
<1>1. /\ r' = [wipe(r) EXCEPT !.t.state = "CLOSED"] /\ driving' = driving
      /\ driving = FALSE
  BY DEF tcp_close, IInv
<1>2. IsSession(r)
  BY Zenon DEF IInv
<1>3. IsSession(r') /\ r'.t.state = "CLOSED" /\ r'.made = r.made
  <2> DEFINE w == wipe(r)
  <2>1. IsSession(w) /\ w.made = r.made
    BY <1>2, ZenonT(40) DEF wipe, NoHs, IsSession, TlsFields, HsFields
  <2> HIDE DEF w
  <2>2. r' = [w EXCEPT !.t.state = "CLOSED"]
    BY <1>1, Zenon DEF w
  <2> DEFINE g == [w EXCEPT !.t.state = "CLOSED"]
  <2>3. IsSession(g) /\ g.t.state = "CLOSED" /\ g.made = r.made
    BY <2>1, Zenon DEF IsSession, TlsFields
  <2> QED BY <2>2, <2>3, ZenonT(40)
<1>4. session_dead(r')
  BY <1>3, Zenon DEF session_dead
<1>5. DeadMade(r.made)
  <2>1. CASE session_dead(r)
    BY <2>1, Zenon DEF IInv
  <2>2. CASE ~session_dead(r)
    <3>1. AllTaken(r.made)
      BY <2>2, Zenon DEF IInv, Alive, Open
    <3> QED BY <3>1, Zenon DEF AllTaken, DeadMade
  <2> QED BY <2>1, <2>2
<1>6. IInv'
  BY <1>1, <1>3, <1>4, <1>5 DEF IInv
<1> QED BY <1>4, <1>6, ZenonT(40) DEF Keeps, KeyEndsRecord

-----------------------------------------------------------------------------
(* The theorems *)

\* A session starts with the client's hello to come, or dead.
LEMMA Starts ==
    ASSUME Init
    PROVE  IInv
<1>1. PICK cfg \in Configs : r = srv_tcp_init(cfg)
  BY DEF Init
<1>2. driving = FALSE /\ cut = << >>
  BY SMTT(30) DEF Init
<1> DEFINE blank == Blank(cfg)
           t     == NoTls(cfg)
<1>3. /\ DOMAIN t = TlsFields /\ t.cfg = cfg /\ t.state = "START" /\ t.rd = NoDir /\ t.wr = NoDir
      /\ t.buf = << >> /\ t.transcript = << >>
  BY SMTT(30) DEF NoTls, TlsFields
<1>4. DOMAIN NoHs = HsFields /\ NoHs.cookie = << >> /\ NoHs.encrypted = FALSE
  BY SMTT(30) DEF NoHs, HsFields
<1>5. IsSession(blank) /\ blank.t = t /\ blank.hs = NoHs /\ blank.made = << >> /\ blank.room = 0
  <2> HIDE DEF t
  <2>1. blank = [t |-> t, hs |-> NoHs, step |-> "none", made |-> << >>, room |-> 0]
    BY DEF Blank, t
  <2> HIDE DEF blank
  <2> QED BY <2>1, <1>3, <1>4 DEF IsSession
<1>6. IsSeq(<< >>) /\ Len(<< >>) = 0 /\ 1..Len(<< >>) = {}
  BY DEF IsSeq
<1>7. CASE ~cfg.valid
  <2> DEFINE g == [blank EXCEPT !.t.state = "FAILED"]
  <2>1. r = g
    BY <1>1, <1>7, Zenon DEF srv_tcp_init
  <2>2. IsSession(g) /\ g.t.state = "FAILED" /\ g.made = << >>
    <3> HIDE DEF blank, t
    <3> QED BY <1>3, <1>5, Zenon DEF IsSession, TlsFields
  <2> HIDE DEF g
  <2>3. DeadMade(<< >>)
    BY <1>6, Zenon DEF DeadMade
  <2>4. session_dead(r)
    BY <2>1, <2>2, ZenonT(40) DEF session_dead
  <2> QED BY <2>1, <2>2, <2>3, <2>4, <1>2, Zenon DEF IInv
<1>8. CASE cfg.valid
  <2> DEFINE hs == [NoHs EXCEPT !.alert = "decode_error", !.kex = {"x25519"}]
             u  == [t EXCEPT !.peer_limit = TxCells, !.transcript = << >>]
             e  == [blank EXCEPT !.hs.alert = "decode_error", !.t.peer_limit = TxCells,
                                 !.step = "AWAIT_CLIENT_HELLO"]
             g  == srv_begin(e)
  <2>1. r = g
    BY <1>1, <1>8, Zenon DEF srv_tcp_init
  <2>2. /\ DOMAIN u = TlsFields /\ u.cfg = cfg /\ u.state = "START" /\ u.rd = NoDir
        /\ u.wr = NoDir /\ u.buf = << >> /\ u.transcript = << >> /\ u.peer_limit = TxCells
    <3> HIDE DEF t
    <3> QED BY <1>3 DEF TlsFields
  <2>3. DOMAIN hs = HsFields /\ hs.cookie = << >> /\ hs.encrypted = FALSE
    BY <1>4 DEF HsFields
  <2>4. /\ DOMAIN g = {"t", "hs", "step", "made", "room"} /\ g.t = u /\ g.hs = hs
        /\ g.step = "AWAIT_CLIENT_HELLO" /\ g.made = << >> /\ g.room = 0 /\ g.room \in Nat
    <3> DEFINE a == [NoHs EXCEPT !.alert = "decode_error"]
               l == [t EXCEPT !.peer_limit = TxCells]
    <3>1. /\ DOMAIN e = {"t", "hs", "step", "made", "room"} /\ e.t = l /\ e.hs = a
          /\ e.step = "AWAIT_CLIENT_HELLO" /\ e.made = << >> /\ e.room = 0
      <4> HIDE DEF blank, t
      <4> QED BY <1>5 DEF IsSession
    <3>2. hs = [a EXCEPT !.kex = {"x25519"}] /\ u = [l EXCEPT !.transcript = << >>]
      <4> HIDE DEF t
      <4> QED BY <1>3, <1>4 DEF HsFields, TlsFields
    <3> HIDE DEF e, a, l, hs, u
    <3> QED BY <3>1, <3>2 DEF srv_begin
  <2> HIDE DEF u, hs
  <2> HIDE DEF g
  <2>5. IsSession(g)
    BY <2>2, <2>3, <2>4, ZenonT(40) DEF IsSession
  <2>6. DOMAIN NoDir = {"key", "seq"} /\ NotApp(NoDir)
    BY Zenon DEF NoDir, NotApp, NoSecret
  <2>7. AllTaken(<< >>) /\ BeforeApp(<< >>)
    BY <1>6, Zenon DEF AllTaken, BeforeApp
  <2>8. Open(g)
    BY <2>4, <2>5, <2>7, ZenonT(40) DEF Open
  <2>9. cfg.quic = FALSE /\ cfg.chain \in Nat /\ TxCells \in Nat \ {0}
    BY ServerAssumption, TxAssumption, ZenonT(40)
  <2>10. Flying(g)
    BY <2>2, <2>4, <2>6, <2>7, <2>8, <2>9, ZenonT(40) DEF Flying
  <2>11. AwaitsHello(g)
    <3>1. g.step # "AWAIT_RETRY_HELLO"
      BY <2>4
    <3> QED BY <3>1, <2>2, <2>3, <2>4, <2>10, ZenonT(40) DEF AwaitsHello
  <2>12. /\ g.t.cfg \in Configs /\ DOMAIN g.t.rd = {"key", "seq"} /\ g.t.state = "START"
         /\ g.step \in {"AWAIT_CLIENT_HELLO", "AWAIT_RETRY_HELLO"} /\ g.step # "COMPLETE"
    BY <2>2, <2>4, <2>6
  <2>13. Alive(g)
    BY <2>8, <2>11, <2>12, ZenonT(40) DEF Alive
  <2>14. CellsOk(<< >>, g)
    BY <1>6, ZenonT(40) DEF CellsOk
  <2>15. ~session_dead(g)
    BY <2>12 DEF session_dead
  <2> QED BY <2>1, <2>2, <2>4, <2>5, <2>13, <2>14, <2>15, <1>2, Zenon DEF IInv
<1> QED BY <1>7, <1>8

\* Every step keeps the invariant, and changes the read key at a record's end.
LEMMA Steps ==
    ASSUME IInv, [Next]_vars
    PROVE  Keeps
<1>1. CASE PeerHandshake
  BY <1>1, HearsHandshake
<1>2. CASE PeerOther
  BY <1>2, HearsOther
<1>3. CASE srv_tcp_in_overlong
  <2>1. ~session_dead(r) /\ fail([r EXCEPT !.hs.alert = "record_overflow"])
    BY <1>3, Zenon DEF srv_tcp_in_overlong
  <2> QED BY <2>1, FailsAlive, ZenonT(40)
<1>4. CASE drive_done
  <2>1. r' = r /\ cut' = cut /\ driving' = FALSE
    BY <1>4 DEF drive_done
  <2> QED BY <2>1, SameSession, Zenon
<1>5. CASE drive_oversize
  <2>1. driving /\ fail([r EXCEPT !.hs.alert = OversizeAlert(r)])
    BY <1>5, Zenon DEF drive_oversize
  <2>2. ~session_dead(r)
    BY <2>1, Zenon DEF IInv
  <2> QED BY <2>1, <2>2, FailsAlive, Zenon
<1>6. ASSUME NEW room \in Rooms, NEW signs \in BOOLEAN,
             step_client_hello(room, signs) \/ step_retry_hello(room, signs)
      PROVE  Keeps
  <2>1. driving /\ Whole(r)
    BY <1>6, ZenonT(40) DEF step_client_hello, step_retry_hello, At
  <2>2. Reads
    BY <2>1 DEF Reads, IInv
  <2> QED BY <2>2, <1>6, FirstHello, SecondHello, ZenonT(40)
<1>7. ASSUME NEW room \in Rooms, step_client_finished(room)
      PROVE  Keeps
  <2>1. driving /\ Whole(r)
    BY <1>7, ZenonT(40) DEF step_client_finished, At
  <2>2. Reads
    BY <2>1 DEF Reads, IInv
  <2> QED BY <2>2, <1>7, ClientFinished, ZenonT(40)
<1>8. CASE step_complete
  <2>1. driving /\ Whole(r)
    BY <1>8, ZenonT(40) DEF step_complete, At
  <2>2. Reads
    BY <2>1 DEF Reads, IInv
  <2> QED BY <2>2, <1>8, AfterComplete, ZenonT(40)
<1>9. CASE tcp_close
  BY <1>9, Closes
<1>10. CASE UNCHANGED vars
  <2>1. r' = r /\ cut' = cut /\ driving' = driving
    BY <1>10 DEF vars
  <2>2. driving' \in BOOLEAN
    BY <2>1 DEF IInv
  <2> QED BY <2>1, <2>2, SameSession
<1> QED BY <1>1, <1>2, <1>3, <1>4, <1>5, <1>6, <1>7, <1>8, <1>9, <1>10, ZenonT(40) DEF Next

\* The inductive invariant, from ch_srv_tcp_init on: what was pushed, heard and
\* keyed fits the step the session is at, the cookie is the one its retry minted,
\* and every cell still to be read is of a message a client may say.
THEOREM Invariance == Spec => []IInv
<1>1. IInv /\ [Next]_vars => IInv'
  BY Steps DEF Keeps
<1> QED BY <1>1, Starts, PTL DEF Spec

\* A session that answered made a legal flight.
LEMMA AnsweredLegally ==
    ASSUME IInv, Answered
    PROVE  Legal(r)
<1>1. Alive(r) /\ r.step \notin {"AWAIT_CLIENT_HELLO", "AWAIT_RETRY_HELLO"}
  BY DEF IInv, Answered
<1> QED BY <1>1, Zenon DEF Alive, AwaitsFinished, Proved

\* The server runs the suite, group, scheme and protocol its configuration
\* prefers among the offers of the hello it answered, and after a retry those the
\* cookie carried are still that (srv_select, srv_check_retry_hello).
THEOREM SelectionLegalAlways == Spec => []SelectionLegal
<1>1. IInv => SelectionLegal
  BY AnsweredLegally, ZenonT(40) DEF SelectionLegal, Legal
<1> QED BY <1>1, Invariance, PTL

\* A session resumed only on a ticket of this server that is fresh and bound to
\* the whole exchange, and sent its certificate otherwise (srv_select_auth,
\* srv_send_certificate, srv_send_certificate_verify).
THEOREM ResumptionProvedAlways == Spec => []ResumptionProved
<1>1. IInv => ResumptionProved
  BY AnsweredLegally, ZenonT(40) DEF ResumptionProved, Legal
<1> QED BY <1>1, Invariance, PTL

\* A session is connected only behind the client's Finished over the whole
\* flight, with fresh keys in both directions and at most a ticket sent under its
\* own (srv_read_client_finished, srv_complete, srv_send_new_session_ticket).
THEOREM ConnectedIsProvedAlways == Spec => []ConnectedIsProved
<1>1. IInv => ConnectedIsProved
  <2> SUFFICES ASSUME IInv, r.t.state = "CONNECTED" PROVE ConnectedIsProved
    BY Zenon DEF ConnectedIsProved
  <2>1. ~session_dead(r)
    BY DEF session_dead
  <2>2. Alive(r)
    BY <2>1, ZenonT(40) DEF IInv
  <2>3. r.step = "COMPLETE"
    BY <2>2 DEF Alive
  <2>4. Proved(r)
    <3>1. r.step \notin {"AWAIT_CLIENT_HELLO", "AWAIT_RETRY_HELLO"}
          /\ r.step # "AWAIT_CLIENT_FINISHED"
      BY <2>3
    <3> QED BY <3>1, <2>2, ZenonT(40) DEF Alive
  <2> QED BY <2>4, Zenon DEF ConnectedIsProved, Proved, NotApp
<1> QED BY <1>1, Invariance, PTL

\* The record a sink refused is the last a session makes, but for the alert of
\* its failure (srv_out.c, and the failure path of srv_tcp_nonblocking.c).
THEOREM RefusalKillsAlways == Spec => []RefusalKills
<1>1. IInv => RefusalKills
  <2> SUFFICES ASSUME IInv PROVE RefusalKills
    OBVIOUS
  <2>1. CASE session_dead(r)
    BY <2>1, Zenon DEF IInv, DeadMade, RefusalKills
  <2>2. CASE ~session_dead(r)
    <3>1. AllTaken(r.made)
      BY <2>2, Zenon DEF IInv, Alive, Open
    <3> QED BY <3>1, Zenon DEF AllTaken, RefusalKills
  <2> QED BY <2>1, <2>2
<1> QED BY <1>1, Invariance, PTL

\* No byte that came under one read key is read under the next: the message that
\* changes the key was the last in the buffer (hsr_check_record_end).
THEOREM KeyChangeEndsRecordAlways == Spec => KeyChangeEndsRecord
<1>1. IInv /\ [Next]_vars =>
          [(~session_dead(r)' /\ r'.t.rd.key # r.t.rd.key) =>
               Len(r.t.buf) = Head(r.t.buf).msg.size]_vars
  BY Steps, Zenon DEF Keeps, KeyEndsRecord
<1> QED BY <1>1, Invariance, PTL DEF Spec, KeyChangeEndsRecord

=============================================================================
