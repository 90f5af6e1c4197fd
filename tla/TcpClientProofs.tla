-------------------------- MODULE TcpClientProofs --------------------------
(***************************************************************************)
(* Proofs about TcpClient, for every set of configurations, every peer and *)
(* every size of the buffers: nothing is assumed of what a peer says.      *)
(*                                                                         *)
(* CompleteIsAuthenticated speaks of the last step only.  It is inductive  *)
(* once every step of the table says what has been heard by then (Flow),   *)
(* which is the flight's legality cut off at that message, together with   *)
(* the facts the next handlers lean on: which secret the handshake key is, *)
(* which epoch the session loaded, what leaf it was shown.  SecretsDie     *)
(* needs to know which secrets each step holds (Holds), and the output     *)
(* properties how many pieces have left (Output).                          *)
(*                                                                         *)
(* The handlers of the flight come first, each stated once: which fields a *)
(* refusal or an acceptance may change, and what the message read must     *)
(* have said for it to be accepted.  The driver's proofs look into none of *)
(* them.  A session is a record of records whose fields hold whatever the  *)
(* peer and the caller put there, so it has no type to speak of: IsSession *)
(* gives its shape, and SameBut(h, g, tls, hs) says that g differs from h  *)
(* in the named fields at most.                                            *)
(***************************************************************************)
EXTENDS TcpClient, TLAPS

-----------------------------------------------------------------------------
(* The shape of a session: its fields, whatever they hold *)

TlsFields ==
    {"cfg", "state", "keys", "rd", "wr", "rd_secret", "wr_secret", "res_master",
     "transcript", "suite", "group", "sigalg", "psk_selected", "alpn_selected", "sni",
     "hrr_sent", "peer_limit", "alert_sent", "alert_received", "epoch", "epoch_seen",
     "epoch_status", "epoch_store_failed", "quic_negotiated_version", "buf"}

HsFields ==
    {"alert", "kex", "early", "cookie", "retry_group", "suite", "handshake_secret",
     "c_hs", "s_hs", "master", "server_finished_ok", "encrypted", "leaf", "ticket_auth",
     "level"}

IsSession(h) ==
    /\ DOMAIN h = {"t", "hs", "step", "tx", "tx_off"}
    /\ DOMAIN h.t = TlsFields
    /\ DOMAIN h.hs = HsFields

\* two sessions that differ at most in the fields named
SameBut(h, g, tls, hs) ==
    /\ \A f \in TlsFields \ tls : g.t[f] = h.t[f]
    /\ \A f \in HsFields \ hs : g.hs[f] = h.hs[f]
    /\ g.step = h.step /\ g.tx = h.tx /\ g.tx_off = h.tx_off

\* a sequence, whatever its elements
IsSeq(s) == \E S : s \in Seq(S)

-----------------------------------------------------------------------------
(* Sequences and shapes *)

\* A message heard is the last of the transcript, and what was heard stays.
LEMMA Heard ==
    ASSUME NEW tr, IsSeq(tr), NEW m
    PROVE  /\ IsSeq(Append(tr, m)) /\ Len(tr) \in Nat
           /\ Len(Append(tr, m)) = Len(tr) + 1
           /\ Append(tr, m)[Len(tr) + 1] = m
           /\ \A i \in 1..Len(tr) : Append(tr, m)[i] = tr[i]
<1>1. PICK S : tr \in Seq(S)
  BY DEF IsSeq
<1>2. tr \in Seq(S \cup {m})
  BY <1>1
<1>3. Append(tr, m) \in Seq(S \cup {m})
  BY <1>2
<1> QED BY <1>2, <1>3 DEF IsSeq

\* A prefix of the transcript is the same after a message more.
LEMMA HeardPrefix ==
    ASSUME NEW tr, IsSeq(tr), NEW m, NEW n \in 0..Len(tr)
    PROVE  Prefix(Append(tr, m), n) = Prefix(tr, n)
<1>1. PICK S : tr \in Seq(S)
  BY DEF IsSeq
<1>2. tr \in Seq(S \cup {m})
  BY <1>1
<1> QED BY <1>2 DEF Prefix

\* All of a transcript is a prefix of it.
LEMMA WholePrefix ==
    ASSUME NEW tr, IsSeq(tr)
    PROVE  Prefix(tr, Len(tr)) = tr
<1>1. PICK S : tr \in Seq(S)
  BY DEF IsSeq
<1> QED BY <1>1 DEF Prefix

\* What was heard before a message is the prefix the message covers.
LEMMA HeardCovers ==
    ASSUME NEW tr, IsSeq(tr), NEW m
    PROVE  Prefix(Append(tr, m), Len(tr)) = tr
<1>1. Len(tr) \in Nat
  BY Heard
<1> QED BY <1>1, HeardPrefix, WholePrefix

\* The fields of a zeroed session.
LEMMA BlankShape == DOMAIN NoHs = HsFields /\ \A cfg : IsSession(Blank(cfg))
<1>1. DOMAIN NoHs = HsFields
  BY DEF NoHs, HsFields
<1>2. ASSUME NEW cfg PROVE DOMAIN NoTls(cfg) = TlsFields
  BY DEF NoTls, TlsFields
<1>3. ASSUME NEW cfg PROVE IsSession(Blank(cfg))
  BY <1>1, <1>2 DEF Blank, IsSession
<1> QED BY <1>1, <1>3

\* A handler's refusal is a session.
LEMMA Refusal ==
    ASSUME NEW h, IsSession(h), NEW alert, NEW res, res = No(h, alert)
    PROVE  res.ok = FALSE /\ IsSession(res.h)
BY DEF No, IsSession, HsFields

\* Two changes are one.
LEMMA SameThen ==
    ASSUME NEW a, NEW b, NEW c, NEW T1, NEW T2, NEW T, NEW H1, NEW H2, NEW H,
           SameBut(a, b, T1, H1), SameBut(b, c, T2, H2),
           T1 \cup T2 \subseteq T, H1 \cup H2 \subseteq H
    PROVE  SameBut(a, c, T, H)
BY DEF SameBut

-----------------------------------------------------------------------------
(* What each handler does to a session it admits a message to *)

\* A message leaves the buffer and nothing else of the session.
LEMMA TakenFacts ==
    ASSUME NEW h, IsSession(h)
    PROVE  LET g == Taken(h) IN IsSession(g) /\ SameBut(h, g, {"buf"}, {}) /\ g.hs = h.hs
BY DEF Taken, IsSession, TlsFields, HsFields, SameBut

\* A message heard goes to the transcript and nowhere else.
LEMMA HearFacts ==
    ASSUME NEW h, IsSession(h), NEW m
    PROVE  LET g == Hear(h, m) IN
           /\ IsSession(g) /\ SameBut(h, g, {"transcript"}, {}) /\ g.hs = h.hs
           /\ g.t.transcript = Append(h.t.transcript, m)
BY DEF Hear, IsSession, TlsFields, HsFields, SameBut

\* A ServerHello that is read is a well-formed one of the right suite.
LEMMA ReadHello ==
    ASSUME NEW h, IsSession(h), NEW m
    PROVE  LET res == hsf_read_server_hello(h, m) IN
           /\ IsSession(res.h) /\ res.ok \in BOOLEAN
           /\ res.ok => /\ m.type = "server_hello" /\ hsp_parse_server_hello(h.t.cfg, m)
                        /\ take_suite(h, m)
           /\ res.ok /\ ~m.hrr =>
                 /\ SameBut(h, res.h, {"transcript"}, {"suite"})
                 /\ res.h.t.transcript = Append(h.t.transcript, m)
           /\ res.ok /\ m.hrr =>
                 /\ SameBut(h, res.h, {"transcript"}, {"suite", "cookie", "retry_group", "kex"})
                 /\ res.h.t.transcript =
                       << [type |-> "message_hash", of |-> h.t.transcript], m >>
                 /\ RetryAllowed(h, m)
                 /\ res.h.hs.suite = m.suite /\ res.h.hs.cookie = m.cookie
                 /\ res.h.hs.retry_group = IF m.group = "none" THEN h.hs.retry_group
                                                               ELSE m.group
<1> DEFINE named == [h EXCEPT !.hs.suite = m.suite]
           again == restart_transcript(named, m)
           tried == take_retry(again, m)
           res   == hsf_read_server_hello(h, m)
<1>1. /\ IsSession(named) /\ SameBut(h, named, {}, {"suite"}) /\ named.hs.suite = m.suite
      /\ named.t = h.t
  BY DEF IsSession, TlsFields, HsFields, SameBut
<1>2. /\ IsSession(again) /\ SameBut(h, again, {"transcript"}, {"suite"})
      /\ again.hs.suite = m.suite
      /\ again.t.transcript = << [type |-> "message_hash", of |-> h.t.transcript], m >>
  BY <1>1 DEF restart_transcript, IsSession, TlsFields, HsFields, SameBut
<1> HIDE DEF again
<1>3. /\ IsSession(tried)
      /\ SameBut(h, tried, {"transcript"}, {"suite", "cookie", "retry_group", "kex"})
      /\ tried.hs.suite = m.suite /\ tried.hs.cookie = m.cookie
      /\ tried.hs.retry_group = IF m.group = "none" THEN h.hs.retry_group ELSE m.group
      /\ tried.t.transcript = again.t.transcript
  BY <1>2, Zenon DEF take_retry, IsSession, TlsFields, HsFields, SameBut
<1> HIDE DEF named, tried
<1>4. CASE m.type # "server_hello" \/ ~hsp_parse_server_hello(h.t.cfg, m) \/ ~take_suite(h, m)
  <2>1. PICK a : res = No(h, a)
    BY <1>4 DEF hsf_read_server_hello
  <2>2. res.ok = FALSE /\ IsSession(res.h)
    BY <2>1, Refusal, Zenon
  <2> QED BY <2>2, Zenon
<1>5. CASE /\ m.type = "server_hello" /\ hsp_parse_server_hello(h.t.cfg, m) /\ take_suite(h, m)
           /\ ~m.hrr
  <2>1. res = Ok(Hear(named, m))
    BY <1>5 DEF hsf_read_server_hello, named
  <2>2. SameBut(h, Hear(named, m), {"transcript"}, {"suite"})
    BY <1>1, HearFacts DEF SameBut
  <2>3. res.ok = TRUE /\ res.h = Hear(named, m)
    BY <2>1 DEF Ok
  <2>4. IsSession(res.h) /\ res.h.t.transcript = Append(h.t.transcript, m)
    BY <1>1, <2>3, HearFacts
  <2> QED BY <1>5, <2>2, <2>3, <2>4, Zenon
<1>6. CASE /\ m.type = "server_hello" /\ hsp_parse_server_hello(h.t.cfg, m) /\ take_suite(h, m)
           /\ m.hrr /\ RetryAllowed(h, m)
  <2>1. res = Ok(tried)
    BY <1>6 DEF hsf_read_server_hello, named, again, tried
  <2>2. res.ok = TRUE /\ res.h = tried
    BY <2>1 DEF Ok
  <2> QED BY <1>2, <1>3, <1>6, <2>2, Zenon
<1>7. CASE /\ m.type = "server_hello" /\ hsp_parse_server_hello(h.t.cfg, m) /\ take_suite(h, m)
           /\ m.hrr /\ ~RetryAllowed(h, m)
  <2>1. res = No(again, "illegal_parameter")
    BY <1>7 DEF hsf_read_server_hello, named, again
  <2>2. res.ok = FALSE /\ IsSession(res.h)
    BY <1>2, <2>1, Refusal, Zenon
  <2> QED BY <2>2, Zenon
<1> QED BY <1>4, <1>5, <1>6, <1>7

\* An accepted ServerHello names a group of the client's shares, and takes the
\* ticket or leaves it as the client allows.
LEMMA AcceptFacts ==
    ASSUME NEW h, IsSession(h), NEW m, NEW res, res = hsf_accept_server_hello(h, m)
    PROVE  /\ IsSession(res.h) /\ res.ok \in BOOLEAN
           /\ res.ok =>
                 /\ SameBut(h, res.h, {"group", "suite", "psk_selected"}, {"early"})
                 /\ m.group # "none" /\ selected_group_ok(h, m.group)
                 /\ PskOffered(h) /\ m.psk = "zero" => h.t.cfg.psk = HashOf(m.suite)
                 /\ PskOffered(h) => m.psk \in {"none", "zero"}
                 /\ TwoGroups(h.t.cfg) /\ h.t.cfg.require_pq => m.group = "hybrid"
                 /\ res.h.t.group = m.group
                 /\ res.h.t.psk_selected = (PskOffered(h) /\ m.psk = "zero")
                 /\ res.h.hs.early = IF PskOffered(h) /\ m.psk = "zero" THEN h.hs.early
                                                                        ELSE "nopsk"
<1> DEFINE g    == [h EXCEPT !.t.group = m.group, !.t.suite = m.suite]
           took == PskOffered(h) /\ m.psk = "zero"
           left == PskOffered(h) /\ m.psk # "zero"
           d    == IF ~PskOffered(h) THEN [g EXCEPT !.hs.early = "nopsk"]
                   ELSE IF left THEN decline_psk(g) ELSE g
           s    == [d EXCEPT !.t.psk_selected = took]
<1>1. IsSession(g) /\ SameBut(h, g, {"group", "suite"}, {}) /\ g.t.group = m.group
  BY Zenon DEF IsSession, TlsFields, HsFields, SameBut
<1>2. /\ IsSession(d) /\ SameBut(h, d, {"group", "suite"}, {"early"}) /\ d.t.group = m.group
      /\ d.hs.early = IF took THEN h.hs.early ELSE "nopsk"
  <2> HIDE DEF g
  <2> QED BY <1>1 DEF decline_psk, IsSession, TlsFields, HsFields, SameBut
<1> HIDE DEF d
<1>3. /\ IsSession(s) /\ SameBut(h, s, {"group", "suite", "psk_selected"}, {"early"})
      /\ s.t.group = m.group /\ s.t.psk_selected = took
      /\ s.hs.early = IF took THEN h.hs.early ELSE "nopsk"
  BY <1>2 DEF IsSession, TlsFields, HsFields, SameBut
<1> HIDE DEF g, s
<1> DEFINE Admitted ==
             /\ m.group # "none" /\ selected_group_ok(h, m.group)
             /\ left => h.t.cfg.trust = "webpki" /\ m.psk = "none"
             /\ took => h.t.cfg.psk = HashOf(m.suite)
             /\ TwoGroups(h.t.cfg) /\ h.t.cfg.require_pq => m.group = "hybrid"
<1>4. CASE ~Admitted
  <2>1. \E x \in {g, d, s} : \E a : res = No(x, a)
    BY <1>4, Zenon DEF hsf_accept_server_hello, g, d, s
  <2>2. PICK x \in {g, d, s} : \E a : res = No(x, a)
    BY <2>1
  <2>3. IsSession(x)
    BY <1>1, <1>2, <1>3
  <2>4. res.ok = FALSE /\ IsSession(res.h)
    BY <2>2, <2>3, Refusal, Zenon
  <2> QED BY <2>4, Zenon
<1>5. CASE Admitted
  <2>1. res = Ok(s)
    BY <1>5 DEF hsf_accept_server_hello, g, d, s
  <2>2. res.ok = TRUE /\ res.h = s
    BY <2>1 DEF Ok
  <2> QED BY <1>3, <1>5, <2>2, Zenon
<1> QED BY <1>4, <1>5

\* The derivation spends the private keys and the early secret, and the handshake
\* secrets cover everything up to the ServerHello.
LEMMA DeriveFacts ==
    ASSUME NEW h, IsSession(h), NEW m, NEW res, res = hsf_derive_handshake_secrets(h, m)
    PROVE  /\ IsSession(res.h) /\ res.ok \in BOOLEAN
           /\ res.ok =>
                 /\ SameBut(h, res.h, {}, {"kex", "early", "handshake_secret", "c_hs", "s_hs"})
                 /\ m.share_ok
                 /\ res.h.hs.kex = {} /\ res.h.hs.early = "zero"
                 /\ res.h.hs.s_hs = Secret(h, "s hs") /\ res.h.hs.c_hs = Secret(h, "c hs")
                 /\ res.h.hs.handshake_secret = Secret(h, "hs")
<1> DEFINE spent == [h EXCEPT !.hs.kex = {}, !.hs.early = "zero"]
           keyed == [spent EXCEPT !.hs.handshake_secret = Secret(h, "hs"),
                                  !.hs.c_hs = Secret(h, "c hs"),
                                  !.hs.s_hs = Secret(h, "s hs")]
<1>1. /\ IsSession(spent) /\ SameBut(h, spent, {}, {"kex", "early"})
      /\ spent.hs.kex = {} /\ spent.hs.early = "zero"
  BY Zenon DEF IsSession, TlsFields, HsFields, SameBut
<1> HIDE DEF spent
<1>2. /\ IsSession(keyed)
      /\ SameBut(h, keyed, {}, {"kex", "early", "handshake_secret", "c_hs", "s_hs"})
      /\ keyed.hs.kex = {} /\ keyed.hs.early = "zero"
      /\ keyed.hs.s_hs = Secret(h, "s hs") /\ keyed.hs.c_hs = Secret(h, "c hs")
      /\ keyed.hs.handshake_secret = Secret(h, "hs")
  BY <1>1, Zenon DEF IsSession, TlsFields, HsFields, SameBut
<1> HIDE DEF keyed
<1>3. CASE ~m.share_ok
  <2>1. res = No(spent, "illegal_parameter")
    BY <1>3 DEF hsf_derive_handshake_secrets, spent
  <2>2. res.ok = FALSE /\ IsSession(res.h)
    BY <1>1, <2>1, Refusal, Zenon
  <2> QED BY <2>2, Zenon
<1>4. CASE m.share_ok
  <2>1. res = Ok(keyed)
    BY <1>4 DEF hsf_derive_handshake_secrets, spent, keyed
  <2>2. res.ok = TRUE /\ res.h = keyed
    BY <2>1 DEF Ok
  <2> QED BY <1>2, <1>4, <2>2, Zenon
<1> QED BY <1>3, <1>4, Zenon

\* Both directions start on the handshake keys.
LEMMA InstallFacts ==
    ASSUME NEW h, IsSession(h)
    PROVE  LET g == InstallHandshakeKeys(h) IN
           /\ IsSession(g) /\ SameBut(h, g, {"rd", "wr", "keys"}, {"encrypted"})
           /\ g.t.keys = TRUE /\ g.t.wr = [key |-> h.hs.c_hs, seq |-> 0]
BY ZenonT(40) DEF InstallHandshakeKeys, IsSession, TlsFields, HsFields, SameBut

\* The ServerHello as the client takes it: accepted, at the end of its record,
\* and its keys derived and installed.
LEMMA AcceptHelloFacts ==
    ASSUME NEW h, IsSession(h), NEW m, NEW res, res = AcceptHello(h, m)
    PROVE  /\ IsSession(res.h) /\ res.ok \in BOOLEAN
           /\ res.ok =>
                 LET g == res.h IN
                 /\ SameBut(h, g, {"group", "suite", "psk_selected", "rd", "wr", "keys"},
                       {"kex", "early", "handshake_secret", "c_hs", "s_hs", "encrypted"})
                 /\ m.group # "none" /\ selected_group_ok(h, m.group) /\ m.share_ok
                 /\ PskOffered(h) /\ m.psk = "zero" => h.t.cfg.psk = HashOf(m.suite)
                 /\ PskOffered(h) => m.psk \in {"none", "zero"}
                 /\ TwoGroups(h.t.cfg) /\ h.t.cfg.require_pq => m.group = "hybrid"
                 /\ g.t.psk_selected = (PskOffered(h) /\ m.psk = "zero")
                 /\ g.hs.kex = {} /\ g.hs.early = "zero"
                 /\ g.hs.s_hs.label = "s hs" /\ g.hs.c_hs.label = "c hs"
                 /\ g.hs.s_hs.over = h.t.transcript /\ g.hs.s_hs.group = m.group
                 /\ g.hs.s_hs.early = IF PskOffered(h) /\ m.psk = "zero" THEN h.hs.early
                                                                         ELSE "nopsk"
                 /\ "over" \in DOMAIN g.hs.handshake_secret
                 /\ g.t.keys = TRUE /\ g.t.wr = [key |-> g.hs.c_hs, seq |-> 0]
<1> DEFINE accepted == hsf_accept_server_hello(h, m)
           derived  == hsf_derive_handshake_secrets(accepted.h, m)
<1>1. IsSession(accepted.h) /\ accepted.ok \in BOOLEAN
  BY AcceptFacts
<1>2. IsSession(derived.h) /\ derived.ok \in BOOLEAN
  <2> HIDE DEF accepted
  <2> QED BY <1>1, DeriveFacts, ZenonT(40)
<1>3. CASE ~accepted.ok
  <2>1. res = accepted
    BY <1>3 DEF AcceptHello
  <2> QED BY <1>1, <1>3, <2>1, Zenon
<1>4. CASE accepted.ok /\ ~EndsRecord(accepted.h)
  <2>1. res = No(accepted.h, "unexpected_message")
    BY <1>4 DEF AcceptHello
  <2>2. res.ok = FALSE /\ IsSession(res.h)
    BY <1>1, <2>1, Refusal, ZenonT(40)
  <2> QED BY <2>2, Zenon
<1>5. CASE accepted.ok /\ EndsRecord(accepted.h) /\ ~derived.ok
  <2>1. res = derived
    BY <1>5, SMTT(30) DEF AcceptHello
  <2> QED BY <1>2, <1>5, <2>1, Zenon
<1>6. CASE accepted.ok /\ EndsRecord(accepted.h) /\ derived.ok
  <2> DEFINE k == derived.h
             g == InstallHandshakeKeys(k)
  <2>1. res = Ok(g)
    BY <1>6 DEF AcceptHello
  <2>2. res.ok = TRUE /\ res.h = g
    BY <2>1 DEF Ok
  <2> DEFINE a == accepted.h
  <2>3. /\ SameBut(h, a, {"group", "suite", "psk_selected"}, {"early"})
        /\ m.group # "none" /\ selected_group_ok(h, m.group)
        /\ PskOffered(h) /\ m.psk = "zero" => h.t.cfg.psk = HashOf(m.suite)
        /\ PskOffered(h) => m.psk \in {"none", "zero"}
        /\ TwoGroups(h.t.cfg) /\ h.t.cfg.require_pq => m.group = "hybrid"
        /\ a.t.group = m.group
        /\ a.t.psk_selected = (PskOffered(h) /\ m.psk = "zero")
        /\ a.hs.early = IF PskOffered(h) /\ m.psk = "zero" THEN h.hs.early ELSE "nopsk"
    BY <1>6, AcceptFacts, Zenon
  <2>4. /\ SameBut(a, k, {}, {"kex", "early", "handshake_secret", "c_hs", "s_hs"})
        /\ m.share_ok /\ k.hs.kex = {} /\ k.hs.early = "zero"
        /\ k.hs.s_hs = Secret(a, "s hs") /\ k.hs.c_hs = Secret(a, "c hs")
        /\ k.hs.handshake_secret = Secret(a, "hs")
    <3> HIDE DEF accepted
    <3> QED BY <1>1, <1>6, DeriveFacts, Zenon
  <2>5. /\ IsSession(g) /\ SameBut(k, g, {"rd", "wr", "keys"}, {"encrypted"})
        /\ g.t.keys = TRUE /\ g.t.wr = [key |-> k.hs.c_hs, seq |-> 0]
    <3> HIDE DEF derived
    <3> QED BY <1>2, InstallFacts, Zenon
  <2> HIDE DEF a, k, g
  <2>6. SameBut(h, g, {"group", "suite", "psk_selected", "rd", "wr", "keys"},
                {"kex", "early", "handshake_secret", "c_hs", "s_hs", "encrypted"})
    <3>1. SameBut(h, k, {"group", "suite", "psk_selected"},
                  {"kex", "early", "handshake_secret", "c_hs", "s_hs"})
      <4>1. /\ SameBut(h, a, {"group", "suite", "psk_selected"}, {"early"})
            /\ SameBut(a, k, {}, {"kex", "early", "handshake_secret", "c_hs", "s_hs"})
        BY <2>3, <2>4, Zenon
      <4> QED BY <4>1, SameThen
    <3>2. SameBut(k, g, {"rd", "wr", "keys"}, {"encrypted"})
      BY <2>5
    <3> QED BY <3>1, <3>2, SameThen
  <2>7. /\ g.t.psk_selected = a.t.psk_selected /\ a.t.transcript = h.t.transcript
        /\ g.hs.kex = k.hs.kex /\ g.hs.early = k.hs.early /\ g.hs.s_hs = k.hs.s_hs
        /\ g.hs.c_hs = k.hs.c_hs /\ g.hs.handshake_secret = k.hs.handshake_secret
    BY <2>3, <2>4, <2>5, ZenonT(60) DEF SameBut, TlsFields, HsFields
  <2>8. /\ k.hs.s_hs.label = "s hs" /\ k.hs.s_hs.over = h.t.transcript
        /\ k.hs.s_hs.group = m.group /\ k.hs.s_hs.early = a.hs.early
        /\ k.hs.c_hs.label = "c hs" /\ "over" \in DOMAIN k.hs.handshake_secret
    <3>1. \A l : /\ Secret(a, l).label = l /\ Secret(a, l).over = a.t.transcript
                 /\ Secret(a, l).group = a.t.group /\ Secret(a, l).early = a.hs.early
                 /\ "over" \in DOMAIN Secret(a, l)
      BY DEF Secret
    <3>2. a.t.group = m.group /\ a.t.transcript = h.t.transcript
      BY <2>3, <2>7, SMTT(30)
    <3> QED BY <2>4, <3>1, <3>2, ZenonT(60)
  <2> QED BY <2>2, <2>3, <2>4, <2>5, <2>6, <2>7, <2>8, ZenonT(40)
<1> QED BY <1>1, <1>2, <1>3, <1>4, <1>5, <1>6, Zenon

\* EncryptedExtensions go to the transcript.
LEMMA ExtensionsFacts ==
    ASSUME NEW h, IsSession(h), NEW m, NEW res, res = hsf_read_encrypted_extensions(h, m)
    PROVE  /\ IsSession(res.h) /\ res.ok \in BOOLEAN
           /\ res.ok => /\ SameBut(h, res.h, {"transcript", "alpn_selected"}, {"alert"})
                        /\ m.type = "encrypted_extensions"
                        /\ res.h.t.transcript = Append(h.t.transcript, m)
<1> DEFINE g == [h EXCEPT !.hs.alert = "illegal_parameter",
                          !.t.alpn_selected = IF Carries(m.exts, "alpn") THEN "alpn" ELSE @]
<1>1. IsSession(g) /\ SameBut(h, g, {"alpn_selected"}, {"alert"})
  BY DEF IsSession, TlsFields, HsFields, SameBut
<1>2. g.t.transcript = h.t.transcript
  BY <1>1 DEF SameBut, TlsFields
<1>3. (\E a : res = No(h, a)) \/ (m.type = "encrypted_extensions" /\ res = Ok(Hear(g, m)))
  BY DEF hsf_read_encrypted_extensions
<1> HIDE DEF g
<1>4. CASE \E a : res = No(h, a)
  <2>1. PICK a : res = No(h, a)
    BY <1>4
  <2>2. res.ok = FALSE /\ IsSession(res.h)
    BY <2>1, Refusal, Zenon
  <2> QED BY <2>2, Zenon
<1>5. CASE m.type = "encrypted_extensions" /\ res = Ok(Hear(g, m))
  <2>1. res.ok = TRUE /\ res.h = Hear(g, m)
    BY <1>5 DEF Ok
  <2> DEFINE k == Hear(g, m)
  <2>2. /\ IsSession(k) /\ SameBut(g, k, {"transcript"}, {})
        /\ k.t.transcript = Append(g.t.transcript, m)
    BY <1>1, HearFacts
  <2> HIDE DEF k
  <2>3. SameBut(h, k, {"transcript", "alpn_selected"}, {"alert"})
    BY <1>1, <2>2 DEF SameBut
  <2> QED BY <1>2, <1>5, <2>1, <2>2, <2>3, ZenonT(40) DEF k
<1> QED BY <1>3, <1>4, <1>5

\* A certificate that is admitted was verified, and is of an epoch within the
\* bound of the one the session holds.
LEMMA CertificateFacts ==
    ASSUME NEW h, IsSession(h), NEW m, NEW res, res = hsa_server_auth(h, m)
    PROVE  /\ IsSession(res.h) /\ res.ok \in BOOLEAN
           /\ res.ok =>
                 /\ SameBut(h, res.h, {"transcript", "epoch_seen", "epoch_status"},
                            {"alert", "leaf"})
                 /\ m.type = "certificate" /\ (h.t.cfg.trust # "raw" => m.verdict = "none")
                 /\ res.h.t.transcript = Append(h.t.transcript, m)
                 /\ (EpochChecked(h) /\ h.t.epoch \in Nat) =>
                       /\ res.h.hs.leaf.epoch = m.epoch /\ m.epoch_ok
                       /\ m.epoch \in h.t.epoch..(h.t.epoch + EpochBound)
<1> DEFINE filled == [h EXCEPT
               !.hs.alert = IF h.t.cfg.trust = "raw" THEN "decode_error" ELSE "bad_certificate",
               !.hs.leaf = IF h.t.cfg.trust = "raw" THEN @
                           ELSE [set |-> TRUE, epoch |-> m.epoch,
                                 epoch_ok |-> m.epoch_ok /\ m.epoch \in Nat]]
           judged == epoch_check(filled)
<1>1. /\ IsSession(filled) /\ SameBut(h, filled, {}, {"alert", "leaf"}) /\ filled.t = h.t
      /\ h.t.cfg.trust # "raw" => /\ filled.hs.leaf.epoch = m.epoch
                                  /\ filled.hs.leaf.epoch_ok = (m.epoch_ok /\ m.epoch \in Nat)
  BY Zenon DEF IsSession, TlsFields, HsFields, SameBut
<1>2. \/ \E a : res = No(h, a)
      \/ /\ m.type = "certificate" /\ (h.t.cfg.trust # "raw" => m.verdict = "none")
         /\ res = IF judged.ok THEN Ok(Hear(judged.h, m)) ELSE judged
  BY DEF hsa_server_auth
<1> HIDE DEF filled
<1>3. CASE \E a : res = No(h, a)
  <2>1. PICK a : res = No(h, a)
    BY <1>3
  <2>2. res.ok = FALSE /\ IsSession(res.h)
    BY <2>1, Refusal, Zenon
  <2> QED BY <2>2, ZenonT(40)
<1>4. CASE /\ m.type = "certificate" /\ (h.t.cfg.trust # "raw" => m.verdict = "none")
           /\ res = IF judged.ok THEN Ok(Hear(judged.h, m)) ELSE judged
  <2> DEFINE leaf   == filled.hs.leaf
             status == EpochStatus(filled, leaf)
             seen   == [filled EXCEPT
                           !.t.epoch_seen = IF leaf.epoch_ok THEN leaf.epoch ELSE 0,
                           !.t.epoch_status = status]
  <2>1. IsSession(seen) /\ SameBut(filled, seen, {"epoch_seen", "epoch_status"}, {})
    BY <1>1, ZenonT(40) DEF IsSession, TlsFields, HsFields, SameBut
  <2>2. /\ seen.t.transcript = h.t.transcript /\ filled.t.transcript = h.t.transcript
        /\ seen.hs.leaf = leaf
    BY <1>1, <2>1 DEF SameBut, TlsFields, HsFields
  <2>3. \/ ~EpochChecked(h) /\ judged = Ok(filled)
        \/ \E a : judged = No(seen, a)
        \/ EpochChecked(h) /\ judged = Ok(seen) /\ status \notin {"UNTRUSTED", "REVOKED"}
    <3>1. EpochChecked(filled) = EpochChecked(h)
      BY <1>1 DEF EpochChecked
    <3> QED BY <3>1 DEF epoch_check
  <2> HIDE DEF seen, judged
  <2>4. CASE \E a : judged = No(seen, a)
    <3>1. PICK a : judged = No(seen, a)
      BY <2>4
    <3>2. judged.ok = FALSE /\ IsSession(judged.h)
      BY <2>1, <3>1, Refusal, ZenonT(40)
    <3> QED BY <1>4, <3>2, Zenon
  <2>5. ASSUME NEW g, judged = Ok(g), IsSession(g), g.t.transcript = h.t.transcript,
               SameBut(h, g, {"epoch_seen", "epoch_status"}, {"alert", "leaf"})
        PROVE  /\ res.ok = TRUE /\ IsSession(res.h) /\ res.h.hs = g.hs
               /\ res.h.t.transcript = Append(h.t.transcript, m)
               /\ SameBut(h, res.h, {"transcript", "epoch_seen", "epoch_status"},
                          {"alert", "leaf"})
    <3> DEFINE k == Hear(g, m)
    <3>1. res = Ok(k)
      BY <1>4, <2>5 DEF Ok
    <3>2. res.ok = TRUE /\ res.h = k
      BY <3>1 DEF Ok
    <3>3. /\ IsSession(k) /\ SameBut(g, k, {"transcript"}, {}) /\ k.hs = g.hs
          /\ k.t.transcript = Append(g.t.transcript, m)
      BY <2>5, HearFacts, ZenonT(40)
    <3> HIDE DEF k
    <3>4. SameBut(h, k, {"transcript", "epoch_seen", "epoch_status"}, {"alert", "leaf"})
      BY <2>5, <3>3, SameThen
    <3> QED BY <2>5, <3>2, <3>3, <3>4
  <2>6. CASE ~EpochChecked(h) /\ judged = Ok(filled)
    <3>1. SameBut(h, filled, {"epoch_seen", "epoch_status"}, {"alert", "leaf"})
      BY <1>1, SMTT(30) DEF SameBut
    <3> QED BY <1>1, <1>4, <2>2, <2>5, <2>6, <3>1, Zenon
  <2>7. CASE EpochChecked(h) /\ judged = Ok(seen) /\ status \notin {"UNTRUSTED", "REVOKED"}
    <3>1. SameBut(h, seen, {"epoch_seen", "epoch_status"}, {"alert", "leaf"})
      BY <1>1, <2>1, SameThen
    <3>2. h.t.cfg.trust # "raw"
      BY <2>7 DEF EpochChecked
    <3>3. leaf.epoch = m.epoch /\ leaf.epoch_ok = (m.epoch_ok /\ m.epoch \in Nat)
      BY <1>1, <3>2
    <3>4. h.t.epoch \in Nat => m.epoch_ok /\ m.epoch \in h.t.epoch..(h.t.epoch + EpochBound)
      <4>1. /\ leaf.epoch_ok /\ ~(leaf.epoch > filled.t.epoch + EpochBound)
            /\ ~(leaf.epoch < filled.t.epoch)
        BY <2>7 DEF EpochStatus
      <4>2. filled.t.epoch = h.t.epoch
        BY <1>1
      <4>3. m.epoch \in Nat /\ m.epoch_ok
        BY <3>3, <4>1, Zenon
      <4> HIDE DEF leaf
      <4> QED BY <3>3, <4>1, <4>2, <4>3, EpochAssumption
    <3> QED BY <1>4, <2>1, <2>2, <2>5, <2>7, <3>1, <3>3, <3>4, ZenonT(40)
  <2> QED BY <2>3, <2>4, <2>6, <2>7, Zenon
<1> QED BY <1>2, <1>3, <1>4

\* A CertificateVerify that is admitted is the leaf's, over all that was heard.
LEMMA VerifyFacts ==
    ASSUME NEW h, IsSession(h), NEW m, NEW res, res = hsa_read_certificate_verify(h, m)
    PROVE  /\ IsSession(res.h) /\ res.ok \in BOOLEAN
           /\ res.ok => /\ SameBut(h, res.h, {"transcript"}, {"alert"})
                        /\ m.type = "certificate_verify"
                        /\ m.signer = "leaf" /\ m.over = h.t.transcript
                        /\ res.h.t.transcript = Append(h.t.transcript, m)
<1> DEFINE g == [h EXCEPT !.hs.alert = "decode_error"]
<1>1. IsSession(g) /\ SameBut(h, g, {}, {"alert"}) /\ g.t = h.t
  BY DEF IsSession, TlsFields, HsFields, SameBut
<1>2. \/ \E a : res = No(h, a)
      \/ /\ m.type = "certificate_verify" /\ m.signer = "leaf" /\ m.over = h.t.transcript
         /\ res = Ok(Hear(g, m))
  BY DEF hsa_read_certificate_verify
<1> HIDE DEF g
<1>3. CASE \E a : res = No(h, a)
  <2>1. PICK a : res = No(h, a)
    BY <1>3
  <2>2. res.ok = FALSE /\ IsSession(res.h)
    BY <2>1, Refusal, Zenon
  <2> QED BY <2>2, Zenon
<1>4. CASE /\ m.type = "certificate_verify" /\ m.signer = "leaf" /\ m.over = h.t.transcript
           /\ res = Ok(Hear(g, m))
  <2> DEFINE k == Hear(g, m)
  <2>1. res.ok = TRUE /\ res.h = k
    BY <1>4 DEF Ok
  <2>2. /\ IsSession(k) /\ SameBut(g, k, {"transcript"}, {})
        /\ k.t.transcript = Append(g.t.transcript, m)
    BY <1>1, HearFacts, Zenon
  <2> HIDE DEF k
  <2>3. SameBut(h, k, {"transcript"}, {"alert"})
    BY <1>1, <2>2, SameThen
  <2> QED BY <1>1, <1>4, <2>1, <2>2, <2>3, Zenon
<1> QED BY <1>2, <1>3, <1>4

\* A Finished that is admitted was made with the server's handshake secret, over
\* all that was heard.
LEMMA FinishedFacts ==
    ASSUME NEW h, IsSession(h), NEW m, NEW res, res = hsf_read_finished(h, m)
    PROVE  /\ IsSession(res.h) /\ res.ok \in BOOLEAN
           /\ res.ok => /\ SameBut(h, res.h, {"transcript"}, {"server_finished_ok"})
                        /\ m.type = "finished"
                        /\ m.key = h.hs.s_hs /\ m.over = h.t.transcript
                        /\ res.h.t.transcript = Append(h.t.transcript, m)
<1> DEFINE g == [h EXCEPT !.hs.server_finished_ok = TRUE]
<1>1. IsSession(g) /\ SameBut(h, g, {}, {"server_finished_ok"}) /\ g.t = h.t
  BY DEF IsSession, TlsFields, HsFields, SameBut
<1>2. \/ \E a : res = No(h, a)
      \/ /\ m.type = "finished" /\ m.key = h.hs.s_hs /\ m.over = h.t.transcript
         /\ res = Ok(Hear(g, m))
  BY DEF hsf_read_finished, FinishedVerifies
<1> HIDE DEF g
<1>3. CASE \E a : res = No(h, a)
  <2>1. PICK a : res = No(h, a)
    BY <1>3
  <2>2. res.ok = FALSE /\ IsSession(res.h)
    BY <2>1, Refusal, Zenon
  <2> QED BY <2>2, Zenon
<1>4. CASE /\ m.type = "finished" /\ m.key = h.hs.s_hs /\ m.over = h.t.transcript
           /\ res = Ok(Hear(g, m))
  <2> DEFINE k == Hear(g, m)
  <2>1. res.ok = TRUE /\ res.h = k
    BY <1>4 DEF Ok
  <2>2. /\ IsSession(k) /\ SameBut(g, k, {"transcript"}, {})
        /\ k.t.transcript = Append(g.t.transcript, m)
    BY <1>1, HearFacts, Zenon
  <2> HIDE DEF k
  <2>3. SameBut(h, k, {"transcript"}, {"server_finished_ok"})
    BY <1>1, <2>2, SameThen
  <2> QED BY <1>1, <1>4, <2>1, <2>2, <2>3, ZenonT(40)
<1> QED BY <1>2, <1>3, <1>4

\* The epoch a completed handshake raises the session to.
LEMMA CommitFacts ==
    ASSUME NEW h, IsSession(h), NEW failed
    PROVE  LET g == hsa_epoch_commit(h, failed) IN
           IsSession(g) /\ SameBut(h, g, {"epoch", "epoch_store_failed"}, {}) /\ g.hs = h.hs
BY Zenon DEF hsa_epoch_commit, IsSession, TlsFields, HsFields, SameBut

\* A completed session holds application secrets over the flight up to the
\* server's Finished, and the client's own Finished is the last thing heard.
LEMMA CompleteFacts ==
    ASSUME NEW h, IsSession(h), "over" \in DOMAIN h.hs.handshake_secret
    PROVE  LET g == hsf_complete(h) IN
           /\ IsSession(g)
           /\ SameBut(h, g, {"wr_secret", "rd_secret", "res_master", "transcript"}, {})
           /\ g.t.transcript = Append(h.t.transcript, ClientFinished(h))
           /\ g.t.wr_secret.over = h.t.transcript /\ g.t.rd_secret.over = h.t.transcript
<1> DEFINE keyed == [h EXCEPT !.t.wr_secret = Derived(h, "c ap"), !.t.rd_secret = Derived(h, "s ap")]
           heard == Hear(keyed, ClientFinished(h))
           g     == [heard EXCEPT !.t.res_master = Derived(heard, "res")]
<1>1. /\ IsSession(keyed) /\ SameBut(h, keyed, {"wr_secret", "rd_secret"}, {})
      /\ keyed.t.wr_secret = Derived(h, "c ap") /\ keyed.t.rd_secret = Derived(h, "s ap")
      /\ keyed.t.transcript = h.t.transcript
  BY ZenonT(40) DEF IsSession, TlsFields, HsFields, SameBut
<1>2. \A l : Derived(h, l).over = h.t.transcript
  BY DEF Derived
<1> HIDE DEF keyed
<1>3. /\ IsSession(heard) /\ SameBut(keyed, heard, {"transcript"}, {})
      /\ heard.t.transcript = Append(h.t.transcript, ClientFinished(h))
  BY <1>1, HearFacts, ZenonT(40)
<1> HIDE DEF heard
<1>4. /\ IsSession(g) /\ SameBut(heard, g, {"res_master"}, {})
      /\ g.t.transcript = heard.t.transcript
      /\ g.t.wr_secret = heard.t.wr_secret /\ g.t.rd_secret = heard.t.rd_secret
  BY <1>3 DEF IsSession, TlsFields, HsFields, SameBut
<1>5. heard.t.wr_secret = keyed.t.wr_secret /\ heard.t.rd_secret = keyed.t.rd_secret
  BY <1>3 DEF SameBut, TlsFields
<1>6. g = hsf_complete(h)
  BY DEF hsf_complete, heard, keyed
<1> HIDE DEF g
<1>7. SameBut(h, heard, {"wr_secret", "rd_secret", "transcript"}, {})
  <2>1. /\ SameBut(h, keyed, {"wr_secret", "rd_secret"}, {})
        /\ SameBut(keyed, heard, {"transcript"}, {})
    BY <1>1, <1>3, ZenonT(40)
  <2> QED BY <2>1, SameThen
<1>8. SameBut(h, g, {"wr_secret", "rd_secret", "res_master", "transcript"}, {})
  BY <1>4, <1>7, SameThen
<1> QED BY <1>1, <1>2, <1>3, <1>4, <1>5, <1>6, <1>8, ZenonT(40)

\* The keys of a completed session are the application keys, and the handshake
\* state is gone.
LEMMA ConnectedFacts ==
    ASSUME NEW h, IsSession(h)
    PROVE  LET g == Connected(h) IN
           /\ IsSession(g) /\ g.hs = NoHs /\ g.step = "COMPLETE" /\ g.tx = h.tx
           /\ \A f \in TlsFields \ {"rd", "wr", "buf"} : g.t[f] = h.t[f]
           /\ g.t.rd = [key |-> h.t.rd_secret, seq |-> 0]
           /\ g.t.wr = [key |-> h.t.wr_secret, seq |-> 0]
BY BlankShape, ZenonT(40) DEF Connected, IsSession, TlsFields

\* A hello says what the configuration and the retry make it say.
LEMMA HelloFacts ==
    ASSUME NEW h
    PROVE  LET ch == ClientHello(h) IN
           /\ ch.type = "client_hello" /\ ch.suites = h.t.cfg.suites
           /\ ch.shares = HelloShares(h) /\ ch.cookie = h.hs.cookie
           /\ PskOffered(h) => ch.tickets # << >>
<1> DEFINE head == HelloHead(h)
<1>1. /\ head.type = "client_hello" /\ head.suites = h.t.cfg.suites
      /\ head.shares = HelloShares(h) /\ head.cookie = h.hs.cookie
      /\ head.tickets = IF PskOffered(h) THEN << h.t.cfg.ticket >> ELSE << >>
      /\ {"type", "suites", "shares", "cookie", "tickets", "binders"} \subseteq DOMAIN head
  BY ZenonT(40) DEF HelloHead
<1>2. << h.t.cfg.ticket >> # << >>
  OBVIOUS
<1> HIDE DEF head
<1> QED BY <1>1, <1>2, Zenon DEF ClientHello, head

\* A record that is refused leaves a session; one that is taken goes to the buffer,
\* and counts against the read key when it was sealed.
LEMMA RecordFacts ==
    ASSUME NEW h, IsSession(h), NEW rec, NEW res, res = take_record(h, rec)
    PROVE  /\ IsSession(res.h) /\ res.ok \in BOOLEAN
           /\ res.ok => /\ SameBut(h, res.h, {"buf", "rd"}, {}) /\ res.h.hs = h.hs
                        /\ ~h.hs.encrypted => res.h.t.rd = h.t.rd
<1> DEFINE opened == [h EXCEPT !.t.rd.seq = @ + 1]
<1>1. IsSession(opened) /\ SameBut(h, opened, {"rd"}, {}) /\ opened.hs = h.hs
  BY DEF IsSession, TlsFields, HsFields, SameBut
<1> HIDE DEF opened
<1>2. ASSUME NEW g, IsSession(g), NEW a, a = refuse_alert(g, rec)
      PROVE  a.ok = FALSE /\ IsSession(a.h)
  <2> DEFINE heard == [g EXCEPT !.hs.alert = "unexpected_message"]
             told  == [heard EXCEPT !.t.alert_received = rec.alert.desc]
  <2>1. IsSession(heard)
    BY <1>2 DEF IsSession, HsFields
  <2>2. IsSession(told)
    BY <2>1 DEF IsSession, TlsFields
  <2>3. \/ a = No(g, "decode_error")
        \/ a = [ok |-> FALSE, h |-> heard]
        \/ a = [ok |-> FALSE, h |-> told]
    BY <1>2 DEF refuse_alert
  <2> HIDE DEF heard, told
  <2>4. CASE a = No(g, "decode_error")
    BY <1>2, <2>4, Refusal, Zenon
  <2>5. CASE a = [ok |-> FALSE, h |-> heard] \/ a = [ok |-> FALSE, h |-> told]
    BY <2>1, <2>2, <2>5
  <2> QED BY <2>3, <2>4, <2>5, Zenon
<1>3. ASSUME NEW g, IsSession(g), NEW cells, NEW a, a = hsr_feed(g, cells)
      PROVE  /\ IsSession(a.h) /\ a.ok \in BOOLEAN
             /\ a.ok => SameBut(g, a.h, {"buf"}, {}) /\ a.h.hs = g.hs /\ a.h.t.rd = g.t.rd
  <2> DEFINE k == [g EXCEPT !.t.buf = @ \o cells]
  <2>1. IsSession(k) /\ SameBut(g, k, {"buf"}, {}) /\ k.hs = g.hs /\ k.t.rd = g.t.rd
    BY <1>3 DEF IsSession, TlsFields, HsFields, SameBut
  <2>2. a = No(g, "record_overflow") \/ a = Ok(k)
    BY <1>3 DEF hsr_feed
  <2> HIDE DEF k
  <2>3. CASE a = No(g, "record_overflow")
    BY <1>3, <2>3, Refusal, Zenon
  <2>4. CASE a = Ok(k)
    <3>1. a.ok = TRUE /\ a.h = k
      BY <2>4 DEF Ok
    <3> QED BY <2>1, <3>1, Zenon
  <2> QED BY <2>2, <2>3, <2>4
<1>4. SameBut(h, h, {"buf", "rd"}, {})
  BY DEF SameBut
<1>5. \/ res = Ok(h)
      \/ \E a : res = No(h, a)
      \/ res = refuse_alert(h, rec)
      \/ h.hs.encrypted /\ res = refuse_alert(opened, rec)
      \/ \E a : res = No(opened, a)
      \/ h.hs.encrypted /\ res = hsr_feed(opened, rec.cells)
      \/ res = hsr_feed(h, rec.cells)
  BY DEF take_record, opened
<1>6. CASE res = Ok(h)
  <2>1. res.ok = TRUE /\ res.h = h
    BY <1>6 DEF Ok
  <2> QED BY <1>4, <2>1, Zenon
<1>7. CASE \E a : res = No(h, a)
  <2>1. PICK a : res = No(h, a)
    BY <1>7
  <2> QED BY <2>1, Refusal, Zenon
<1>8. CASE \E a : res = No(opened, a)
  <2>1. PICK a : res = No(opened, a)
    BY <1>8
  <2> QED BY <1>1, <2>1, Refusal, Zenon
<1>9. CASE res = refuse_alert(h, rec) \/ res = refuse_alert(opened, rec)
  <2>1. res.ok = FALSE /\ IsSession(res.h)
    BY <1>1, <1>2, <1>9, ZenonT(40)
  <2> QED BY <2>1, Zenon
<1>10. CASE h.hs.encrypted /\ res = hsr_feed(opened, rec.cells)
  <2>1. /\ IsSession(res.h) /\ res.ok \in BOOLEAN
        /\ res.ok => SameBut(opened, res.h, {"buf"}, {}) /\ res.h.hs = opened.hs
    BY <1>1, <1>3, <1>10
  <2>2. res.ok => SameBut(h, res.h, {"buf", "rd"}, {})
    <3>1. SameBut(h, opened, {"rd"}, {})
      BY <1>1
    <3> QED BY <2>1, <3>1, SameThen
  <2> QED BY <1>1, <1>10, <2>1, <2>2
<1>11. CASE res = hsr_feed(h, rec.cells)
  <2>1. /\ IsSession(res.h) /\ res.ok \in BOOLEAN
        /\ res.ok => SameBut(h, res.h, {"buf"}, {}) /\ res.h.hs = h.hs /\ res.h.t.rd = h.t.rd
    BY <1>3, <1>11, SMTT(30)
  <2>2. res.ok => SameBut(h, res.h, {"buf", "rd"}, {})
    BY <2>1 DEF SameBut
  <2> QED BY <2>1, <2>2, SMTT(30)
<1> QED BY <1>5, <1>6, <1>7, <1>8, <1>9, <1>10, <1>11

-----------------------------------------------------------------------------
(* The inductive invariant *)

Steps ==
    {"none", "AWAIT_SERVER_HELLO", "AWAIT_RETRY_HELLO", "AWAIT_ENCRYPTED_EXTENSIONS",
     "AWAIT_CERTIFICATE", "AWAIT_CERTIFICATE_VERIFY", "AWAIT_FINISHED", "COMPLETE"}

\* one hello is out, or the hash of one, the retry request and a second one
HelloSent(h) ==
    LET tr == h.t.transcript
        n  == Len(tr)
    IN  /\ IsSeq(tr) /\ n = IF h.step = "AWAIT_RETRY_HELLO" THEN 3 ELSE 1
        /\ tr[n].type = "client_hello" /\ tr[n].suites = h.t.cfg.suites
        /\ tr[n].shares = HelloShares(h) /\ tr[n].cookie = h.hs.cookie
        /\ PskOffered(h) => tr[n].tickets # << >> /\ h.hs.early = "psk"
        /\ n = 1 => h.hs.suite = "none" /\ h.hs.retry_group = "none"
        /\ n = 3 => /\ tr[1].type = "message_hash" /\ Len(tr[1].of) = 1
                    /\ tr[2].type = "server_hello" /\ tr[2].hrr
                    /\ tr[2].suite = h.hs.suite /\ h.hs.suite # "none"
                    /\ tr[2].cookie = h.hs.cookie
                    /\ tr[2].group = h.hs.retry_group
                    /\ tr[2].group \notin tr[1].of[1].shares
                    /\ h.hs.retry_group # "none" => TwoGroups(h.t.cfg)

\* the ServerHello was the at-th message, and the handshake keys are its keys
Greeted(h, at) ==
    LET tr  == h.t.transcript
        key == h.hs.s_hs
    IN  /\ IsSeq(tr) /\ at <= Len(tr)
        /\ LegalHellos(h.t.cfg, tr, at)
        /\ h.t.psk_selected = (tr[at].psk = "zero")
        /\ key.label = "s hs" /\ key.over = Prefix(tr, at) /\ key.group = tr[at].group
        /\ key.early = IF tr[at].psk = "zero" THEN "psk" ELSE "nopsk"
        /\ h.hs.c_hs.label = "c hs" /\ "over" \in DOMAIN h.hs.handshake_secret

\* a leaf the session was shown as the n-th message
LeafShown(h, n) ==
    LET tr   == h.t.transcript
        leaf == h.hs.leaf
    IN  /\ tr[n].type = "certificate" /\ (h.t.cfg.trust # "raw" => tr[n].verdict = "none")
        /\ EpochChecked(h) =>
              /\ leaf.epoch = tr[n].epoch /\ tr[n].epoch_ok
              /\ tr[n].epoch \in h.t.cfg.stored..(h.t.cfg.stored + EpochBound)

\* what a session in each step has heard
Flow(h) ==
    LET tr == h.t.transcript IN
    /\ h.step \in AwaitsHello => HelloSent(h)
    /\ h.step = "AWAIT_ENCRYPTED_EXTENSIONS" =>
          \E at \in {2, 4} : Greeted(h, at) /\ Len(tr) = at /\ h.hs.leaf = NoLeaf
    /\ h.step = "AWAIT_CERTIFICATE" =>
          \E at \in {2, 4} : /\ Greeted(h, at) /\ Len(tr) = at + 1
                             /\ tr[at + 1].type = "encrypted_extensions"
                             /\ ~h.t.psk_selected
    /\ h.step = "AWAIT_CERTIFICATE_VERIFY" =>
          \E at \in {2, 4} : /\ Greeted(h, at) /\ Len(tr) = at + 2
                             /\ tr[at + 1].type = "encrypted_extensions"
                             /\ ~h.t.psk_selected /\ LeafShown(h, at + 2)
    /\ h.step = "AWAIT_FINISHED" =>
          \E at \in {2, 4} : /\ Greeted(h, at)
                             /\ Len(tr) = IF h.t.psk_selected THEN at + 1 ELSE at + 3
                             /\ tr[at + 1].type = "encrypted_extensions"
                             /\ h.t.psk_selected => h.hs.leaf = NoLeaf
                             /\ ~h.t.psk_selected => /\ LeafShown(h, at + 2)
                                                     /\ LegalCertificate(h, tr, at + 2)
    /\ h.step = "COMPLETE" =>
          /\ LegalFlight(h)
          /\ \A secret \in {h.t.wr_secret, h.t.rd_secret} :
                secret.over = Prefix(tr, Len(tr) - 1)

\* the steps between the ServerHello and the end
Protected ==
    {"AWAIT_ENCRYPTED_EXTENSIONS", "AWAIT_CERTIFICATE", "AWAIT_CERTIFICATE_VERIFY",
     "AWAIT_FINISHED"}

\* the secrets a session in each step holds
Holds(h) ==
    /\ h.step \in Steps \ {"none"}
    /\ h.step \in AwaitsHello => h.hs.s_hs = NoSecret /\ h.hs.leaf = NoLeaf
    /\ h.step \in Protected =>
          /\ h.hs.kex = {} /\ h.hs.early = "zero"
          /\ h.t.keys = TRUE /\ h.t.wr = [key |-> h.hs.c_hs, seq |-> 0]
    /\ h.step = "COMPLETE" =>
          /\ h.hs = NoHs /\ h.t.keys = TRUE
          /\ h.t.rd = [key |-> h.t.rd_secret, seq |-> 0]
          /\ h.t.wr = [key |-> h.t.wr_secret, seq |-> 0]

\* what a failure and a close leave
Wiped(h) ==
    /\ h.hs = NoHs /\ h.t.keys = FALSE /\ h.t.buf = << >>
    /\ h.t.rd = NoDir /\ h.t.wr = NoDir
    /\ h.t.rd_secret = NoSecret /\ h.t.wr_secret = NoSecret /\ h.t.res_master = NoSecret

\* the epoch the session loaded is still the stored one
Loaded ==
    /\ r.t.cfg.stored \in Nat
    /\ (EpochChecked(r) /\ r.step # "COMPLETE") => r.t.epoch = r.t.cfg.stored /\ store = r.t.epoch

IsFinished(rec) == rec.inner = "handshake" /\ rec.dir.key.label = "c hs"

\* Whole records have left, and tx_off pieces of the staged one; a close drops
\* what was staged.  The Finished is the last record made, and stays it.
Output ==
    /\ IsSeq(made) /\ IsSeq(sent) /\ WholeRecordsOut
    /\ r.tx \in {0, Len(made)} /\ r.tx_off \in 0..(Pieces - 1)
    /\ r.tx = 0 => r.tx_off = 0
    /\ r.t.state # "CLOSED" =>
          Len(sent) = Pieces * (IF r.tx = 0 THEN Len(made) ELSE Len(made) - 1) + r.tx_off
    /\ r.t.state = "CLOSED" => r.tx = 0
    /\ (r.step = "COMPLETE" /\ ~session_dead(r)) =>
          Len(made) # 0 /\ IsFinished(made[Len(made)])

\* when the session is connected, and when it is being driven
Turns ==
    /\ driving \in BOOLEAN /\ r.t.state \in {"START", "CONNECTED", "FAILED", "CLOSED"}
    /\ driving => r.tx = 0 /\ ~session_dead(r)
    /\ r.t.state = "CONNECTED" => r.step = "COMPLETE" /\ r.tx = 0
    /\ r.t.state = "START" /\ r.step = "COMPLETE" => r.tx # 0

IInv ==
    /\ IsSession(r) /\ Turns /\ Output
    /\ session_dead(r) => Wiped(r)
    /\ ~session_dead(r) => Flow(r) /\ Holds(r) /\ Loaded

-----------------------------------------------------------------------------
(* The invariant under the common kinds of step *)

\* Flow and Holds look at the configuration, the transcript, the secrets and the
\* handshake state only.
LEMMA SameFlow ==
    ASSUME NEW h, NEW g, g.hs = h.hs, g.step = h.step,
           \A f \in TlsFields \ {"buf", "rd", "state"} : g.t[f] = h.t[f],
           h.step = "COMPLETE" => g.t.rd = h.t.rd,
           Flow(h), Holds(h)
    PROVE  Flow(g) /\ Holds(g)
<1>1. /\ g.t.cfg = h.t.cfg /\ g.t.transcript = h.t.transcript /\ g.t.keys = h.t.keys
      /\ g.t.wr = h.t.wr /\ g.t.rd_secret = h.t.rd_secret /\ g.t.wr_secret = h.t.wr_secret
      /\ g.t.psk_selected = h.t.psk_selected
  BY DEF TlsFields
<1>2. Holds(g)
  BY <1>1 DEF Holds
<1>3. /\ HelloSent(h) => HelloSent(g)
      /\ \A at : Greeted(h, at) => Greeted(g, at)
      /\ \A n : LeafShown(h, n) => LeafShown(g, n)
      /\ \A tr, n : LegalCertificate(h, tr, n) => LegalCertificate(g, tr, n)
      /\ LegalFlight(h) => LegalFlight(g)
  <2>1. /\ EpochChecked(g) <=> EpochChecked(h)
        /\ PskOffered(g) <=> PskOffered(h)
        /\ HelloShares(g) = HelloShares(h)
    BY <1>1 DEF EpochChecked, PskOffered, HelloShares
  <2>2. HelloSent(h) => HelloSent(g)
    BY <1>1, <2>1 DEF HelloSent
  <2>3. \A at : Greeted(h, at) => Greeted(g, at)
    BY <1>1, Zenon DEF Greeted
  <2>4. \A n : LeafShown(h, n) => LeafShown(g, n)
    BY <1>1, <2>1 DEF LeafShown
  <2>5. \A tr, n : LegalCertificate(h, tr, n) => LegalCertificate(g, tr, n)
    BY <1>1, <2>1, SMTT(30) DEF LegalCertificate
  <2>6. LegalFlight(h) => LegalFlight(g)
    BY <1>1, <2>5, ZenonT(40) DEF LegalFlight
  <2> QED BY <2>2, <2>3, <2>4, <2>5, <2>6
<1>4. Flow(g)
  BY <1>1, <1>3 DEF Flow
<1> QED BY <1>2, <1>4

\* Division by the pieces of a record, where the remainder is known.
LEMMA Multiples ==
    ASSUME NEW P \in Nat \ {0}, NEW a \in Nat, NEW b \in 0..(P - 1)
    PROVE  (P * a + b) \div P = a /\ (P * a + b) % P = b
<1> DEFINE n == P * a + b
           q == n \div P
           x == n % P
<1>1. n \in Nat
  OBVIOUS
<1>2. q \in Nat /\ x \in 0..(P - 1) /\ n = P * q + x
  BY <1>1
<1> QED OBVIOUS

\* A wipe leaves no secret.
LEMMA WipeFacts ==
    ASSUME NEW h, IsSession(h)
    PROVE  LET g == wipe(h) IN
           /\ IsSession(g) /\ Wiped(g) /\ g.step = h.step /\ g.tx = h.tx
           /\ g.tx_off = h.tx_off
<1> DEFINE g == wipe(h)
<1>1. /\ g.hs = NoHs /\ g.step = h.step /\ g.tx = h.tx /\ g.tx_off = h.tx_off
      /\ DOMAIN g = DOMAIN h /\ DOMAIN g.t = DOMAIN h.t
  BY DEF wipe, IsSession
<1>2. IsSession(g)
  BY <1>1, BlankShape DEF IsSession
<1>3. /\ g.t.keys = FALSE /\ g.t.buf = << >> /\ g.t.rd = NoDir /\ g.t.wr = NoDir
      /\ g.t.rd_secret = NoSecret /\ g.t.wr_secret = NoSecret /\ g.t.res_master = NoSecret
  BY ZenonT(40) DEF wipe, IsSession, TlsFields
<1> QED BY <1>1, <1>2, <1>3 DEF Wiped

\* A failed session is wiped, whatever the step that failed left behind.
LEMMA FailFacts ==
    ASSUME NEW h, IsSession(h)
    PROVE  LET g == tcp_nonblocking_fail(h) IN
           IsSession(g) /\ Wiped(g) /\ g.t.state = "FAILED"
<1> DEFINE w == wipe(h)
<1>1. IsSession(w) /\ Wiped(w)
  BY WipeFacts
<1> HIDE DEF w
<1>2. /\ IsSession([w EXCEPT !.t.alert_sent = OwedAlert(h), !.t.state = "FAILED"])
      /\ Wiped([w EXCEPT !.t.alert_sent = OwedAlert(h), !.t.state = "FAILED"])
      /\ [w EXCEPT !.t.alert_sent = OwedAlert(h), !.t.state = "FAILED"].t.state = "FAILED"
  BY <1>1, Zenon DEF IsSession, TlsFields, Wiped
<1> QED BY <1>2 DEF tcp_nonblocking_fail, w

\* A record is staged where nothing was: what has left does not change, and what
\* was made before keeps its place.
LEMMA StageOutput ==
    ASSUME Output, r.tx = 0, r.t.state # "CLOSED", NEW rec,
           made' = Append(made, rec), r'.tx = Len(made) + 1, r'.tx_off = 0, sent' = sent,
           r'.t.state # "CLOSED",
           (r'.step = "COMPLETE" /\ ~session_dead(r)') => IsFinished(rec)
    PROVE  Output'
<1>1. /\ IsSeq(made') /\ Len(made) \in Nat /\ Len(made') = Len(made) + 1
      /\ made'[Len(made')] = rec
  BY Heard DEF Output
<1>2. WholeRecordsOut'
  BY DEF Output, WholeRecordsOut
<1>3. Len(sent') = Pieces * (Len(made') - 1) + r'.tx_off
  BY <1>1, ClientAssumption DEF Output
<1>4. r'.tx = Len(made') /\ r'.tx # 0 /\ r'.tx_off \in 0..(Pieces - 1)
  BY <1>1, ClientAssumption
<1> QED BY <1>1, <1>2, <1>3, <1>4 DEF Output

\* Every failure ends in the invariant: nothing was staged, so the alert is the
\* next record out.
LEMMA FailKeeps ==
    ASSUME IInv, r.tx = 0, ~session_dead(r), NEW h, IsSession(h), fail(h), sent' = sent
    PROVE  IInv'
<1> DEFINE g == tcp_nonblocking_fail(h)
<1>1. IsSession(g) /\ Wiped(g) /\ g.t.state = "FAILED"
  BY FailFacts
<1>2. driving' = FALSE
  BY DEF fail
<1>3. r.t.state # "CLOSED" /\ Output
  BY DEF IInv, session_dead
<1>4. CASE OwedAlert(h) # "none"
  <2> DEFINE rec == alert_record(h, OwedAlert(h))
  <2>1. r' = [g EXCEPT !.tx = Len(made) + 1, !.tx_off = 0] /\ made' = Append(made, rec)
    BY <1>4 DEF fail, Stage
  <2> HIDE DEF g, rec
  <2>2. /\ IsSession(r') /\ r'.t = g.t /\ r'.hs = g.hs
        /\ r'.tx = Len(made) + 1 /\ r'.tx_off = 0
    BY <1>1, <2>1 DEF IsSession
  <2>3. session_dead(r)' /\ r'.t.state = "FAILED" /\ Wiped(r')
    BY <1>1, <2>2 DEF session_dead, Wiped
  <2>4. Output'
    BY <1>3, <2>1, <2>2, <2>3, StageOutput
  <2> QED BY <1>2, <2>2, <2>3, <2>4, Zenon DEF IInv, Turns
<1>5. CASE OwedAlert(h) = "none"
  <2>1. r' = [g EXCEPT !.tx = 0, !.tx_off = 0] /\ made' = made
    BY <1>5 DEF fail
  <2> HIDE DEF g
  <2>2. /\ IsSession(r') /\ r'.t = g.t /\ r'.hs = g.hs /\ r'.tx = 0 /\ r'.tx_off = 0
    BY <1>1, <2>1 DEF IsSession
  <2>3. session_dead(r)' /\ r'.t.state = "FAILED" /\ Wiped(r')
    BY <1>1, <2>2 DEF session_dead, Wiped
  <2>4. Output'
    BY <1>3, <2>1, <2>2, <2>3 DEF Output, WholeRecordsOut
  <2> QED BY <1>2, <2>2, <2>3, <2>4, Zenon DEF IInv, Turns
<1> QED BY <1>4, <1>5

\* A step of the drive loop that stays in the handshake.
LEMMA AdvanceKeeps ==
    ASSUME IInv, driving, NEW res, NEW step, Advance(res, step), UNCHANGED <<store, sent>>,
           IsSession(res.h), step # "COMPLETE",
           res.ok => /\ res.h.t.cfg = r.t.cfg /\ res.h.t.state = r.t.state
                     /\ res.h.t.epoch = r.t.epoch /\ res.h.tx = r.tx /\ res.h.tx_off = r.tx_off
                     /\ Flow([res.h EXCEPT !.step = step]) /\ Holds([res.h EXCEPT !.step = step]),
           r.step # "COMPLETE"
    PROVE  IInv'
<1>1. r.tx = 0 /\ ~session_dead(r)
  BY DEF IInv, Turns
<1>2. CASE ~res.ok
  BY <1>1, <1>2, FailKeeps DEF Advance
<1>3. CASE res.ok
  <2>1. r' = [res.h EXCEPT !.step = step] /\ UNCHANGED <<driving, made>>
    BY <1>3 DEF Advance
  <2>2. /\ IsSession(r') /\ r'.t = res.h.t /\ r'.hs = res.h.hs /\ r'.step = step
        /\ r'.tx = r.tx /\ r'.tx_off = r.tx_off
    BY <1>3, <2>1 DEF IsSession
  <2>3. Flow(r') /\ Holds(r')
    BY <1>3, <2>1
  <2>4. r'.t.cfg = r.t.cfg /\ r'.t.state = r.t.state /\ r'.t.epoch = r.t.epoch
    BY <1>3, <2>2
  <2>5. ~session_dead(r)'
    BY <1>1, <2>4 DEF session_dead
  <2>6. Loaded'
    BY <1>1, <2>4 DEF IInv, Loaded, EpochChecked
  <2>7. Output'
    BY <2>1, <2>2, <2>4 DEF IInv, Output, WholeRecordsOut
  <2>8. Turns'
    BY <1>1, <2>1, <2>2, <2>4, <2>5 DEF IInv, Turns
  <2> QED BY <2>2, <2>3, <2>5, <2>6, <2>7, <2>8 DEF IInv
<1> QED BY <1>2, <1>3

\* A record read from the peer.
LEMMA RecordStep ==
    ASSUME IInv, NEW rec, tcp_in(rec)
    PROVE  IInv'
<1> DEFINE res == take_record(r, rec)
<1>1. ~driving /\ ~session_dead(r) /\ r.tx = 0 /\ UNCHANGED <<store, sent>>
  BY DEF tcp_in, InAllowed
<1>2. /\ IsSession(res.h) /\ res.ok \in BOOLEAN
      /\ res.ok => /\ SameBut(r, res.h, {"buf", "rd"}, {}) /\ res.h.hs = r.hs
                   /\ ~r.hs.encrypted => res.h.t.rd = r.t.rd
  BY RecordFacts DEF IInv
<1>3. IF res.ok THEN r' = res.h /\ driving' = TRUE /\ made' = made ELSE fail(res.h)
  BY DEF tcp_in
<1> HIDE DEF res
<1>4. CASE ~res.ok
  BY <1>1, <1>2, <1>3, <1>4, FailKeeps
<1>5. CASE res.ok
  <2>1. /\ r' = res.h /\ driving' = TRUE /\ made' = made /\ IsSession(r') /\ r'.hs = r.hs
        /\ SameBut(r, r', {"buf", "rd"}, {})
        /\ ~r.hs.encrypted => r'.t.rd = r.t.rd
    BY <1>2, <1>3, <1>5
  <2>2. /\ r'.step = r.step /\ r'.tx = r.tx /\ r'.tx_off = r.tx_off
        /\ r'.t.state = r.t.state /\ r'.t.cfg = r.t.cfg /\ r'.t.epoch = r.t.epoch
        /\ \A f \in TlsFields \ {"buf", "rd", "state"} : r'.t[f] = r.t[f]
    BY <2>1 DEF SameBut, TlsFields
  <2>3. r.step = "COMPLETE" => r'.t.rd = r.t.rd
    BY <1>1, <2>1 DEF IInv, Holds, NoHs
  <2>4. Flow(r') /\ Holds(r')
    BY <1>1, <2>1, <2>2, <2>3, SameFlow DEF IInv
  <2>5. ~session_dead(r)'
    BY <1>1, <2>2 DEF session_dead
  <2>6. Loaded'
    BY <1>1, <2>2 DEF IInv, Loaded, EpochChecked
  <2>7. Output'
    BY <1>1, <2>1, <2>2 DEF IInv, Output, WholeRecordsOut, session_dead
  <2>8. Turns'
    BY <1>1, <2>1, <2>2, <2>5 DEF IInv, Turns
  <2> QED BY <2>1, <2>4, <2>5, <2>6, <2>7, <2>8 DEF IInv
<1> QED BY <1>2, <1>4, <1>5

\* A refusal the driver itself names.
LEMMA Alerted ==
    ASSUME NEW h, IsSession(h), NEW alert
    PROVE  IsSession([h EXCEPT !.hs.alert = alert])
BY DEF IsSession, HsFields

\* The failures of the loop that no message is read for, and of a message after
\* the handshake.
LEMMA RefusalStep ==
    ASSUME IInv, tcp_in_overlong \/ drive_oversize \/ step_complete
    PROVE  IInv'
<1>1. r.tx = 0 /\ ~session_dead(r) /\ sent' = sent
  BY DEF IInv, Turns, tcp_in_overlong, drive_oversize, step_complete, At, InAllowed
<1>2. \E a : fail([r EXCEPT !.hs.alert = a])
  BY Zenon DEF tcp_in_overlong, drive_oversize, step_complete
<1>3. PICK a : fail([r EXCEPT !.hs.alert = a])
  BY <1>2, Zenon
<1>4. IsSession([r EXCEPT !.hs.alert = a])
  BY Alerted, SMTT(30) DEF IInv
<1> QED BY <1>1, <1>3, <1>4, FailKeeps

-----------------------------------------------------------------------------
(* The hellos *)

\* A retry request is read, and the second hello answers it.
LEMMA RetryFlow ==
    ASSUME NEW h, IsSession(h), NEW m, NEW g, h.step = "AWAIT_SERVER_HELLO", HelloSent(h),
           IsSession(g), m.type = "server_hello", m.hrr,
           hsp_parse_server_hello(h.t.cfg, m), RetryAllowed(h, m),
           SameBut(h, g, {"transcript", "buf"}, {"suite", "cookie", "retry_group", "kex"}),
           g.t.transcript = << [type |-> "message_hash", of |-> h.t.transcript], m >>,
           g.hs.suite = m.suite, g.hs.cookie = m.cookie,
           g.hs.retry_group = IF m.group = "none" THEN h.hs.retry_group ELSE m.group,
           NEW k, k.hs = g.hs, k.t.cfg = g.t.cfg, k.step = "AWAIT_RETRY_HELLO",
           k.t.transcript = Append(g.t.transcript, ClientHello(g))
    PROVE  HelloSent(k)
<1> DEFINE first == [type |-> "message_hash", of |-> h.t.transcript]
           ch    == ClientHello(g)
           tr    == k.t.transcript
<1>1. g.t.cfg = h.t.cfg /\ g.hs.early = h.hs.early
  BY DEF SameBut, TlsFields, HsFields
<1>2. /\ ch.type = "client_hello" /\ ch.suites = g.t.cfg.suites
      /\ ch.shares = HelloShares(g) /\ ch.cookie = g.hs.cookie
      /\ PskOffered(g) => ch.tickets # << >>
  BY HelloFacts
<1> HIDE DEF ch
<1>3. /\ IsSeq(tr) /\ Len(tr) = 3 /\ tr[1] = first /\ tr[2] = m /\ tr[3] = ch
  <2>1. tr = Append(<< first, m >>, ch)
    BY DEF ch
  <2>2. << first, m >> \in Seq({first, m})
    OBVIOUS
  <2>3. IsSeq(<< first, m >>) /\ Len(<< first, m >>) = 2
    BY <2>2, Zenon DEF IsSeq
  <2> HIDE DEF first
  <2> QED BY <2>1, <2>3, Heard
<1>4. /\ Len(h.t.transcript) = 1 /\ h.t.transcript[1].shares = HelloShares(h)
      /\ h.hs.retry_group = "none" /\ (PskOffered(h) => h.hs.early = "psk")
  BY DEF HelloSent
<1>5. /\ first.type = "message_hash" /\ first.of = h.t.transcript
  OBVIOUS
<1> HIDE DEF first, tr
<1>6. /\ m.suite # "none" /\ m.group = g.hs.retry_group
      /\ g.hs.retry_group # "none" => TwoGroups(h.t.cfg)
  BY <1>4 DEF hsp_parse_server_hello, BuildSuites, RetryAllowed
<1>7. m.group \notin HelloShares(h)
  <2>1. m.group \in {"none", "p256"}
    BY DEF hsp_parse_server_hello
  <2>2. HelloShares(h) \subseteq {"hybrid", "x25519"}
    BY <1>4 DEF HelloShares, HelloGroups, BuildGroups
  <2> QED BY <2>1, <2>2
<1>8. /\ HelloShares(k) = HelloShares(g) /\ (PskOffered(k) <=> PskOffered(g))
      /\ (PskOffered(k) <=> PskOffered(h))
  BY <1>1, SMTT(30) DEF HelloShares, PskOffered
<1>9. /\ tr[1].type = "message_hash" /\ Len(tr[1].of) = 1
      /\ tr[2].group \notin tr[1].of[1].shares
  BY <1>3, <1>4, <1>5, <1>7
<1> QED BY <1>1, <1>2, <1>3, <1>4, <1>6, <1>8, <1>9 DEF HelloSent, tr

\* The step of a HelloRetryRequest: one is answered, a second one is refused.
LEMMA RetryStep ==
    ASSUME IInv, step_retry
    PROVE  IInv'
<1> DEFINE m   == NextMsg(r)
           h   == Taken(r)
           res == hsf_read_server_hello(h, m)
<1>1. /\ driving /\ r.tx = 0 /\ ~session_dead(r) /\ UNCHANGED <<store, sent>>
      /\ r.step \in AwaitsHello
  BY DEF step_retry, At, IInv, Turns
<1>2. IsSession(h) /\ SameBut(r, h, {"buf"}, {}) /\ h.hs = r.hs
  BY TakenFacts DEF IInv
<1> HIDE DEF h
<1>3. /\ res.ok /\ m.hrr
      /\ IF r.step = "AWAIT_RETRY_HELLO"
         THEN fail([res.h EXCEPT !.hs.alert = "unexpected_message"])
         ELSE /\ Stage([hsf_build_client_hello(res.h) EXCEPT !.step = "AWAIT_RETRY_HELLO"],
                       PlainRecord("handshake", Cells(ClientHello(res.h))))
              /\ driving' = FALSE
  BY DEF step_retry, h
<1> DEFINE g == res.h
<1>4. /\ IsSession(g) /\ m.type = "server_hello" /\ hsp_parse_server_hello(h.t.cfg, m)
      /\ SameBut(h, g, {"transcript"}, {"suite", "cookie", "retry_group", "kex"})
      /\ g.t.transcript = << [type |-> "message_hash", of |-> h.t.transcript], m >>
      /\ RetryAllowed(h, m)
      /\ g.hs.suite = m.suite /\ g.hs.cookie = m.cookie
      /\ g.hs.retry_group = IF m.group = "none" THEN h.hs.retry_group ELSE m.group
  BY <1>2, <1>3, ReadHello
<1> HIDE DEF res, m, g
<1>5. CASE r.step = "AWAIT_RETRY_HELLO"
  <2>1. IsSession([g EXCEPT !.hs.alert = "unexpected_message"])
    BY <1>4, Alerted
  <2> QED BY <1>1, <1>3, <1>5, <2>1, FailKeeps DEF g
<1>6. CASE r.step # "AWAIT_RETRY_HELLO"
  <2>1. r.step = "AWAIT_SERVER_HELLO" /\ Flow(r) /\ Holds(r) /\ Loaded
    BY <1>1, <1>6 DEF AwaitsHello, IInv
  <2> DEFINE b == Hear(g, ClientHello(g))
             rec == PlainRecord("handshake", Cells(ClientHello(g)))
  <2>2. /\ r' = [[b EXCEPT !.step = "AWAIT_RETRY_HELLO"] EXCEPT !.tx = Len(made) + 1, !.tx_off = 0]
        /\ made' = Append(made, rec) /\ driving' = FALSE
    BY <1>3, <1>6 DEF Stage, hsf_build_client_hello, g
  <2>3. /\ IsSession(b) /\ SameBut(g, b, {"transcript"}, {}) /\ b.hs = g.hs
        /\ b.t.transcript = Append(g.t.transcript, ClientHello(g))
    BY <1>4, HearFacts, SMTT(30)
  <2> HIDE DEF b, rec
  <2>4. /\ IsSession(r') /\ r'.t = b.t /\ r'.hs = g.hs /\ r'.step = "AWAIT_RETRY_HELLO"
        /\ r'.tx = Len(made) + 1 /\ r'.tx_off = 0
    BY <2>2, <2>3 DEF IsSession
  <2>5. /\ SameBut(r, g, {"transcript", "buf"}, {"suite", "cookie", "retry_group", "kex"})
    <3>1. SameBut(h, g, {"transcript"}, {"suite", "cookie", "retry_group", "kex"})
      BY <1>4
    <3> QED BY <1>2, <3>1, SameThen
  <2>6. /\ b.t.cfg = g.t.cfg /\ g.t.cfg = r.t.cfg /\ b.t.state = r.t.state
        /\ b.t.epoch = r.t.epoch /\ h.t.transcript = r.t.transcript
        /\ g.hs.s_hs = r.hs.s_hs /\ g.hs.leaf = r.hs.leaf /\ h.t.cfg = r.t.cfg
        /\ h.hs.retry_group = r.hs.retry_group
    BY <1>2, <2>3, <2>5 DEF SameBut, TlsFields, HsFields
  <2>7. HelloSent(r')
    <3>1. HelloSent(r) /\ RetryAllowed(r, m)
      BY <1>4, <2>1, <2>6 DEF Flow, AwaitsHello, RetryAllowed
    <3>2. IsSession(r) /\ r'.t.cfg = g.t.cfg /\ r'.t.transcript = Append(g.t.transcript, ClientHello(g))
      BY <2>3, <2>4, <2>6 DEF IInv
    <3> QED BY <1>3, <1>4, <2>1, <2>4, <2>5, <2>6, <3>1, <3>2, RetryFlow, ZenonT(40)
  <2>8. Flow(r') /\ Holds(r')
    BY <2>1, <2>4, <2>6, <2>7 DEF Flow, Holds, AwaitsHello, Protected, Steps
  <2>9. /\ ~session_dead(r)' /\ r'.t.state = r.t.state /\ r.t.state # "CLOSED"
        /\ r'.t.state # "CLOSED"
    BY <1>1, <2>4, <2>6 DEF session_dead
  <2>10. Loaded'
    BY <1>1, <2>1, <2>4, <2>6 DEF Loaded, EpochChecked
  <2>11. Output'
    BY <1>1, <2>2, <2>4, <2>9, StageOutput DEF IInv
  <2>12. Turns'
    BY <1>6, <2>1, <2>2, <2>4, <2>9, Zenon DEF IInv, Turns
  <2> QED BY <2>4, <2>8, <2>9, <2>10, <2>11, <2>12 DEF IInv
<1> QED BY <1>5, <1>6

\* The group of an accepted ServerHello is one the client sent a share for.
LEMMA ShareSent ==
    ASSUME NEW h, NEW m, h.hs.retry_group # "none" => TwoGroups(h.t.cfg), ~m.hrr,
           hsp_parse_server_hello(h.t.cfg, m), m.group # "none", selected_group_ok(h, m.group),
           TwoGroups(h.t.cfg) /\ h.t.cfg.require_pq => m.group = "hybrid"
    PROVE  m.group \in HelloShares(h)
<1>1. m.group \in BuildGroups(h.t.cfg)
  BY DEF hsp_parse_server_hello
<1>2. CASE ~TwoGroups(h.t.cfg)
  BY <1>1, <1>2 DEF HelloShares, HelloGroups, BuildGroups
<1>3. CASE TwoGroups(h.t.cfg) /\ h.hs.retry_group # "none"
  BY <1>3 DEF HelloShares, selected_group_ok
<1>4. CASE TwoGroups(h.t.cfg) /\ h.hs.retry_group = "none"
  BY <1>1, <1>4 DEF HelloShares, HelloGroups, selected_group_ok
<1> QED BY <1>2, <1>3, <1>4

\* A ServerHello heard after one hello or after three messages is the second or
\* the fourth, and the hello it answers is the one before it.
HeardAt(old, tr, m, at) ==
    /\ IsSeq(tr) /\ Len(tr) = at /\ at <= Len(tr)
    /\ tr[at] = m /\ tr[at - 1] = old[Len(old)] /\ Prefix(tr, at) = tr
    /\ at = 2 \/ (at = 4 /\ Len(old) = 3 /\ tr[1] = old[1] /\ tr[2] = old[2])

\* A ServerHello answers the hello before it.
LEMMA HelloPlace ==
    ASSUME NEW old, IsSeq(old), Len(old) \in {1, 3}, NEW m
    PROVE  \E at \in {2, 4} : HeardAt(old, Append(old, m), m, at)
<1> DEFINE tr == Append(old, m)
<1>1. /\ IsSeq(tr) /\ Len(tr) = Len(old) + 1 /\ tr[Len(old) + 1] = m
      /\ \A i \in 1..Len(old) : tr[i] = old[i]
  BY Heard
<1> HIDE DEF tr
<1>2. Prefix(tr, Len(tr)) = tr
  BY <1>1, WholePrefix
<1>3. CASE Len(old) = 1
  <2>1. Len(tr) = 2 /\ tr[2] = m /\ tr[2 - 1] = old[1]
    BY <1>1, <1>3
  <2> QED BY <1>1, <1>2, <1>3, <2>1 DEF HeardAt, tr
<1>4. CASE Len(old) = 3
  <2>1. /\ Len(tr) = 4 /\ tr[4] = m /\ tr[4 - 1] = old[3]
        /\ tr[1] = old[1] /\ tr[2] = old[2]
    BY <1>1, <1>4
  <2> QED BY <1>1, <1>2, <1>4, <2>1 DEF HeardAt, tr
<1> QED BY <1>3, <1>4

\* After an accepted ServerHello both hellos are legal, and the keys are theirs.
LEMMA GreetFlow ==
    ASSUME NEW h, h.step \in AwaitsHello, HelloSent(h), NEW m, m.type = "server_hello", ~m.hrr,
           hsp_parse_server_hello(h.t.cfg, m), take_suite(h, m),
           m.group # "none", selected_group_ok(h, m.group), m.share_ok,
           PskOffered(h) /\ m.psk = "zero" => h.t.cfg.psk = HashOf(m.suite),
           PskOffered(h) => m.psk \in {"none", "zero"},
           TwoGroups(h.t.cfg) /\ h.t.cfg.require_pq => m.group = "hybrid",
           NEW k, k.t.cfg = h.t.cfg,
           k.t.psk_selected = (PskOffered(h) /\ m.psk = "zero"),
           k.hs.s_hs.label = "s hs", k.hs.c_hs.label = "c hs",
           k.hs.s_hs.over = k.t.transcript, k.hs.s_hs.group = m.group,
           k.hs.s_hs.early = IF PskOffered(h) /\ m.psk = "zero" THEN h.hs.early ELSE "nopsk",
           "over" \in DOMAIN k.hs.handshake_secret,
           NEW at \in {2, 4}, HeardAt(h.t.transcript, k.t.transcript, m, at)
    PROVE  Greeted(k, at) /\ Len(k.t.transcript) = at
<1> DEFINE old == h.t.transcript
           n   == Len(old)
           tr  == k.t.transcript
<1>1. /\ IsSeq(old) /\ n \in {1, 3}
      /\ old[n].type = "client_hello" /\ old[n].suites = h.t.cfg.suites
      /\ old[n].shares = HelloShares(h) /\ old[n].cookie = h.hs.cookie
      /\ PskOffered(h) => old[n].tickets # << >> /\ h.hs.early = "psk"
      /\ n = 1 => h.hs.retry_group = "none"
  BY ZenonT(40) DEF HelloSent
<1>2. n = 3 =>
         /\ old[1].type = "message_hash" /\ Len(old[1].of) = 1
         /\ old[2].type = "server_hello" /\ old[2].hrr
         /\ old[2].suite = h.hs.suite /\ h.hs.suite # "none"
         /\ old[2].cookie = h.hs.cookie /\ old[2].group = h.hs.retry_group
         /\ old[2].group \notin old[1].of[1].shares
         /\ h.hs.retry_group # "none" => TwoGroups(h.t.cfg)
  BY Zenon DEF HelloSent
<1>3. /\ IsSeq(tr) /\ Len(tr) = at /\ at <= Len(tr)
      /\ tr[at] = m /\ tr[at - 1] = old[n] /\ Prefix(tr, at) = tr
      /\ at = 2 \/ (at = 4 /\ n = 3 /\ tr[1] = old[1] /\ tr[2] = old[2])
  BY ZenonT(40) DEF HeardAt
<1>4. m.group \in HelloShares(h)
  BY <1>1, <1>2, ShareSent, ZenonT(40)
<1>5. m.psk # "none" => PskOffered(h) /\ m.psk = "zero"
  BY ZenonT(40) DEF hsp_parse_server_hello, PskOffered
<1>6. m.suite \in h.t.cfg.suites /\ (n = 3 => old[2].suite = m.suite)
  BY <1>2, ZenonT(40) DEF take_suite
<1> HIDE DEF old, n, tr
<1>7. LegalHellos(h.t.cfg, tr, at)
  <2> DEFINE ch == tr[at - 1]
             sh == tr[at]
  <2>1. ch = old[n] /\ sh = m
    BY <1>3, ZenonT(40)
  <2>2. n = 3 => (old[2].group # "none" => old[n].shares = {old[2].group})
    BY <1>1, <1>2, ZenonT(40) DEF HelloShares
  <2> HIDE DEF ch, sh
  <2>3. /\ ch.type = "client_hello" /\ sh.type = "server_hello" /\ ~sh.hrr
        /\ sh.suite \in ch.suites /\ sh.group \in ch.shares /\ sh.share_ok
        /\ sh.psk # "none" => ch.tickets # << >> /\ h.t.cfg.psk = HashOf(sh.suite)
    BY <1>1, <1>4, <1>5, <1>6, <2>1, ZenonT(40)
  <2>4. at = 2 \/ (/\ at = 4
                   /\ tr[1].type = "message_hash" /\ Len(tr[1].of) = 1
                   /\ tr[2].type = "server_hello" /\ tr[2].hrr
                   /\ tr[2].suite = sh.suite
                   /\ ch.cookie = tr[2].cookie
                   /\ tr[2].group # "none" => ch.shares = {tr[2].group}
                   /\ tr[2].group \notin tr[1].of[1].shares)
    <3>1. ch.cookie = h.hs.cookie
      BY <1>1, <2>1, ZenonT(40)
    <3> QED BY <1>2, <1>3, <1>6, <2>1, <2>2, <3>1, ZenonT(40)
  <2> QED BY <2>3, <2>4, ZenonT(40) DEF LegalHellos, ch, sh
<1>8. /\ k.t.psk_selected = (tr[at].psk = "zero")
      /\ k.hs.s_hs.early = IF tr[at].psk = "zero" THEN "psk" ELSE "nopsk"
  <2>1. (m.psk = "zero") = (PskOffered(h) /\ m.psk = "zero")
    BY <1>5, Zenon
  <2> QED BY <1>1, <1>3, <2>1, ZenonT(40)
<1>9. Greeted(k, at)
  BY <1>3, <1>7, <1>8, Zenon DEF Greeted, tr
<1> QED BY <1>3, <1>9, ZenonT(40) DEF tr

\* The step of a ServerHello: it is refused, or the handshake keys are installed.
LEMMA ServerHelloStep ==
    ASSUME IInv, step_server_hello
    PROVE  IInv'
<1> DEFINE m    == NextMsg(r)
           h    == Taken(r)
           read == hsf_read_server_hello(h, m)
           g    == read.h
           res  == IF read.ok THEN AcceptHello(g, m) ELSE read
<1>1. /\ driving /\ r.tx = 0 /\ ~session_dead(r) /\ UNCHANGED <<store, sent>>
      /\ r.step \in AwaitsHello /\ HelloSent(r) /\ Holds(r)
  BY DEF step_server_hello, At, IInv, Turns, Flow
<1>2. IsSession(h) /\ SameBut(r, h, {"buf"}, {}) /\ h.hs = r.hs
  BY TakenFacts DEF IInv
<1> HIDE DEF h
<1>3. ~(read.ok /\ m.hrr) /\ Advance(res, "AWAIT_ENCRYPTED_EXTENSIONS")
  BY DEF step_server_hello, h
<1>4. IsSession(g)
  BY <1>2, ReadHello, Zenon
<1>5. read.ok => /\ m.type = "server_hello" /\ hsp_parse_server_hello(h.t.cfg, m)
                 /\ take_suite(h, m) /\ ~m.hrr
                 /\ SameBut(h, g, {"transcript"}, {"suite"})
                 /\ g.t.transcript = Append(h.t.transcript, m)
  BY <1>2, <1>3, ReadHello, Zenon
<1> HIDE DEF m, read, g
<1>6. CASE ~read.ok
  <2>1. IsSession(res.h) /\ ~res.ok
    BY <1>4, <1>6 DEF g
  <2> HIDE DEF res
  <2>2. r.step # "COMPLETE"
    BY <1>1 DEF AwaitsHello
  <2> QED BY <1>1, <1>3, <2>1, <2>2, AdvanceKeeps, ZenonT(40)
<1>7. CASE read.ok
  <2> DEFINE k == res.h
             e == [k EXCEPT !.step = "AWAIT_ENCRYPTED_EXTENSIONS"]
  <2>1. res = AcceptHello(g, m)
    BY <1>7
  <2> HIDE DEF res
  <2>2. IsSession(res.h)
    BY <1>4, <2>1, AcceptHelloFacts, Zenon
  <2>3. ASSUME res.ok
        PROVE  /\ k.t.cfg = r.t.cfg /\ k.t.state = r.t.state
               /\ k.t.epoch = r.t.epoch /\ k.tx = r.tx /\ k.tx_off = r.tx_off
               /\ Flow(e) /\ Holds(e)
    <3>1. SameBut(g, k, {"group", "suite", "psk_selected", "rd", "wr", "keys"},
                  {"kex", "early", "handshake_secret", "c_hs", "s_hs", "encrypted"})
      BY <1>4, <2>1, <2>3, AcceptHelloFacts, ZenonT(40)
    <3>2. /\ m.group # "none" /\ selected_group_ok(g, m.group) /\ m.share_ok
          /\ PskOffered(g) /\ m.psk = "zero" => g.t.cfg.psk = HashOf(m.suite)
          /\ PskOffered(g) => m.psk \in {"none", "zero"}
          /\ TwoGroups(g.t.cfg) /\ g.t.cfg.require_pq => m.group = "hybrid"
          /\ k.t.psk_selected = (PskOffered(g) /\ m.psk = "zero")
          /\ k.hs.kex = {} /\ k.hs.early = "zero"
          /\ k.hs.s_hs.label = "s hs" /\ k.hs.c_hs.label = "c hs"
          /\ k.hs.s_hs.over = g.t.transcript /\ k.hs.s_hs.group = m.group
          /\ k.hs.s_hs.early = IF PskOffered(g) /\ m.psk = "zero" THEN g.hs.early ELSE "nopsk"
          /\ "over" \in DOMAIN k.hs.handshake_secret
          /\ k.t.keys = TRUE /\ k.t.wr = [key |-> k.hs.c_hs, seq |-> 0]
      BY <1>4, <2>1, <2>3, AcceptHelloFacts, ZenonT(40)
    <3>3. SameBut(r, g, {"buf", "transcript"}, {"suite"})
      <4>1. SameBut(h, g, {"transcript"}, {"suite"})
        BY <1>5, <1>7
      <4> QED BY <1>2, <4>1, SameThen
    <3> HIDE DEF k
    <3>4. /\ k.t.cfg = g.t.cfg /\ k.t.state = g.t.state /\ k.t.epoch = g.t.epoch
          /\ k.t.transcript = g.t.transcript /\ k.hs.leaf = g.hs.leaf
          /\ k.tx = g.tx /\ k.tx_off = g.tx_off
      BY <3>1 DEF SameBut, TlsFields, HsFields
    <3>5. /\ g.t.cfg = r.t.cfg /\ g.t.state = r.t.state /\ g.t.epoch = r.t.epoch
          /\ g.hs.leaf = r.hs.leaf /\ g.hs.early = r.hs.early
          /\ g.hs.retry_group = r.hs.retry_group /\ g.tx = r.tx /\ g.tx_off = r.tx_off
      BY <3>3 DEF SameBut, TlsFields, HsFields
    <3>6. /\ h.t.cfg = r.t.cfg /\ h.t.transcript = r.t.transcript
      BY <1>2 DEF SameBut, TlsFields
    <3>7. /\ (PskOffered(g) <=> PskOffered(r))
          /\ selected_group_ok(r, m.group) /\ take_suite(r, m)
          /\ hsp_parse_server_hello(r.t.cfg, m)
      BY <1>2, <1>5, <1>7, <3>2, <3>5, <3>6, ZenonT(40) DEF PskOffered, selected_group_ok, take_suite
    <3>8. k.t.transcript = Append(r.t.transcript, m)
      BY <1>5, <1>7, <3>4, <3>6
    <3>9. PICK at \in {2, 4} : HeardAt(r.t.transcript, k.t.transcript, m, at)
      <4>1. IsSeq(r.t.transcript) /\ Len(r.t.transcript) \in {1, 3}
        BY <1>1, SMTT(30) DEF HelloSent
      <4> QED BY <3>8, <4>1, HelloPlace, SMTT(30)
    <3>10. Greeted(k, at) /\ Len(k.t.transcript) = at
      <4>1. /\ r.step \in AwaitsHello /\ HelloSent(r) /\ m.type = "server_hello" /\ ~m.hrr
            /\ m.group # "none" /\ m.share_ok /\ k.t.cfg = r.t.cfg
            /\ PskOffered(r) /\ m.psk = "zero" => r.t.cfg.psk = HashOf(m.suite)
            /\ PskOffered(r) => m.psk \in {"none", "zero"}
            /\ TwoGroups(r.t.cfg) /\ r.t.cfg.require_pq => m.group = "hybrid"
            /\ k.t.psk_selected = (PskOffered(r) /\ m.psk = "zero")
            /\ k.hs.s_hs.over = k.t.transcript
            /\ k.hs.s_hs.early = IF PskOffered(r) /\ m.psk = "zero" THEN r.hs.early ELSE "nopsk"
        BY <1>1, <1>5, <1>7, <3>2, <3>4, <3>5, <3>7, ZenonT(40)
      <4> QED BY <3>2, <3>7, <3>9, <4>1, GreetFlow, ZenonT(40)
    <3>11. e.t = k.t /\ e.hs = k.hs /\ e.step = "AWAIT_ENCRYPTED_EXTENSIONS"
      BY <2>2 DEF IsSession, k
    <3> HIDE DEF e
    <3>12. k.hs.leaf = NoLeaf
      BY <1>1, <3>4, <3>5 DEF Holds
    <3>13. Greeted(e, at)
      BY <3>10, <3>11, ZenonT(40) DEF Greeted
    <3>14. Flow(e) /\ Holds(e)
      BY <3>2, <3>10, <3>11, <3>12, <3>13, ZenonT(40) DEF Flow, Holds, AwaitsHello, Protected, Steps
    <3> QED BY <3>4, <3>5, <3>14
  <2>4. r.step # "COMPLETE"
    BY <1>1 DEF AwaitsHello
  <2> QED BY <1>1, <1>3, <2>2, <2>3, <2>4, AdvanceKeeps
<1> QED BY <1>6, <1>7, SMTT(30)

-----------------------------------------------------------------------------
(* The protected flight *)

\* what the messages after the ServerHello change of a session
HeardTls == {"transcript", "buf", "alpn_selected", "epoch_seen", "epoch_status"}
HeardHs == {"alert", "leaf"}

\* The greeting is part of what was heard, and stays when more is heard.
LEMMA GreetedStays ==
    ASSUME NEW h, NEW k, NEW at \in {2, 4}, Greeted(h, at), NEW m,
           SameBut(h, k, HeardTls, HeardHs), k.t.transcript = Append(h.t.transcript, m)
    PROVE  Greeted(k, at)
<1> DEFINE old == h.t.transcript
           tr  == k.t.transcript
<1>1. IsSeq(old) /\ at <= Len(old) /\ LegalHellos(h.t.cfg, old, at)
  BY Zenon DEF Greeted
<1>2. /\ IsSeq(tr) /\ Len(old) \in Nat /\ Len(tr) = Len(old) + 1
      /\ \A i \in 1..Len(old) : tr[i] = old[i]
  BY <1>1, Heard
<1>3. at \in 0..Len(old) /\ at \in 1..Len(old) /\ at - 1 \in 1..Len(old) /\ at <= Len(tr)
  BY <1>1, <1>2
<1>4. Prefix(tr, at) = Prefix(old, at)
  BY <1>1, <1>3, HeardPrefix
<1>5. tr[at] = old[at] /\ tr[at - 1] = old[at - 1] /\ tr[1] = old[1] /\ tr[2] = old[2]
  BY <1>2, <1>3
<1>6. /\ k.t.cfg = h.t.cfg /\ k.t.psk_selected = h.t.psk_selected /\ k.hs.s_hs = h.hs.s_hs
      /\ k.hs.c_hs = h.hs.c_hs /\ k.hs.handshake_secret = h.hs.handshake_secret
  BY DEF SameBut, TlsFields, HsFields, HeardTls, HeardHs
<1> HIDE DEF old, tr
<1>7. LegalHellos(k.t.cfg, tr, at)
  BY <1>1, <1>5, <1>6 DEF LegalHellos
<1> QED BY <1>2, <1>3, <1>4, <1>5, <1>6, <1>7, ZenonT(40) DEF Greeted, old, tr

\* A message of the protected flight that leads to the flow of the next step.
LEMMA HeardStep ==
    ASSUME IInv, driving, r.step \in Protected, NEW res, NEW step \in Protected,
           Advance(res, step), UNCHANGED <<store, sent>>, IsSession(res.h),
           res.ok => SameBut(r, res.h, HeardTls, HeardHs),
           ASSUME res.ok, NEW k, k.t = res.h.t, k.hs = res.h.hs, k.step = step PROVE Flow(k)
    PROVE  IInv'
<1> DEFINE h == res.h
           k == [h EXCEPT !.step = step]
<1>1. r.step # "COMPLETE" /\ step # "COMPLETE" /\ ~session_dead(r)
  BY DEF Protected, IInv, Turns
<1>2. ASSUME res.ok
      PROVE  /\ h.t.cfg = r.t.cfg /\ h.t.state = r.t.state
             /\ h.t.epoch = r.t.epoch /\ h.tx = r.tx /\ h.tx_off = r.tx_off
             /\ Flow(k) /\ Holds(k)
  <2>1. /\ h.t.cfg = r.t.cfg /\ h.t.state = r.t.state
        /\ h.t.epoch = r.t.epoch /\ h.tx = r.tx /\ h.tx_off = r.tx_off
        /\ h.hs.kex = r.hs.kex /\ h.hs.early = r.hs.early /\ h.hs.c_hs = r.hs.c_hs
        /\ h.t.keys = r.t.keys /\ h.t.wr = r.t.wr
    BY <1>2 DEF SameBut, TlsFields, HsFields, HeardTls, HeardHs
  <2>2. k.t = h.t /\ k.hs = h.hs /\ k.step = step
    BY DEF IsSession
  <2> HIDE DEF k
  <2>3. Flow(k)
    BY <1>2, <2>2
  <2>4. Holds(k)
    BY <1>1, <2>1, <2>2 DEF IInv, Holds, Protected, AwaitsHello, Steps
  <2> QED BY <2>1, <2>3, <2>4
<1> QED BY <1>1, <1>2, AdvanceKeeps, SMTT(30)

\* The step of the EncryptedExtensions.
LEMMA ExtensionsStep ==
    ASSUME IInv, step_encrypted_extensions
    PROVE  IInv'
<1> DEFINE m    == NextMsg(r)
           h    == Taken(r)
           res  == hsf_read_encrypted_extensions(h, m)
           step == AfterExtensions(r)
           old  == r.t.transcript
<1>1. /\ driving /\ UNCHANGED <<store, sent>> /\ r.step = "AWAIT_ENCRYPTED_EXTENSIONS"
      /\ Advance(res, step) /\ Flow(r)
  BY DEF step_encrypted_extensions, At, IInv, Turns
<1>2. IsSession(h) /\ SameBut(r, h, {"buf"}, {})
  BY TakenFacts DEF IInv
<1> HIDE DEF h
<1>3. /\ IsSession(res.h)
      /\ res.ok => /\ SameBut(h, res.h, {"transcript", "alpn_selected"}, {"alert"})
                   /\ m.type = "encrypted_extensions"
                   /\ res.h.t.transcript = Append(h.t.transcript, m)
  BY <1>2, ExtensionsFacts, ZenonT(40)
<1> HIDE DEF res, m
<1>4. ASSUME res.ok
      PROVE  SameBut(r, res.h, {"transcript", "buf", "alpn_selected"}, {"alert"})
  <2>1. SameBut(h, res.h, {"transcript", "alpn_selected"}, {"alert"})
    BY <1>3, <1>4
  <2> QED BY <1>2, <2>1, SameThen
<1>5. res.ok => SameBut(r, res.h, HeardTls, HeardHs)
  BY <1>4 DEF SameBut, HeardTls, HeardHs
<1>6. PICK at \in {2, 4} : Greeted(r, at) /\ Len(old) = at /\ r.hs.leaf = NoLeaf
  BY <1>1 DEF Flow
<1>7. ASSUME res.ok, NEW k, k.t = res.h.t, k.hs = res.h.hs, k.step = step
      PROVE  Flow(k)
  <2>1. /\ k.t.transcript = Append(old, m) /\ k.hs.leaf = NoLeaf
        /\ k.t.psk_selected = r.t.psk_selected
    <3>1. h.t.transcript = old
      BY <1>2 DEF SameBut, TlsFields
    <3>2. res.h.hs.leaf = r.hs.leaf /\ res.h.t.psk_selected = r.t.psk_selected
      BY <1>4, <1>7 DEF SameBut, TlsFields, HsFields
    <3> QED BY <1>3, <1>6, <1>7, <3>1, <3>2
  <2>2. Greeted(k, at)
    <3>1. SameBut(r, res.h, HeardTls, HeardHs) /\ res.h.t.transcript = Append(old, m)
      BY <1>5, <1>7, <2>1
    <3>2. Greeted(res.h, at)
      BY <1>6, <3>1, GreetedStays, ZenonT(40)
    <3> QED BY <1>7, <3>2, Zenon DEF Greeted
  <2>3. Len(k.t.transcript) = at + 1 /\ k.t.transcript[at + 1] = m
    <3>1. IsSeq(old) /\ Len(old) = at
      BY <1>6, Zenon DEF Greeted
    <3> HIDE DEF old
    <3> QED BY <2>1, <3>1, Heard
  <2>4. k.t.transcript[at + 1].type = "encrypted_extensions"
    BY <1>3, <1>7, <2>3
  <2>5. k.step = IF k.t.psk_selected THEN "AWAIT_FINISHED" ELSE "AWAIT_CERTIFICATE"
    BY <1>7, <2>1 DEF AfterExtensions
  <2> QED BY <2>1, <2>2, <2>3, <2>4, <2>5 DEF Flow, AwaitsHello
<1>8. r.step \in Protected /\ step \in Protected
  BY <1>1 DEF Protected, AfterExtensions
<1> HIDE DEF step
<1> QED BY <1>1, <1>3, <1>5, <1>7, <1>8, HeardStep, ZenonT(40)

\* The step of the Certificate.
LEMMA CertificateStep ==
    ASSUME IInv, step_certificate
    PROVE  IInv'
<1> DEFINE m   == NextMsg(r)
           h   == Taken(r)
           res == hsa_server_auth(h, m)
           old == r.t.transcript
<1>1. /\ driving /\ UNCHANGED <<store, sent>> /\ r.step = "AWAIT_CERTIFICATE"
      /\ Advance(res, "AWAIT_CERTIFICATE_VERIFY") /\ Flow(r) /\ Loaded
  BY DEF step_certificate, At, IInv, Turns
<1>2. IsSession(h) /\ SameBut(r, h, {"buf"}, {})
  BY TakenFacts DEF IInv
<1> HIDE DEF h
<1>3. /\ IsSession(res.h)
      /\ res.ok =>
            /\ SameBut(h, res.h, {"transcript", "epoch_seen", "epoch_status"}, HeardHs)
            /\ m.type = "certificate" /\ (h.t.cfg.trust # "raw" => m.verdict = "none")
            /\ res.h.t.transcript = Append(h.t.transcript, m)
            /\ (EpochChecked(h) /\ h.t.epoch \in Nat) =>
                  /\ res.h.hs.leaf.epoch = m.epoch /\ m.epoch_ok
                  /\ m.epoch \in h.t.epoch..(h.t.epoch + EpochBound)
  BY <1>2, CertificateFacts, Zenon DEF HeardHs
<1> HIDE DEF res, m
<1>4. ASSUME res.ok
      PROVE  SameBut(r, res.h, HeardTls, HeardHs)
  <2>1. SameBut(h, res.h, {"transcript", "epoch_seen", "epoch_status"}, HeardHs)
    BY <1>3, <1>4
  <2> QED BY <1>2, <2>1, SameThen DEF HeardTls
<1>5. PICK at \in {2, 4} : /\ Greeted(r, at) /\ Len(old) = at + 1
                           /\ old[at + 1].type = "encrypted_extensions"
                           /\ ~r.t.psk_selected
  BY <1>1 DEF Flow
<1>6. /\ h.t.transcript = old /\ h.t.cfg = r.t.cfg /\ h.t.epoch = r.t.epoch
      /\ (EpochChecked(h) <=> EpochChecked(r))
  BY <1>2 DEF SameBut, TlsFields, EpochChecked
<1>7. ASSUME res.ok, NEW k, k.t = res.h.t, k.hs = res.h.hs, k.step = "AWAIT_CERTIFICATE_VERIFY"
      PROVE  Flow(k)
  <2>1. k.t.cfg = r.t.cfg /\ k.t.psk_selected = r.t.psk_selected
    BY <1>4, <1>7 DEF SameBut, TlsFields, HeardTls
  <2>2. res.h.t.transcript = Append(old, m) /\ k.t.transcript = Append(old, m)
    BY <1>3, <1>6, <1>7
  <2>3. Greeted(k, at)
    <3>1. Greeted(res.h, at)
      BY <1>4, <1>5, <1>7, <2>2, GreetedStays, ZenonT(40)
    <3> QED BY <1>7, <3>1, ZenonT(40) DEF Greeted
  <2>4. /\ Len(k.t.transcript) = at + 2 /\ k.t.transcript[at + 2] = m
        /\ k.t.transcript[at + 1] = old[at + 1]
    <3>1. IsSeq(old) /\ Len(old) = at + 1
      BY <1>5, Zenon DEF Greeted
    <3> HIDE DEF old
    <3>2. /\ Len(k.t.transcript) = (at + 1) + 1 /\ k.t.transcript[(at + 1) + 1] = m
          /\ \A i \in 1..(at + 1) : k.t.transcript[i] = old[i]
      BY <2>2, <3>1, Heard
    <3> QED BY <3>2
  <2>5. LeafShown(k, at + 2)
    <3>1. EpochChecked(k) => EpochChecked(r) /\ r.t.epoch = r.t.cfg.stored /\ r.t.epoch \in Nat
      BY <1>1, <2>1 DEF Loaded, EpochChecked
    <3>2. EpochChecked(k) => /\ k.hs.leaf.epoch = m.epoch /\ m.epoch_ok
                             /\ m.epoch \in k.t.cfg.stored..(k.t.cfg.stored + EpochBound)
      BY <1>3, <1>6, <1>7, <2>1, <3>1, SMTT(30)
    <3>3. m.type = "certificate" /\ (k.t.cfg.trust # "raw" => m.verdict = "none")
      BY <1>3, <1>6, <1>7, <2>1
    <3> QED BY <2>4, <3>2, <3>3 DEF LeafShown
  <2> QED BY <1>5, <1>7, <2>1, <2>3, <2>4, <2>5 DEF Flow, AwaitsHello
<1>8. r.step \in Protected /\ "AWAIT_CERTIFICATE_VERIFY" \in Protected
  BY <1>1 DEF Protected
<1> QED BY <1>1, <1>3, <1>4, <1>7, <1>8, HeardStep, Zenon

\* The step of the CertificateVerify.
LEMMA VerifyStep ==
    ASSUME IInv, step_certificate_verify
    PROVE  IInv'
<1> DEFINE m   == NextMsg(r)
           h   == Taken(r)
           res == hsa_read_certificate_verify(h, m)
           old == r.t.transcript
<1>1. /\ driving /\ UNCHANGED <<store, sent>> /\ r.step = "AWAIT_CERTIFICATE_VERIFY"
      /\ Advance(res, "AWAIT_FINISHED") /\ Flow(r)
  BY DEF step_certificate_verify, At, IInv, Turns
<1>2. IsSession(h) /\ SameBut(r, h, {"buf"}, {})
  BY TakenFacts DEF IInv
<1> HIDE DEF h
<1>3. /\ IsSession(res.h)
      /\ res.ok => /\ SameBut(h, res.h, {"transcript"}, {"alert"})
                   /\ m.type = "certificate_verify"
                   /\ m.signer = "leaf" /\ m.over = h.t.transcript
                   /\ res.h.t.transcript = Append(h.t.transcript, m)
  BY <1>2, VerifyFacts, ZenonT(40)
<1> HIDE DEF res, m
<1>4. ASSUME res.ok
      PROVE  SameBut(r, res.h, {"transcript", "buf"}, {"alert"})
  <2>1. SameBut(h, res.h, {"transcript"}, {"alert"})
    BY <1>3, <1>4
  <2> QED BY <1>2, <2>1, SameThen
<1>5. res.ok => SameBut(r, res.h, HeardTls, HeardHs)
  BY <1>4 DEF SameBut, HeardTls, HeardHs
<1>6. PICK at \in {2, 4} : /\ Greeted(r, at) /\ Len(old) = at + 2
                           /\ old[at + 1].type = "encrypted_extensions"
                           /\ ~r.t.psk_selected /\ LeafShown(r, at + 2)
  BY <1>1 DEF Flow
<1>7. h.t.transcript = old
  BY <1>2 DEF SameBut, TlsFields
<1>8. ASSUME res.ok, NEW k, k.t = res.h.t, k.hs = res.h.hs, k.step = "AWAIT_FINISHED"
      PROVE  Flow(k)
  <2> DEFINE tr == k.t.transcript
  <2>1. k.t.cfg = r.t.cfg /\ k.t.psk_selected = r.t.psk_selected /\ k.hs.leaf = r.hs.leaf
    BY <1>4, <1>8 DEF SameBut, TlsFields, HsFields
  <2>2. res.h.t.transcript = Append(old, m) /\ tr = Append(old, m)
    BY <1>3, <1>7, <1>8
  <2>3. Greeted(k, at)
    <3>1. Greeted(res.h, at)
      BY <1>5, <1>6, <1>8, <2>2, GreetedStays, Zenon
    <3> QED BY <1>8, <3>1, Zenon DEF Greeted
  <2>4. /\ Len(tr) = at + 3 /\ tr[at + 3] = m /\ tr[at + 2] = old[at + 2]
        /\ tr[at + 1] = old[at + 1] /\ Prefix(tr, at + 2) = old
    <3>1. IsSeq(old) /\ Len(old) = at + 2
      BY <1>6, Zenon DEF Greeted
    <3> HIDE DEF old
    <3>2. /\ Len(tr) = (at + 2) + 1 /\ tr[(at + 2) + 1] = m
          /\ \A i \in 1..(at + 2) : tr[i] = old[i]
      BY <2>2, <3>1, Heard
    <3>3. Prefix(tr, at + 2) = old
      BY <2>2, <3>1, HeardCovers, SMTT(30)
    <3> QED BY <3>2, <3>3
  <2>5. LeafShown(k, at + 2)
    BY <1>6, <2>1, <2>4 DEF LeafShown, EpochChecked
  <2>6. LegalCertificate(k, tr, at + 2)
    <3>1. /\ m.type = "certificate_verify" /\ m.signer = "leaf"
          /\ m.over = Prefix(tr, at + 2) /\ tr[(at + 2) + 1] = m
      BY <1>3, <1>7, <1>8, <2>4
    <3> QED BY <2>5, <3>1 DEF LegalCertificate, LeafShown
  <2> QED BY <1>6, <1>8, <2>1, <2>3, <2>4, <2>5, <2>6, ZenonT(40) DEF Flow, AwaitsHello
<1>9. r.step \in Protected /\ "AWAIT_FINISHED" \in Protected
  BY <1>1 DEF Protected
<1> QED BY <1>1, <1>3, <1>5, <1>8, <1>9, HeardStep, ZenonT(40)

\* tr is what was heard, and m
Goes(old, m, tr) == tr = Append(old, m)

\* the server's Finished is due as the fin-th message, and is heard with the
\* client's own behind it
Ending(old, m, mid, own, tr, at, fin) ==
    /\ IsSeq(old) /\ at \in {2, 4} /\ fin \in {at + 2, at + 4} /\ Len(old) = fin - 1
    /\ Goes(old, m, mid) /\ Goes(mid, own, tr)

\* what then stays in its place
Ended(old, m, mid, own, tr, at, fin) ==
    /\ at <= Len(tr) /\ Len(tr) = fin + 1 /\ tr[fin] = m /\ tr[fin + 1] = own
    /\ tr[at] = old[at] /\ tr[at - 1] = old[at - 1] /\ tr[at + 1] = old[at + 1]
    /\ tr[1] = old[1] /\ tr[2] = old[2]
    /\ Prefix(tr, at) = Prefix(old, at) /\ Prefix(tr, fin - 1) = old
    /\ fin = at + 4 => /\ tr[at + 2] = old[at + 2] /\ tr[(at + 2) + 1] = old[(at + 2) + 1]
                       /\ Prefix(tr, at + 2) = Prefix(old, at + 2)
    /\ Prefix(tr, Len(tr) - 1) = mid
    /\ Len(tr) = Len(old) + 2 /\ \A i \in 1..Len(old) : tr[i] = old[i]

\* Two more messages leave what was heard in its place.
LEMMA FlightEnd ==
    ASSUME NEW old, NEW m, NEW mid, NEW own, NEW tr, NEW at, NEW fin,
           Ending(old, m, mid, own, tr, at, fin)
    PROVE  Ended(old, m, mid, own, tr, at, fin)
<1> DEFINE n == Len(old)
<1>0. IsSeq(old) /\ at \in {2, 4} /\ fin \in {at + 2, at + 4} /\ n = fin - 1
  BY DEF Ending
<1>g. mid = Append(old, m) /\ tr = Append(mid, own)
  BY DEF Ending, Goes
<1>1. /\ IsSeq(mid) /\ n \in Nat /\ Len(mid) = n + 1 /\ mid[n + 1] = m
      /\ \A i \in 1..n : mid[i] = old[i]
  BY <1>0, <1>g, Heard
<1>2. /\ \A i \in 0..n : Prefix(mid, i) = Prefix(old, i)
      /\ Prefix(mid, n) = old
  BY <1>0, <1>g, HeardPrefix, HeardCovers
<1>3. /\ Len(tr) = Len(mid) + 1 /\ tr[Len(mid) + 1] = own
      /\ \A i \in 1..Len(mid) : tr[i] = mid[i]
  BY <1>1, <1>g, Heard
<1>4. /\ \A i \in 0..Len(mid) : Prefix(tr, i) = Prefix(mid, i)
      /\ Prefix(tr, Len(mid)) = mid
  BY <1>1, <1>g, HeardPrefix, HeardCovers, Zenon
<1> HIDE DEF n
<1>5. /\ Len(tr) = n + 2 /\ tr[n + 1] = m /\ tr[n + 2] = own
      /\ \A i \in 1..n : tr[i] = old[i]
      /\ \A i \in 0..n : Prefix(tr, i) = Prefix(old, i)
      /\ Prefix(tr, n) = old /\ Prefix(tr, Len(tr) - 1) = mid
  <2>1. Len(tr) = n + 2 /\ tr[n + 1] = m /\ tr[n + 2] = own /\ Len(tr) - 1 = Len(mid)
    BY <1>1, <1>3
  <2>2. \A i \in 1..n : tr[i] = old[i]
    BY <1>1, <1>3
  <2>3. \A i \in 0..n : Prefix(tr, i) = Prefix(old, i)
    BY <1>1, <1>2, <1>4
  <2>4. Prefix(tr, n) = Prefix(mid, n)
    BY <1>1, <1>4
  <2> QED BY <1>2, <1>4, <2>1, <2>2, <2>3, <2>4
<1>6. /\ at \in 1..n /\ at - 1 \in 1..n /\ at + 1 \in 1..n /\ 1 \in 1..n /\ 2 \in 1..n
      /\ at \in 0..n /\ n + 1 = fin /\ n + 2 = fin + 1 /\ n = fin - 1 /\ at <= n + 2
      /\ fin = at + 4 => at + 2 \in 1..n /\ (at + 2) + 1 \in 1..n /\ at + 2 \in 0..n
  BY <1>0, SMTT(30)
<1> QED BY <1>5, <1>6 DEF Ended, n

\* The server's Finished, and the client's own after it, complete a legal flight.
LEMMA FinishedFlow ==
    ASSUME NEW h, NEW at \in {2, 4}, Greeted(h, at), NEW fin,
           fin = IF h.t.psk_selected THEN at + 2 ELSE at + 4,
           h.t.transcript[at + 1].type = "encrypted_extensions",
           ~h.t.psk_selected => LegalCertificate(h, h.t.transcript, at + 2),
           NEW m, m.type = "finished", m.key = h.hs.s_hs, m.over = h.t.transcript,
           NEW own, own.type = "finished", own.key.label = "c hs",
           NEW k, k.t.cfg = h.t.cfg, NEW mid,
           Ended(h.t.transcript, m, mid, own, k.t.transcript, at, fin)
    PROVE  LegalFlight(k)
<1> DEFINE old == h.t.transcript
           tr  == k.t.transcript
           psk == h.t.psk_selected
<1>1. /\ LegalHellos(h.t.cfg, old, at) /\ psk = (old[at].psk = "zero")
      /\ m.key.label = "s hs" /\ m.key.over = Prefix(old, at) /\ m.key.group = old[at].group
      /\ m.key.early = IF psk THEN "psk" ELSE "nopsk"
  BY ZenonT(40) DEF Greeted
<1>2. /\ at <= Len(tr) /\ Len(tr) = fin + 1 /\ tr[fin] = m /\ tr[fin + 1] = own
      /\ tr[at] = old[at] /\ tr[at - 1] = old[at - 1] /\ tr[at + 1] = old[at + 1]
      /\ tr[1] = old[1] /\ tr[2] = old[2]
      /\ Prefix(tr, at) = Prefix(old, at) /\ Prefix(tr, fin - 1) = old
      /\ fin = at + 4 => /\ tr[at + 2] = old[at + 2] /\ tr[(at + 2) + 1] = old[(at + 2) + 1]
                         /\ Prefix(tr, at + 2) = Prefix(old, at + 2)
  BY ZenonT(40) DEF Ended
<1>3. /\ ~psk => LegalCertificate(h, old, at + 2)
      /\ fin = IF psk THEN at + 2 ELSE at + 4
  BY ZenonT(40)
<1> HIDE DEF old, tr, psk
<1>4. LegalHellos(k.t.cfg, tr, at)
  <2>1. /\ tr[at] = old[at] /\ tr[at - 1] = old[at - 1] /\ tr[1] = old[1] /\ tr[2] = old[2]
        /\ k.t.cfg = h.t.cfg
    BY <1>2, ZenonT(40)
  <2>2. LegalHellos(h.t.cfg, old, at) => LegalHellos(h.t.cfg, tr, at)
    BY <2>1, ZenonT(40) DEF LegalHellos
  <2> QED BY <1>1, <2>1, <2>2, ZenonT(40)
<1>5. ~psk => LegalCertificate(k, tr, at + 2)
  BY <1>2, <1>3, ZenonT(40) DEF LegalCertificate, EpochChecked
<1>6. LegalFinished(tr, fin, at, psk)
  BY <1>1, <1>2, ZenonT(40) DEF LegalFinished, old
<1>7. tr[at].type = "server_hello" /\ ~tr[at].hrr /\ psk = (tr[at].psk = "zero")
  <2>1. tr[at] = old[at]
    BY <1>2, ZenonT(40)
  <2>2. tr[at].type = "server_hello" /\ ~tr[at].hrr
    BY <1>4, ZenonT(40) DEF LegalHellos
  <2> QED BY <1>1, <2>1, <2>2, ZenonT(40)
<1>8. fin = IF tr[at].psk = "zero" THEN at + 2 ELSE at + 4
  BY <1>3, <1>7, ZenonT(40)
<1>9. tr[at + 1].type = "encrypted_extensions"
  BY <1>2, ZenonT(40) DEF old
<1> QED BY <1>2, <1>4, <1>5, <1>6, <1>7, <1>8, <1>9, ZenonT(40) DEF LegalFlight, tr

\* A flight is legal for what was heard under a configuration.
LEMMA SameFlight ==
    ASSUME NEW h, LegalFlight(h), NEW k, k.t.cfg = h.t.cfg, k.t.transcript = h.t.transcript
    PROVE  LegalFlight(k)
<1>1. \A tr, n : LegalCertificate(h, tr, n) => LegalCertificate(k, tr, n)
  BY SMTT(30) DEF LegalCertificate, EpochChecked
<1> QED BY <1>1, Zenon DEF LegalFlight

\* g has heard a Finished that h admits
Admits(h, m, g) ==
    /\ IsSession(h) /\ h.step = "AWAIT_FINISHED" /\ Flow(h) /\ Holds(h)
    /\ m.type = "finished" /\ m.key = h.hs.s_hs /\ m.over = h.t.transcript
    /\ IsSession(g) /\ SameBut(h, g, {"transcript", "buf"}, {"server_finished_ok"})
    /\ Goes(h.t.transcript, m, g.t.transcript)

\* the flight of h is complete in k
Completes(h, k) ==
    LET tr == k.t.transcript IN
    /\ IsSession(k) /\ k.t.cfg = h.t.cfg /\ k.t.state = h.t.state
    /\ k.t.keys = h.t.keys /\ k.t.wr.key.label = "c hs" /\ LegalFlight(k)
    /\ k.t.wr_secret.over = Prefix(tr, Len(tr) - 1)
    /\ k.t.rd_secret.over = Prefix(tr, Len(tr) - 1)
    /\ Len(tr) = Len(h.t.transcript) + 2
    /\ \A i \in 1..Len(h.t.transcript) : tr[i] = h.t.transcript[i]

\* What a session holds once the server's Finished is read and its own is made.
LEMMA CompletedFacts ==
    ASSUME NEW h, NEW m, NEW g, Admits(h, m, g), NEW failed
    PROVE  Completes(h, hsf_complete(hsa_epoch_commit(g, failed)))
<1> DEFINE done == hsf_complete(hsa_epoch_commit(g, failed))
<1>a. /\ IsSession(h) /\ h.step = "AWAIT_FINISHED" /\ Flow(h) /\ Holds(h)
      /\ IsSession(g) /\ SameBut(h, g, {"transcript", "buf"}, {"server_finished_ok"})
  BY DEF Admits
<1>b. /\ m.type = "finished" /\ m.key = h.hs.s_hs /\ m.over = h.t.transcript
      /\ Goes(h.t.transcript, m, g.t.transcript)
  BY DEF Admits
<1> DEFINE c   == hsa_epoch_commit(g, failed)
           old == h.t.transcript
           own == ClientFinished(c)
           tr  == done.t.transcript
<1>1. IsSession(c) /\ SameBut(g, c, {"epoch", "epoch_store_failed"}, {}) /\ c.hs = g.hs
  BY <1>a, CommitFacts, SMTT(30)
<1>2. PICK at \in {2, 4} :
         /\ Greeted(h, at)
         /\ Len(old) = IF h.t.psk_selected THEN at + 1 ELSE at + 3
         /\ old[at + 1].type = "encrypted_extensions"
         /\ ~h.t.psk_selected => LegalCertificate(h, old, at + 2)
  BY <1>a DEF Flow
<1>d. done = hsf_complete(c)
  OBVIOUS
<1> HIDE DEF c, done
<1>3. /\ c.t.cfg = h.t.cfg /\ c.t.state = h.t.state /\ c.t.keys = h.t.keys
      /\ c.t.wr = h.t.wr /\ Goes(old, m, c.t.transcript)
      /\ c.hs.c_hs = h.hs.c_hs /\ c.hs.handshake_secret = h.hs.handshake_secret
  BY <1>1, <1>a, <1>b, SMTT(30) DEF SameBut, TlsFields, HsFields, Goes
<1>4. "over" \in DOMAIN c.hs.handshake_secret /\ c.hs.c_hs.label = "c hs"
  BY <1>2, <1>3, ZenonT(40) DEF Greeted
<1>5. /\ IsSession(done)
      /\ SameBut(c, done, {"wr_secret", "rd_secret", "res_master", "transcript"}, {})
      /\ Goes(c.t.transcript, own, tr)
      /\ done.t.wr_secret.over = c.t.transcript /\ done.t.rd_secret.over = c.t.transcript
  BY <1>1, <1>4, <1>d, CompleteFacts, ZenonT(40) DEF Goes
<1>6. own.type = "finished" /\ own.key.label = "c hs"
  BY <1>4, ZenonT(40) DEF ClientFinished, FinishedMessage
<1>7. /\ done.t.cfg = h.t.cfg /\ done.t.state = h.t.state /\ done.t.keys = h.t.keys
      /\ done.t.wr = h.t.wr
  BY <1>3, <1>5 DEF SameBut, TlsFields
<1>8. done.t.wr.key.label = "c hs"
  <2>1. h.t.wr = [key |-> h.hs.c_hs, seq |-> 0]
    BY <1>a DEF Holds, Protected
  <2>2. h.t.wr.key = h.hs.c_hs
    BY <2>1
  <2> QED BY <1>3, <1>4, <1>7, <2>2, ZenonT(40)
<1> DEFINE fin == Len(old) + 1
<1>9. /\ IsSeq(old) /\ fin \in {at + 2, at + 4} /\ Len(old) = fin - 1
      /\ fin = IF h.t.psk_selected THEN at + 2 ELSE at + 4
  <2>1. IsSeq(old)
    BY <1>2, Zenon DEF Greeted
  <2>2. Len(old) = at + 1 \/ Len(old) = at + 3
    BY <1>2
  <2>3. fin \in {at + 2, at + 4} /\ Len(old) = fin - 1
    <3> HIDE DEF old
    <3> QED BY <2>2
  <2>4. CASE h.t.psk_selected
    <3>1. Len(old) = at + 1
      BY <1>2, <2>4
    <3> HIDE DEF old
    <3> QED BY <2>1, <2>3, <2>4, <3>1
  <2>5. CASE ~h.t.psk_selected
    <3>1. Len(old) = at + 3
      BY <1>2, <2>5
    <3> HIDE DEF old
    <3> QED BY <2>1, <2>3, <2>5, <3>1
  <2> QED BY <2>4, <2>5
<1> HIDE DEF old, own, tr, fin
<1>10. Ended(old, m, c.t.transcript, own, tr, at, fin)
  <2>1. Ending(old, m, c.t.transcript, own, tr, at, fin)
    BY <1>3, <1>5, <1>9, SMTT(30) DEF Ending
  <2> QED BY <2>1, FlightEnd, SMTT(30)
<1>11. LegalFlight(done)
  BY <1>2, <1>6, <1>7, <1>9, <1>10, <1>b, FinishedFlow, ZenonT(40) DEF old, tr
<1>12. /\ Prefix(tr, Len(tr) - 1) = c.t.transcript
       /\ Len(tr) = Len(old) + 2 /\ \A i \in 1..Len(old) : tr[i] = old[i]
  BY <1>10 DEF Ended
<1> QED BY <1>5, <1>7, <1>8, <1>11, <1>12, ZenonT(40) DEF Completes, done, old, tr

\* A Finished that is read is one the session admits.
LEMMA FinishedRead ==
    ASSUME IInv, r.step = "AWAIT_FINISHED", ~session_dead(r), NEW m, NEW read,
           read = hsf_read_finished(Taken(r), m)
    PROVE  IsSession(read.h) /\ (read.ok => Admits(r, m, read.h))
<1> DEFINE h == Taken(r)
           g == read.h
<1>1. IsSession(r) /\ Flow(r) /\ Holds(r)
  BY DEF IInv
<1>2. IsSession(h) /\ SameBut(r, h, {"buf"}, {}) /\ h.hs = r.hs
  BY <1>1, TakenFacts
<1>3. IsSession(h) /\ h.t.transcript = r.t.transcript
  BY <1>2 DEF SameBut, TlsFields
<1> HIDE DEF h
<1>4. /\ IsSession(g)
      /\ read.ok => /\ SameBut(h, g, {"transcript"}, {"server_finished_ok"})
                    /\ m.type = "finished"
                    /\ m.key = h.hs.s_hs /\ m.over = h.t.transcript
                    /\ g.t.transcript = Append(h.t.transcript, m)
  <2>1. read = hsf_read_finished(h, m)
    BY DEF h
  <2>2. IsSession(h)
    BY <1>2
  <2> QED BY <2>1, <2>2, FinishedFacts, Zenon
<1> HIDE DEF g
<1>5. ASSUME read.ok PROVE Admits(r, m, g)
  <2>1. SameBut(r, g, {"transcript", "buf"}, {"server_finished_ok"})
    <3>1. SameBut(h, g, {"transcript"}, {"server_finished_ok"})
      BY <1>4, <1>5
    <3> QED BY <1>2, <3>1, SameThen
  <2>2. Goes(r.t.transcript, m, g.t.transcript)
    BY <1>3, <1>4, <1>5 DEF Goes
  <2> QED BY <1>1, <1>2, <1>3, <1>4, <1>5, <2>1, <2>2 DEF Admits
<1> QED BY <1>4, <1>5 DEF g

\* The step of the Finished: it is refused, or the client's own is staged and
\* the session holds the application keys.
LEMMA FinishedStep ==
    ASSUME IInv, NEW failed, step_finished(failed)
    PROVE  IInv'
<1> DEFINE m    == NextMsg(r)
           h    == Taken(r)
           read == hsf_read_finished(h, m)
           g    == read.h
           done == hsf_complete(hsa_epoch_commit(g, failed))
           rec  == SealedRecord(done.t.wr, "handshake", Cells(ClientFinished(g)))
<1>1. /\ driving /\ r.tx = 0 /\ ~session_dead(r) /\ sent' = sent
      /\ r.step = "AWAIT_FINISHED" /\ Flow(r) /\ Holds(r) /\ Loaded /\ IsSession(r)
  BY DEF step_finished, At, IInv, Turns
<1>2. IF ~read.ok THEN fail(g)
      ELSE IF ~EndsRecord(g) THEN fail([g EXCEPT !.hs.alert = "unexpected_message"])
      ELSE Stage(Connected(done), rec) /\ driving' = FALSE
  BY DEF step_finished
<1>3. read.ok => Admits(r, m, g)
  BY <1>1, FinishedRead
<1>4. IsSession(g)
  BY <1>1, FinishedRead
<1> HIDE DEF h, rec, m, read, g
<1>5. CASE ~read.ok
  BY <1>1, <1>2, <1>4, <1>5, FailKeeps
<1>6. CASE read.ok /\ ~EndsRecord(g)
  <2>1. IsSession([g EXCEPT !.hs.alert = "unexpected_message"])
    BY <1>4, Alerted
  <2> QED BY <1>1, <1>2, <1>6, <2>1, FailKeeps
<1>7. CASE read.ok /\ EndsRecord(g)
  <2> DEFINE k == Connected(done)
  <2>1. /\ IsSession(done) /\ done.t.cfg = r.t.cfg /\ done.t.state = r.t.state
        /\ done.t.keys = r.t.keys /\ done.t.wr.key.label = "c hs"
        /\ LegalFlight(done)
        /\ done.t.wr_secret.over = Prefix(done.t.transcript, Len(done.t.transcript) - 1)
        /\ done.t.rd_secret.over = Prefix(done.t.transcript, Len(done.t.transcript) - 1)
    <3>1. Admits(r, m, g)
      BY <1>3, <1>7
    <3>2. Completes(r, done)
      BY <3>1, CompletedFacts
    <3> HIDE DEF done
    <3> QED BY <3>2, Zenon DEF Completes
  <2>2. Stage(k, rec) /\ driving' = FALSE
    BY <1>2, <1>7, SMTT(30)
  <2>3. IsFinished(rec)
    BY <2>1, ZenonT(40) DEF IsFinished, rec, SealedRecord
  <2> HIDE DEF done
  <2>4. /\ IsSession(k) /\ k.hs = NoHs /\ k.step = "COMPLETE"
        /\ \A f \in TlsFields \ {"rd", "wr", "buf"} : k.t[f] = done.t[f]
        /\ k.t.rd = [key |-> done.t.rd_secret, seq |-> 0]
        /\ k.t.wr = [key |-> done.t.wr_secret, seq |-> 0]
    BY <2>1, ConnectedFacts, ZenonT(40)
  <2> HIDE DEF k
  <2>5. /\ k.t.cfg = r.t.cfg /\ k.t.state = r.t.state /\ k.t.keys = r.t.keys
        /\ k.t.transcript = done.t.transcript
        /\ k.t.wr_secret = done.t.wr_secret /\ k.t.rd_secret = done.t.rd_secret
    BY <2>1, <2>4, Zenon DEF TlsFields
  <2>6. /\ IsSession(r') /\ r'.t = k.t /\ r'.hs = k.hs /\ r'.step = "COMPLETE"
        /\ r'.tx = Len(made) + 1 /\ r'.tx_off = 0 /\ made' = Append(made, rec)
    BY <2>2, <2>4, SMTT(30) DEF Stage, IsSession
  <2>7. Flow(r')
    <3>1. LegalFlight(r')
      <4>1. r'.t.cfg = done.t.cfg /\ r'.t.transcript = done.t.transcript
        BY <2>1, <2>5, <2>6, ZenonT(40)
      <4> QED BY <2>1, <4>1, SameFlight, ZenonT(40)
    <3> QED BY <2>1, <2>5, <2>6, <3>1, ZenonT(40) DEF Flow, AwaitsHello
  <2>8. Holds(r')
    BY <1>1, <2>4, <2>5, <2>6, SMTT(30) DEF Holds, AwaitsHello, Protected, Steps
  <2>9. ~session_dead(r)' /\ r'.t.state = r.t.state /\ r.t.state # "CLOSED"
    BY <1>1, <2>5, <2>6 DEF session_dead
  <2>10. Loaded'
    BY <1>1, <2>5, <2>6 DEF Loaded
  <2>11. Output'
    BY <1>1, <2>3, <2>6, <2>9, StageOutput DEF IInv
  <2>12. Turns'
    <3>1. Len(made) \in Nat
      BY Heard DEF IInv, Output
    <3>2. r'.tx # 0 /\ r.t.state # "CONNECTED" /\ r.t.state \in {"START", "CONNECTED", "FAILED", "CLOSED"}
      BY <1>1, <2>6, <3>1 DEF IInv, Turns
    <3> QED BY <2>2, <2>6, <2>9, <3>2, Zenon DEF Turns
  <2> QED BY <2>6, <2>7, <2>8, <2>9, <2>10, <2>11, <2>12 DEF IInv
<1> QED BY <1>5, <1>6, <1>7

-----------------------------------------------------------------------------
(* Output and the closes *)

\* sent pieces, those of each record in a row
InOrder(pieces) ==
    \A k \in 1..Len(pieces) :
        pieces[k] = << ((k - 1) \div Pieces) + 1, ((k - 1) % Pieces) + 1 >>

\* all of a records have left, and n pieces more
Left(pieces, a, n) ==
    IsSeq(pieces) /\ a \in Nat /\ n \in Nat /\ Len(pieces) = Pieces * a + n /\ InOrder(pieces)

\* The pieces of a record that leave go behind those that left.
LEMMA PiecesOut ==
    ASSUME NEW old, NEW a, NEW off, Left(old, a, off), NEW take \in 1..Pieces, off + take <= Pieces
    PROVE  Left(old \o [i \in 1..take |-> <<a + 1, off + i>>], a, off + take)
<1> DEFINE more == [i \in 1..take |-> <<a + 1, off + i>>]
           new  == old \o more
<1>a. Pieces \in Nat \ {0}
  BY ClientAssumption
<1>b. a \in Nat /\ off \in Nat /\ take \in Nat /\ take >= 1 /\ off + take <= Pieces
  BY <1>a DEF Left
<1>1. PICK S : old \in Seq(S)
  BY DEF Left, IsSeq
<1>2. old \in Seq(S \cup (Nat \X Nat)) /\ Len(old) \in Nat /\ Len(old) = Pieces * a + off
  BY <1>1 DEF Left
<1>3. more \in Seq(S \cup (Nat \X Nat)) /\ Len(more) = take
  BY <1>b
<1>4. \A i \in 1..take : more[i] = <<a + 1, off + i>>
  OBVIOUS
<1> HIDE DEF more
<1>5. /\ new \in Seq(S \cup (Nat \X Nat)) /\ Len(new) = Len(old) + take
      /\ \A k \in 1..(Len(old) + take) :
             new[k] = IF k <= Len(old) THEN old[k] ELSE more[k - Len(old)]
  <2> DEFINE T == S \cup (Nat \X Nat)
  <2>1. old \in Seq(T) /\ more \in Seq(T) /\ Len(old) \in Nat /\ Len(more) = take
    BY <1>2, <1>3
  <2> HIDE DEF T
  <2>2. /\ old \o more \in Seq(T) /\ Len(old \o more) = Len(old) + Len(more)
        /\ \A k \in 1..(Len(old) + Len(more)) :
               (old \o more)[k] = IF k <= Len(old) THEN old[k] ELSE more[k - Len(old)]
    BY <2>1
  <2> QED BY <2>1, <2>2, Zenon DEF T
<1> HIDE DEF new
<1>6. ASSUME NEW k \in 1..Len(new)
      PROVE  new[k] = << ((k - 1) \div Pieces) + 1, ((k - 1) % Pieces) + 1 >>
  <2>1. k \in 1..(Len(old) + take)
    BY <1>5
  <2>2. CASE k <= Len(old)
    <3>1. k \in 1..Len(old) /\ new[k] = old[k]
      BY <1>2, <1>5, <2>1, <2>2
    <3> QED BY <3>1 DEF Left, InOrder
  <2>3. CASE k > Len(old)
    <3> DEFINE i == k - Len(old)
               j == off + i - 1
    <3>1. i \in 1..take
      BY <1>2, <1>b, <2>1, <2>3
    <3>2. new[k] = more[i]
      BY <1>2, <1>5, <2>1, <2>3
    <3>3. new[k] = <<a + 1, off + i>>
      BY <1>4, <3>1, <3>2
    <3>4. k - 1 = Len(old) + i - 1
      BY <1>2, <2>1
    <3> HIDE DEF i
    <3>5. j \in 0..(Pieces - 1) /\ j + 1 = off + i
      BY <1>a, <1>b, <3>1
    <3>6. k - 1 = Pieces * a + j
      BY <1>a, <1>b, <1>2, <3>1, <3>4
    <3> HIDE DEF j
    <3>7. (Pieces * a + j) \div Pieces = a /\ (Pieces * a + j) % Pieces = j
      BY <1>a, <1>b, <3>5, Multiples, ZenonT(40)
    <3>8. (k - 1) \div Pieces = a /\ (k - 1) % Pieces = j
      BY <3>6, <3>7
    <3> QED BY <3>3, <3>5, <3>8
  <2> QED BY <1>2, <2>1, <2>2, <2>3
<1>7. InOrder(new)
  BY <1>6 DEF InOrder
<1>8. Len(new) = Pieces * a + (off + take)
  BY <1>a, <1>b, <1>2, <1>5
<1>9. IsSeq(new)
  BY <1>5 DEF IsSeq
<1> QED BY <1>b, <1>7, <1>8, <1>9 DEF Left, new, more

\* A call of ch_tcp_out: the next pieces leave, and the last one of the Finished
\* makes the session connected.
LEMMA OutStep ==
    ASSUME IInv, NEW take \in 1..Pieces, tcp_out(take)
    PROVE  IInv'
<1>1. /\ ~driving /\ r.tx # 0 /\ r.tx_off + take <= Pieces
      /\ UNCHANGED <<driving, store, cut, made>>
      /\ sent' = sent \o [i \in 1..take |-> <<r.tx, r.tx_off + i>>]
      /\ r' = IF r.tx_off + take = Pieces THEN Drained(r) ELSE [r EXCEPT !.tx_off = @ + take]
  BY DEF tcp_out
<1>2. IsSession(r) /\ Turns /\ Output
  BY DEF IInv
<1>3. /\ r.tx = Len(made) /\ r.t.state # "CLOSED" /\ Len(made) \in Nat
      /\ r.tx_off \in 0..(Pieces - 1) /\ Len(sent) = Pieces * (Len(made) - 1) + r.tx_off
  BY <1>1, <1>2, Heard DEF Output
<1>4. /\ IsSession(r') /\ r'.hs = r.hs /\ r'.step = r.step
      /\ \A f \in TlsFields \ {"state"} : r'.t[f] = r.t[f]
      /\ r'.tx = IF r.tx_off + take = Pieces THEN 0 ELSE r.tx
      /\ r'.tx_off = IF r.tx_off + take = Pieces THEN 0 ELSE r.tx_off + take
      /\ r'.t.state = IF r.tx_off + take = Pieces /\ r.step = "COMPLETE" /\ r.t.state = "START"
                      THEN "CONNECTED" ELSE r.t.state
  BY <1>1, <1>2 DEF Drained, IsSession, TlsFields
<1>5. (session_dead(r)' <=> session_dead(r)) /\ r'.t.state # "CLOSED"
  BY <1>3, <1>4 DEF session_dead
<1>6. Output'
  <2> DEFINE a == Len(made) - 1
             n == r.tx_off + take
  <2>1. a \in Nat /\ r.tx = a + 1 /\ Len(made) = a + 1
    BY <1>1, <1>3
  <2>2. Left(sent', a, n)
    <3>1. Left(sent, a, r.tx_off)
      BY <1>2, <1>3, <2>1 DEF Output, WholeRecordsOut, Left, InOrder
    <3>2. sent' = sent \o [i \in 1..take |-> <<a + 1, r.tx_off + i>>]
      BY <1>1, <2>1
    <3> HIDE DEF a
    <3> QED BY <1>1, <3>1, <3>2, PiecesOut, Zenon
  <2>3. /\ IsSeq(sent') /\ WholeRecordsOut' /\ Len(sent') = Pieces * a + n
    BY <2>2 DEF Left, InOrder, WholeRecordsOut
  <2>4. Pieces \in Nat \ {0} /\ n \in Nat /\ n <= Pieces
    BY <1>1, <1>3, ClientAssumption, SMTT(30)
  <2> HIDE DEF a, n
  <2>5. CASE n = Pieces
    <3>1. r'.tx = 0 /\ r'.tx_off = 0
      BY <1>4, <2>5 DEF n
    <3>2. Len(sent') = Pieces * (a + 1) + 0
      BY <2>1, <2>3, <2>4, <2>5
    <3>3. Len(made') = a + 1 /\ 0 \in 0..(Pieces - 1)
      BY <1>1, <2>1, <2>4
    <3>4. (r'.step = "COMPLETE" /\ ~session_dead(r)') =>
             Len(made') # 0 /\ IsFinished(made'[Len(made')])
      BY <1>1, <1>2, <1>4, <1>5 DEF Output
    <3>5. IsSeq(made')
      BY <1>1, <1>2 DEF Output
    <3> QED BY <1>5, <2>3, <3>1, <3>2, <3>3, <3>4, <3>5 DEF Output
  <2>6. CASE n # Pieces
    <3>1. r'.tx = r.tx /\ r'.tx_off = n
      BY <1>4, <2>6 DEF n
    <3>2. n \in 0..(Pieces - 1) /\ Len(sent') = Pieces * (Len(made) - 1) + n /\ r.tx = Len(made)
      BY <1>3, <2>1, <2>3, <2>4, <2>6 DEF a
    <3> QED BY <1>1, <1>2, <1>4, <1>5, <2>3, <3>1, <3>2, SMTT(30) DEF Output
  <2> QED BY <2>5, <2>6
<1>7. Turns'
  BY <1>1, <1>2, <1>4, <1>5 DEF Turns
<1>8. session_dead(r) => Wiped(r)'
  BY <1>4 DEF IInv, Wiped, TlsFields
<1>9. ~session_dead(r) => Flow(r') /\ Holds(r') /\ Loaded'
  <2> SUFFICES ASSUME ~session_dead(r) PROVE Flow(r') /\ Holds(r') /\ Loaded'
    OBVIOUS
  <2>1. Flow(r) /\ Holds(r) /\ Loaded
    BY DEF IInv
  <2>2. /\ \A f \in TlsFields \ {"buf", "rd", "state"} : r'.t[f] = r.t[f]
        /\ r'.t.rd = r.t.rd /\ r'.t.cfg = r.t.cfg /\ r'.t.epoch = r.t.epoch
    BY <1>4 DEF TlsFields
  <2>3. Flow(r') /\ Holds(r')
    BY <1>4, <2>1, <2>2, SameFlow
  <2>4. Loaded'
    BY <1>1, <1>4, <2>1, <2>2 DEF Loaded, EpochChecked
  <2> QED BY <2>3, <2>4
<1> QED BY <1>4, <1>5, <1>6, <1>7, <1>8, <1>9 DEF IInv

\* Either close leaves a wiped session with nothing staged.  ch_close meets only a
\* connected one, whose output has all left.
LEMMA CloseStep ==
    ASSUME IInv, tcp_close \/ tls_close
    PROVE  IInv'
<1> DEFINE w == wipe(r)
<1>1. IsSession(r) /\ Turns /\ Output /\ (~session_dead(r) => Holds(r))
  BY DEF IInv
<1>2. /\ IsSession(w) /\ Wiped(w) /\ w.step = r.step /\ w.tx = r.tx /\ w.tx_off = r.tx_off
  BY <1>1, WipeFacts
<1>3. /\ ~driving /\ driving' = driving /\ sent' = sent
      /\ \/ made' = made
         \/ \E rec : made' = Append(made, rec)
  BY DEF tcp_close, tls_close
<1>4. IsSeq(made') /\ IsSeq(sent') /\ WholeRecordsOut'
  <2>1. IsSeq(made) /\ IsSeq(sent) /\ WholeRecordsOut
    BY <1>1 DEF Output
  <2>2. IsSeq(made')
    <3>1. CASE made' = made
      BY <2>1, <3>1
    <3>2. CASE \E rec : made' = Append(made, rec)
      <4>1. PICK rec : made' = Append(made, rec)
        BY <3>2
      <4>2. IsSeq(made)
        BY <2>1
      <4>3. IsSeq(Append(made, rec))
        BY <4>2, Heard
      <4> QED BY <4>1, <4>3
    <3> QED BY <1>3, <3>1, <3>2
  <2> QED BY <1>3, <2>1, <2>2 DEF WholeRecordsOut
<1>5. /\ IsSession(r') /\ Wiped(r') /\ r'.t.state = "CLOSED"
      /\ r'.tx = 0 /\ r'.tx_off = 0
  <2>1. CASE tcp_close
    <3>1. r' = [w EXCEPT !.t.state = "CLOSED", !.tx = 0, !.tx_off = 0]
      BY <2>1 DEF tcp_close
    <3> HIDE DEF w
    <3> QED BY <1>2, <3>1 DEF IsSession, TlsFields, Wiped
  <2>2. CASE tls_close
    <3>1. r' = [w EXCEPT !.t.state = "CLOSED", !.hs = r.hs, !.tx = r.tx] /\ r.t.state = "CONNECTED"
      BY <2>2 DEF tls_close
    <3>2. r.step = "COMPLETE" /\ r.tx = 0 /\ r.tx_off = 0 /\ ~session_dead(r)
      BY <1>1, <3>1 DEF Turns, Output, session_dead
    <3>3. r.hs = NoHs
      BY <1>1, <3>2 DEF Holds
    <3> HIDE DEF w
    <3> QED BY <1>2, <3>1, <3>2, <3>3, BlankShape DEF IsSession, TlsFields, Wiped
  <2> QED BY <2>1, <2>2
<1>6. session_dead(r)' /\ 0 \in 0..(Pieces - 1)
  BY <1>5, ClientAssumption DEF session_dead
<1>7. Output'
  BY <1>4, <1>5, <1>6 DEF Output
<1>8. Turns'
  BY <1>1, <1>3, <1>5, <1>6 DEF Turns
<1> QED BY <1>5, <1>6, <1>7, <1>8 DEF IInv

-----------------------------------------------------------------------------
(* The first state *)

\* What tlsi_epoch_init leaves of a zeroed session that it accepts.
LEMMA EpochInitFacts ==
    ASSUME NEW cfg, NEW stored, NEW res, res = EpochInit(Blank(cfg), stored)
    PROVE  /\ IsSession(res.h) /\ res.ok \in BOOLEAN
           /\ SameBut(Blank(cfg), res.h, {"epoch", "epoch_seen", "epoch_status"}, {})
           /\ res.h.hs = NoHs
           /\ res.ok /\ EpochChecked(Blank(cfg)) => res.h.t.epoch = stored
<1> DEFINE b      == Blank(cfg)
           loaded == [b EXCEPT !.t.epoch = stored]
           ticket == [loaded EXCEPT !.t.epoch_seen = cfg.ticket_epoch]
           Named(s) == [ticket EXCEPT !.t.epoch_status = s]
           Kept(g) == /\ IsSession(g)
                      /\ SameBut(b, g, {"epoch", "epoch_seen", "epoch_status"}, {})
                      /\ g.hs = NoHs
<1>1. IsSession(b) /\ b.hs = NoHs /\ b.t.cfg = cfg
  <2>1. IsSession(b)
    BY BlankShape
  <2> QED BY <2>1 DEF Blank, NoTls
<1> HIDE DEF b
<1>2. Kept(b)
  BY <1>1 DEF SameBut
<1>3. Kept(loaded) /\ loaded.t.epoch = stored
  BY <1>1 DEF IsSession, TlsFields, SameBut
<1> HIDE DEF loaded
<1>4. Kept(ticket) /\ ticket.t.epoch = stored
  BY <1>3 DEF IsSession, TlsFields, SameBut
<1> HIDE DEF ticket
<1>5. \A s : Kept(Named(s)) /\ Named(s).t.epoch = stored
  BY <1>4, SMTT(30) DEF IsSession, TlsFields, SameBut
<1>6. \/ res = Ok(b) /\ ~EpochChecked(b)
      \/ res = [ok |-> FALSE, h |-> b]
      \/ res = Ok(loaded) \/ res = [ok |-> FALSE, h |-> loaded]
      \/ \E s : res = [ok |-> FALSE, h |-> Named(s)] \/ res = Ok(Named(s))
  BY <1>1, ZenonT(40) DEF EpochInit, b, loaded, ticket
<1> HIDE DEF Named, Kept
<1>7. /\ res.ok \in BOOLEAN /\ Kept(res.h)
      /\ res.ok /\ EpochChecked(b) => res.h.t.epoch = stored
  <2>1. CASE res = Ok(b) /\ ~EpochChecked(b)
    <3>1. res.ok = TRUE /\ res.h = b
      BY <2>1 DEF Ok
    <3> QED BY <1>2, <2>1, <3>1, Zenon
  <2>2. CASE res = [ok |-> FALSE, h |-> b]
    <3>1. res.ok = FALSE /\ res.h = b
      BY <2>2
    <3> QED BY <1>2, <3>1, Zenon
  <2>3. CASE res = Ok(loaded)
    <3>1. res.ok = TRUE /\ res.h = loaded
      BY <2>3 DEF Ok
    <3> QED BY <1>3, <3>1, Zenon
  <2>4. CASE res = [ok |-> FALSE, h |-> loaded]
    <3>1. res.ok = FALSE /\ res.h = loaded
      BY <2>4
    <3> QED BY <1>3, <3>1, Zenon
  <2>5. CASE \E s : res = [ok |-> FALSE, h |-> Named(s)] \/ res = Ok(Named(s))
    <3>1. PICK s : res = [ok |-> FALSE, h |-> Named(s)] \/ res = Ok(Named(s))
      BY <2>5
    <3>2. CASE res = [ok |-> FALSE, h |-> Named(s)]
      <4>1. res.ok = FALSE /\ res.h = Named(s)
        BY <3>2
      <4> QED BY <1>5, <4>1, Zenon
    <3>3. CASE res = Ok(Named(s))
      <4>1. res.ok = TRUE /\ res.h = Named(s)
        BY <3>3 DEF Ok
      <4> QED BY <1>5, <4>1, Zenon
    <3> QED BY <3>1, <3>2, <3>3
  <2> QED BY <1>6, <2>1, <2>2, <2>3, <2>4, <2>5
<1> QED BY <1>7, SMTT(30) DEF Kept, b

\* A session that ch_tcp_init refused has nothing but the epoch fields.
LEMMA RefusedInit ==
    ASSUME NEW h
    PROVE  LET g == refuse_init(h) IN
           /\ IsSession(g) /\ Wiped(g) /\ g.t.state = "FAILED" /\ g.tx = 0 /\ g.tx_off = 0
<1> DEFINE b == Blank(h.t.cfg)
<1>1. IsSession(b) /\ Wiped(b) /\ b.tx = 0 /\ b.tx_off = 0
  <2>1. IsSession(b)
    BY BlankShape, SMTT(30)
  <2> QED BY <2>1, Zenon DEF Blank, NoTls, Wiped
<1> HIDE DEF b
<1> QED BY <1>1, Zenon DEF refuse_init, b, IsSession, TlsFields, Wiped

\* a zeroed session with the epoch fields of tlsi_epoch_init
Fresh(cfg, h) ==
    /\ IsSession(h) /\ h.hs = NoHs
    /\ SameBut(Blank(cfg), h, {"epoch", "epoch_seen", "epoch_status"}, {})

\* what ch_tcp_init makes of it
Begun(h) ==
    [hsf_build_client_hello(hsf_begin([h EXCEPT !.hs.alert = "decode_error"]))
        EXCEPT !.step = "AWAIT_SERVER_HELLO", !.tx = 1]

\* the first hello is out
Opened(cfg, h, g) ==
    /\ IsSession(g) /\ g.t.cfg = cfg /\ g.t.state = "START" /\ g.t.epoch = h.t.epoch
    /\ g.step = "AWAIT_SERVER_HELLO" /\ g.tx = 1 /\ g.tx_off = 0
    /\ HelloSent(g) /\ g.hs.s_hs = NoSecret /\ g.hs.leaf = NoLeaf

\* A session that ch_tcp_init accepts has sent its first hello.
LEMMA AcceptedInit ==
    ASSUME NEW cfg, NEW h, Fresh(cfg, h), NEW g, g = Begun(h)
    PROVE  Opened(cfg, h, g)
<1> DEFINE a   == [h EXCEPT !.hs.alert = "decode_error"]
           b   == hsf_begin(a)
           hi  == ClientHello(b)
           out == Hear(b, hi)
<1>1. h.t.cfg = cfg /\ h.t.state = "START" /\ h.tx_off = 0
  BY Zenon DEF Fresh, SameBut, TlsFields, Blank, NoTls
<1>2. /\ IsSession(a) /\ a.t = h.t /\ a.tx_off = h.tx_off
      /\ a.hs.s_hs = NoSecret /\ a.hs.leaf = NoLeaf
      /\ a.hs.suite = "none" /\ a.hs.retry_group = "none"
  BY DEF Fresh, IsSession, HsFields, NoHs
<1> HIDE DEF a
<1>3. /\ IsSession(b) /\ b.tx_off = a.tx_off /\ b.t.transcript = << >>
      /\ b.t.cfg = a.t.cfg /\ b.t.state = a.t.state /\ b.t.epoch = a.t.epoch
      /\ b.hs.s_hs = a.hs.s_hs /\ b.hs.leaf = a.hs.leaf
      /\ b.hs.suite = a.hs.suite /\ b.hs.retry_group = a.hs.retry_group
      /\ b.hs.early = IF PskOffered(a) THEN "psk" ELSE "zero"
  BY <1>2, ZenonT(40) DEF hsf_begin, IsSession, HsFields, TlsFields
<1> HIDE DEF b
<1>4. /\ IsSession(out) /\ SameBut(b, out, {"transcript"}, {}) /\ out.hs = b.hs
      /\ out.t.transcript = Append(b.t.transcript, hi)
  BY <1>3, HearFacts, Zenon
<1>5. /\ out.t.cfg = b.t.cfg /\ out.t.state = b.t.state /\ out.t.epoch = b.t.epoch
      /\ out.tx_off = b.tx_off
  BY <1>4 DEF SameBut, TlsFields
<1>6. g = [out EXCEPT !.step = "AWAIT_SERVER_HELLO", !.tx = 1]
  BY DEF Begun, hsf_build_client_hello, a, b
<1>7. /\ hi.type = "client_hello" /\ hi.suites = b.t.cfg.suites
      /\ hi.shares = HelloShares(b) /\ hi.cookie = b.hs.cookie
      /\ PskOffered(b) => hi.tickets # << >>
  BY HelloFacts
<1> HIDE DEF out, hi
<1>8. /\ IsSession(g) /\ g.t = out.t /\ g.hs = b.hs
      /\ g.step = "AWAIT_SERVER_HELLO" /\ g.tx = 1 /\ g.tx_off = out.tx_off
  BY <1>4, <1>6, SMTT(30) DEF IsSession
<1>9. HelloSent(g)
  <2>1. g.t.transcript = << hi >> /\ g.t.cfg = b.t.cfg /\ g.t.cfg = a.t.cfg
    BY <1>3, <1>4, <1>5, <1>8
  <2>2. IsSeq(<< hi >>) /\ Len(<< hi >>) = 1 /\ << hi >>[1] = hi
    <3>1. << hi >> \in Seq({hi})
      OBVIOUS
    <3> QED BY <3>1, ZenonT(40) DEF IsSeq
  <2>3. /\ HelloShares(g) = HelloShares(b) /\ (PskOffered(g) <=> PskOffered(b))
        /\ (PskOffered(g) <=> PskOffered(a))
    BY <1>8, <2>1 DEF HelloShares, PskOffered
  <2>4. g.hs.suite = "none" /\ g.hs.retry_group = "none" /\ (PskOffered(g) => g.hs.early = "psk")
    BY <1>2, <1>3, <1>8, <2>3
  <2>5. hi.suites = g.t.cfg.suites /\ hi.cookie = g.hs.cookie
    BY <1>7, <1>8, <2>1
  <2>6. g.step = "AWAIT_SERVER_HELLO" /\ hi.type = "client_hello" /\ hi.shares = HelloShares(g)
        /\ (PskOffered(g) => hi.tickets # << >>)
    BY <1>7, <1>8, <2>3
  <2> DEFINE tr == g.t.transcript
             n  == Len(tr)
  <2>7. IsSeq(tr) /\ n = 1 /\ tr[n] = hi
    BY <2>1, <2>2
  <2> HIDE DEF tr, n
  <2>8. n = IF g.step = "AWAIT_RETRY_HELLO" THEN 3 ELSE 1
    BY <2>6, <2>7
  <2> QED BY <2>4, <2>5, <2>6, <2>7, <2>8, SMTT(30) DEF HelloSent, tr, n
<1> QED BY <1>1, <1>2, <1>3, <1>5, <1>8, <1>9, ZenonT(40) DEF Opened

\* Every initial state satisfies the invariant.
LEMMA InitIInv == Init => IInv
<1> SUFFICES ASSUME Init PROVE IInv
  OBVIOUS
<1>1. PICK cfg \in Configs : cfg.stored = store /\ r = tcp_init(cfg, store)
  BY DEF Init
<1>2. /\ driving = FALSE /\ sent = << >>
      /\ made = IF session_dead(r) THEN << >>
                ELSE << PlainRecord("handshake", Cells(Head(r.t.transcript))) >>
  BY DEF Init
<1> DEFINE b   == Blank(cfg)
           res == EpochInit(b, store)
<1>3. /\ IsSession(res.h) /\ res.ok \in BOOLEAN /\ res.h.hs = NoHs
      /\ SameBut(b, res.h, {"epoch", "epoch_seen", "epoch_status"}, {})
      /\ res.ok /\ EpochChecked(b) => res.h.t.epoch = store
  BY EpochInitFacts
<1>4. IF ~cfg.valid THEN r = refuse_init(b)
      ELSE IF ~res.ok THEN r = refuse_init(res.h)
      ELSE r = Begun(res.h)
  BY <1>1 DEF tcp_init, Begun
<1>5. Pieces \in Nat \ {0} /\ 0 \in 0..(Pieces - 1) /\ cfg.stored \in Nat
  BY ClientAssumption
<1>6. IsSeq(<< >>) /\ Len(<< >>) = 0
  <2>1. << >> \in Seq({})
    OBVIOUS
  <2> QED BY <2>1 DEF IsSeq
<1>7. WholeRecordsOut
  BY <1>2, <1>6, SMTT(30) DEF WholeRecordsOut
<1>8. b.t.cfg = cfg
  BY SMTT(30) DEF Blank, NoTls
<1> HIDE DEF res, b
<1>9. CASE ~cfg.valid \/ ~res.ok
  <2>1. \E h : r = refuse_init(h)
    BY <1>4, <1>9
  <2>2. PICK h : r = refuse_init(h)
    BY <2>1
  <2>3. IsSession(r) /\ Wiped(r) /\ r.t.state = "FAILED" /\ r.tx = 0 /\ r.tx_off = 0
    BY <2>2, RefusedInit
  <2>4. session_dead(r) /\ made = << >>
    BY <1>2, <2>3 DEF session_dead
  <2>5. Len(sent) = Pieces * Len(made) + 0
    BY <1>2, <1>5, <1>6, <2>4
  <2>6. Output
    BY <1>2, <1>5, <1>6, <1>7, <2>3, <2>4, <2>5, SMTT(30) DEF Output
  <2>7. Turns
    BY <1>2, <2>3, ZenonT(40) DEF Turns
  <2> QED BY <2>3, <2>4, <2>6, <2>7 DEF IInv
<1>10. CASE cfg.valid /\ res.ok
  <2>1. r = Begun(res.h)
    BY <1>4, <1>10
  <2>2. /\ IsSession(r) /\ r.t.cfg = cfg /\ r.t.state = "START" /\ r.t.epoch = res.h.t.epoch
        /\ r.step = "AWAIT_SERVER_HELLO" /\ r.tx = 1 /\ r.tx_off = 0
        /\ HelloSent(r) /\ r.hs.s_hs = NoSecret /\ r.hs.leaf = NoLeaf
    <3>1. Fresh(cfg, res.h)
      BY <1>3 DEF b, Fresh
    <3>2. Opened(cfg, res.h, r)
      BY <2>1, <3>1, AcceptedInit
    <3> QED BY <3>2 DEF Opened
  <2>3. ~session_dead(r)
    BY <2>2 DEF session_dead
  <2> DEFINE hi == PlainRecord("handshake", Cells(Head(r.t.transcript)))
  <2>4. made = << hi >> /\ IsSeq(made) /\ Len(made) = 1
    <3>1. made = << hi >>
      BY <1>2, <2>3
    <3>2. << hi >> \in Seq({hi}) /\ Len(<< hi >>) = 1
      OBVIOUS
    <3> QED BY <3>1, <3>2, ZenonT(40) DEF IsSeq
  <2> HIDE DEF hi
  <2>5. Len(sent) = Pieces * (Len(made) - 1) + 0
    BY <1>2, <1>5, <1>6, <2>4
  <2>6. Output
    BY <1>2, <1>5, <1>6, <1>7, <2>2, <2>4, <2>5 DEF Output
  <2>7. Turns
    BY <1>2, <2>2, ZenonT(40) DEF Turns
  <2>8. Flow(r) /\ Holds(r)
    BY <2>2, Zenon DEF Flow, Holds, AwaitsHello, Protected, Steps
  <2>9. Loaded
    BY <1>1, <1>3, <1>5, <1>8, <1>10, <2>2 DEF Loaded, EpochChecked
  <2> QED BY <2>2, <2>3, <2>6, <2>7, <2>8, <2>9 DEF IInv
<1> QED BY <1>3, <1>9, <1>10

-----------------------------------------------------------------------------
(* The invariant, and what follows from it *)

\* Every record of the peer is one that ch_tcp_in reads.
LEMMA PeerStep ==
    ASSUME IInv, PeerHandshake \/ PeerRun \/ PeerOther
    PROVE  IInv' /\ store' = store
<1>1. \E rec : tcp_in(rec)
  BY DEF PeerHandshake, PeerRun, PeerOther
<1>2. PICK rec : tcp_in(rec)
  BY <1>1
<1>3. store' = store
  BY <1>2 DEF tcp_in
<1> QED BY <1>2, <1>3, RecordStep

\* A state that does not change, or whose drive loop ends, keeps the invariant.
LEMMA IdleStep ==
    ASSUME IInv, drive_done \/ UNCHANGED vars
    PROVE  IInv'
<1>1. /\ r' = r /\ store' = store /\ made' = made /\ sent' = sent
      /\ driving' = FALSE \/ driving' = driving
  BY DEF drive_done, vars
<1>2. IsSession(r') /\ (session_dead(r)' => Wiped(r'))
  BY <1>1 DEF IInv, session_dead
<1>3. Turns'
  <2>1. driving' = FALSE \/ (driving' <=> driving)
    BY <1>1
  <2>2. driving' \in BOOLEAN
    BY <1>1, Zenon DEF IInv, Turns
  <2> QED BY <1>1, <2>1, <2>2 DEF IInv, Turns, session_dead
<1>4. Output'
  BY <1>1 DEF IInv, Output, WholeRecordsOut, session_dead
<1>5. ~session_dead(r)' => Flow(r') /\ Holds(r') /\ Loaded'
  BY <1>1 DEF IInv, Loaded, session_dead
<1> QED BY <1>2, <1>3, <1>4, <1>5 DEF IInv

\* Every step keeps the invariant.
LEMMA NextIInv == IInv /\ [Next]_vars => IInv'
<1> SUFFICES ASSUME IInv, [Next]_vars PROVE IInv'
  OBVIOUS
<1>1. CASE PeerHandshake \/ PeerRun \/ PeerOther
  BY <1>1, PeerStep
<1>2. CASE tcp_in_overlong \/ drive_oversize \/ step_complete
  BY <1>2, RefusalStep
<1>3. CASE step_retry
  BY <1>3, RetryStep
<1>4. CASE step_server_hello
  BY <1>4, ServerHelloStep
<1>5. CASE step_encrypted_extensions
  BY <1>5, ExtensionsStep
<1>6. CASE step_certificate
  BY <1>6, CertificateStep
<1>7. CASE step_certificate_verify
  BY <1>7, VerifyStep
<1>8. CASE \E failed \in BOOLEAN : step_finished(failed)
  <2>1. \E failed : step_finished(failed)
    BY <1>8
  <2> QED BY <2>1, FinishedStep
<1>9. CASE \E take \in 1..Pieces : tcp_out(take)
  BY <1>9, OutStep
<1>10. CASE tcp_close \/ tls_close
  BY <1>10, CloseStep
<1>11. CASE drive_done \/ UNCHANGED vars
  BY <1>11, IdleStep
<1> QED BY <1>1, <1>2, <1>3, <1>4, <1>5, <1>6, <1>7, <1>8, <1>9, <1>10, <1>11, SMTT(30) DEF Next

\* The inductive invariant holds in every reachable state of the client, whatever
\* the peer sends and the caller does.
THEOREM Invariance == Spec => []IInv
<1>1. Init => IInv
  BY InitIInv
<1>2. IInv /\ [Next]_vars => IInv'
  BY NextIInv
<1> QED BY <1>1, <1>2, PTL DEF Spec

\* A client that completes has heard exactly a legal flight, with every message
\* of it checked, and its application secrets cover that flight.
THEOREM CompleteIsAuthenticatedAlways == Spec => []CompleteIsAuthenticated
<1>1. IInv => CompleteIsAuthenticated
  BY SMTT(30) DEF IInv, Flow, CompleteIsAuthenticated
<1> QED BY <1>1, Invariance, PTL

\* What leaves is whole records in the order they were made.
THEOREM WholeRecordsOutAlways == Spec => []WholeRecordsOut
<1>1. IInv => WholeRecordsOut
  BY DEF IInv, Output
<1> QED BY <1>1, Invariance, PTL

\* A zeroed handshake state holds no secret and names no alert.
LEMMA NoHsFacts ==
    NoHs.kex = {} /\ NoHs.s_hs = NoSecret /\ [NoHs EXCEPT !.alert = "none"] = NoHs
<1>1. NoHs.kex = {} /\ NoHs.s_hs = NoSecret /\ NoHs.alert = "none"
  BY DEF NoHs
<1>2. NoHs = [f \in DOMAIN NoHs |-> NoHs[f]]
  BY ZenonT(40) DEF NoHs
<1>3. [NoHs EXCEPT !.alert = "none"] = [f \in DOMAIN NoHs |-> NoHs[f]]
  BY <1>1
<1> QED BY <1>1, <1>2, <1>3

\* No secret outlives its use, and a failed or closed session keeps none.
THEOREM SecretsDieAlways == Spec => []SecretsDie
<1>1. IInv => SecretsDie
  <2> SUFFICES ASSUME IInv PROVE SecretsDie
    OBVIOUS
  <2>1. CASE session_dead(r)
    <3>1. Wiped(r)
      BY <2>1 DEF IInv
    <3>2. r.hs = NoHs
      BY <3>1 DEF Wiped
    <3>3. r.hs.kex = {} /\ r.hs.s_hs = NoSecret /\ [r.hs EXCEPT !.alert = "none"] = NoHs
      BY <3>2, NoHsFacts
    <3> QED BY <3>1, <3>2, <3>3 DEF SecretsDie, Wiped
  <2>2. CASE ~session_dead(r)
    <3>1. Holds(r)
      BY <2>2 DEF IInv
    <3>2. CASE r.step = "COMPLETE"
      <4>1. r.hs = NoHs
        BY <3>1, <3>2 DEF Holds
      <4>2. r.hs.kex = {} /\ r.hs.s_hs = NoSecret /\ [r.hs EXCEPT !.alert = "none"] = NoHs
        BY <4>1, NoHsFacts
      <4> QED BY <2>2, <4>2 DEF SecretsDie
    <3>3. CASE r.step \in AwaitsHello
      BY <2>2, <3>1, <3>3 DEF SecretsDie, Holds, AwaitsHello
    <3>4. CASE r.step \in Protected
      BY <2>2, <3>1, <3>4, SMTT(30) DEF SecretsDie, Holds, Protected
    <3> QED BY <3>1, <3>2, <3>3, <3>4 DEF Holds, Steps, AwaitsHello, Protected
  <2> QED BY <2>1, <2>2
<1> QED BY <1>1, Invariance, PTL

\* A session is connected only once every piece of its Finished has left, and
\* then holds the application keys at sequence number 0 and nothing of the
\* handshake.
THEOREM ConnectedIsReadyAlways == Spec => []ConnectedIsReady
<1>1. IInv => ConnectedIsReady
  <2> SUFFICES ASSUME IInv, r.t.state = "CONNECTED" PROVE ConnectedIsReady
    BY Zenon DEF ConnectedIsReady
  <2>1. r.step = "COMPLETE" /\ r.tx = 0 /\ ~session_dead(r) /\ Output
    BY DEF IInv, Turns, session_dead
  <2>2. /\ r.t.keys = TRUE /\ r.hs = NoHs
        /\ r.t.rd = [key |-> r.t.rd_secret, seq |-> 0]
        /\ r.t.wr = [key |-> r.t.wr_secret, seq |-> 0]
    BY <2>1, SMTT(30) DEF IInv, Holds
  <2> DEFINE i == Len(made)
             a == i - 1
  <2>3. /\ i \in Nat /\ i # 0 /\ IsFinished(made[i]) /\ Len(sent) = Pieces * i + r.tx_off
        /\ r.tx_off = 0
    BY <2>1, Heard DEF Output, session_dead
  <2> HIDE DEF i
  <2>4. Pieces \in Nat \ {0} /\ a \in Nat /\ a + 1 = i /\ Len(sent) = Pieces * a + Pieces
    BY <2>3, ClientAssumption
  <2> HIDE DEF a
  <2>5. ASSUME NEW p \in 1..Pieces PROVE \E j \in 1..Len(sent) : sent[j] = <<i, p>>
    <3> DEFINE j == Pieces * a + p
               b == p - 1
    <3>1. b \in 0..(Pieces - 1) /\ b + 1 = p /\ p \in Nat
      BY <2>4
    <3>2. Pieces * a \in Nat
      BY <2>4
    <3>3. j \in 1..Len(sent) /\ j - 1 = Pieces * a + b
      BY <2>4, <3>1, <3>2
    <3> HIDE DEF j, b
    <3>4. (Pieces * a + b) \div Pieces = a /\ (Pieces * a + b) % Pieces = b
      BY <2>4, <3>1, Multiples, Zenon
    <3>5. sent[j] = << ((j - 1) \div Pieces) + 1, ((j - 1) % Pieces) + 1 >>
      BY <2>1, <3>3 DEF Output, WholeRecordsOut
    <3>6. sent[j] = <<a + 1, b + 1>>
      BY <3>3, <3>4, <3>5
    <3> QED BY <2>4, <3>1, <3>3, <3>6
  <2>6. i \in 1..Len(made) /\ made[i].inner = "handshake" /\ made[i].dir.key.label = "c hs"
    <3>1. i \in 1..i
      BY <2>3
    <3> QED BY <2>3, <3>1, Zenon DEF IsFinished, i
  <2> QED BY <2>2, <2>5, <2>6, ZenonT(40) DEF ConnectedIsReady
<1> QED BY <1>1, Invariance, PTL

\* The step that moves the stored epoch is the one that takes the server's
\* Finished, and the certificate it moves to was shown and signed for.
LEMMA EpochStep ==
    ASSUME IInv, NEW failed, step_finished(failed), store' # store
    PROVE  /\ store' > store
           /\ r.step = "AWAIT_FINISHED" /\ r'.step = "COMPLETE"
           /\ \E i \in 1..Len(r'.t.transcript) :
                 /\ r'.t.transcript[i].type = "certificate"
                 /\ r'.t.transcript[i].epoch = store'
                 /\ store' <= store + EpochBound
<1> DEFINE m    == NextMsg(r)
           read == hsf_read_finished(Taken(r), m)
           g    == read.h
           done == hsf_complete(hsa_epoch_commit(g, failed))
           k    == Connected(done)
           rec  == SealedRecord(done.t.wr, "handshake", Cells(ClientFinished(g)))
           tr   == r.t.transcript
           new  == r'.t.transcript
<1>1. ~session_dead(r) /\ r.step = "AWAIT_FINISHED" /\ Flow(r) /\ Loaded
  BY DEF step_finished, At, IInv, Turns
<1>2. /\ read.ok /\ EpochRaised(g) /\ store' = g.hs.leaf.epoch
      /\ Stage(k, rec)
  BY DEF step_finished
<1>3. Admits(r, m, g)
  BY <1>1, <1>2, FinishedRead
<1> HIDE DEF m, read, g, rec
<1>4. Completes(r, done)
  BY <1>3, CompletedFacts
<1> HIDE DEF done
<1>5. /\ IsSession(done) /\ Len(done.t.transcript) = Len(tr) + 2
      /\ \A i \in 1..Len(tr) : done.t.transcript[i] = tr[i]
  BY <1>4, ZenonT(40) DEF Completes
<1>6. IsSession(k) /\ k.step = "COMPLETE" /\ k.t.transcript = done.t.transcript
  BY <1>5, ConnectedFacts, ZenonT(40) DEF TlsFields
<1> HIDE DEF k
<1>7. r'.step = "COMPLETE" /\ new = done.t.transcript
  BY <1>2, <1>6 DEF Stage, IsSession
<1>8. g.hs.leaf = r.hs.leaf /\ g.t.epoch = r.t.epoch /\ g.t.cfg = r.t.cfg
  BY <1>3 DEF Admits, SameBut, TlsFields, HsFields
<1>9. EpochChecked(r) /\ r.hs.leaf.epoch_ok /\ r.hs.leaf.epoch > r.t.epoch
  BY <1>2, <1>8 DEF EpochRaised, EpochChecked
<1>10. store = r.t.cfg.stored /\ r.t.epoch = store /\ store \in Nat
  BY <1>1, <1>9 DEF Loaded
<1>11. r.hs.leaf # NoLeaf
  BY <1>9, SMTT(30) DEF NoLeaf
<1>12. PICK at \in {2, 4} :
          /\ Greeted(r, at) /\ ~r.t.psk_selected /\ LeafShown(r, at + 2)
          /\ Len(tr) = at + 3
  BY <1>1, <1>11, Zenon DEF Flow
<1> DEFINE n == at + 2
<1>13. /\ tr[n].type = "certificate" /\ tr[n].epoch = store'
       /\ store' \in store..(store + EpochBound)
  BY <1>2, <1>8, <1>9, <1>10, <1>12 DEF LeafShown
<1>14. n \in 1..Len(tr) /\ n \in 1..(Len(tr) + 2)
  BY <1>12
<1> HIDE DEF n, tr, new
<1>15. n \in 1..Len(new) /\ new[n] = tr[n]
  BY <1>5, <1>7, <1>14, SMTT(30) DEF tr
<1>16. store' > store /\ store' <= store + EpochBound
  BY <1>2, <1>8, <1>9, <1>10, <1>13
<1> QED BY <1>1, <1>7, <1>13, <1>15, <1>16 DEF new

\* The stored epoch moves only forward, only in the step that completes the
\* handshake, and only to the epoch of the certificate that step authenticated.
THEOREM EpochNeedsProofAlways == Spec => EpochNeedsProof
<1> DEFINE A == store' # store =>
                   /\ store' > store
                   /\ r.step = "AWAIT_FINISHED" /\ r'.step = "COMPLETE"
                   /\ \E i \in 1..Len(r'.t.transcript) :
                         /\ r'.t.transcript[i].type = "certificate"
                         /\ r'.t.transcript[i].epoch = store'
                         /\ store' <= store + EpochBound
<1>1. IInv /\ [Next]_vars => [A]_vars
  <2> SUFFICES ASSUME IInv, Next, store' # store PROVE A
    OBVIOUS
  <2>1. \E failed : step_finished(failed)
    <3>1. ~(PeerHandshake \/ PeerRun \/ PeerOther)
      BY PeerStep
    <3> QED BY <3>1 DEF Next, tcp_in_overlong, drive_done, drive_oversize, step_retry,
              step_server_hello, step_encrypted_extensions, step_certificate,
              step_certificate_verify, step_complete, tcp_out, tcp_close, tls_close
  <2> QED BY <2>1, EpochStep
<1>2. Spec => [][A]_vars
  BY <1>1, Invariance, PTL DEF Spec
<1> QED BY <1>2 DEF EpochNeedsProof

=============================================================================
