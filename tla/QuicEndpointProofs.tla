------------------------- MODULE QuicEndpointProofs -------------------------
(***************************************************************************)
(* Proofs about one QUIC endpoint, for every peer, every configuration,    *)
(* buffer and sink, and every order of the calls its application makes:    *)
(* the two invariants, and what holds of an endpoint in either role.  The  *)
(* steps of a client's handshake are in QuicClientProofs, those of a       *)
(* server's and the theorems in QuicServerProofs.                          *)
(*                                                                         *)
(* IInv is inductive.  A session that goes on (Alive) holds behind every   *)
(* set bit the keys that bit names, and what it waits for says which bits  *)
(* may be set and which keys are ready though their bit is not: a server   *)
(* holds both application keys, the read bit apart, while it waits for the *)
(* client's Finished.  One that ended (Dead) keeps only the write keys     *)
(* whose bit is set.  Waits says where the bytes of a delivery are, and    *)
(* Closed that a level which was closed has no write key any more.         *)
(*                                                                         *)
(* Story is inductive beside IInv.  It says what the step of a session     *)
(* that goes on stands for.  Of a client (ClientStory): the messages of    *)
(* its transcript in RFC 9846's order up to that step, the handshake keys  *)
(* over the hellos, and the hellos and the Finished each staged or handed  *)
(* over.  Of a server (ServerStory): nothing said at the application level *)
(* before the client's Finished, and the key that Finished must be under.  *)
(* A staged message is the last of the transcript, so the session reads    *)
(* nothing while it owes one: without that conjunct crypto_out could hand  *)
(* over something else.                                                    *)
(*                                                                         *)
(* A handler only adds to the transcript and touches neither keys nor bits *)
(* (Answers): each has a lemma that says so, and the lemmas on steps then  *)
(* need to look at the keys alone.  For the story each handler has a lemma *)
(* on what it makes of the transcript and the secrets, and each step one   *)
(* that the next step's story follows.                                     *)
(***************************************************************************)
EXTENDS QuicEndpoint, Integers, TLAPS

-----------------------------------------------------------------------------
(* The shape of a session: its fields, whatever they hold *)

TlsFields ==
    {"cfg", "state", "keys", "rd", "wr", "rd_secret", "wr_secret", "res_master",
     "transcript", "suite", "group", "sigalg", "psk_selected", "alpn_selected", "sni",
     "hrr_sent", "peer_limit", "alert_sent", "alert_received", "epoch", "epoch_seen",
     "epoch_status", "epoch_store_failed", "quic_negotiated_version", "buf"}

HsFields ==
    {"alert", "kex", "early", "cookie", "retry_group", "suite", "handshake_secret",
     "c_hs", "s_hs", "master", "server_finished_ok", "encrypted", "leaf", "ticket_auth",
     "level"}

\* what is QUIC's own in a session
OwnFields ==
    {"step", "rx_level", "tx_level", "tx", "alert", "error_code", "key_phase", "ready",
     "initial_dcid", "initial_sealed", "open_failures", "handshake_rx", "handshake_tx",
     "handshake_hp_rx", "handshake_hp_tx", "app_tx", "app_rx", "app_hp_rx", "app_hp_tx",
     "made", "room"}

IsSession(h) ==
    /\ DOMAIN h = {"t", "hs"} \cup OwnFields
    /\ DOMAIN h.t = TlsFields
    /\ DOMAIN h.hs = HsFields

\* a sequence, whatever its elements
IsSeq(s) == \E S : s \in Seq(S)

-----------------------------------------------------------------------------
(* What a set bit stands for *)

IsSecret(s) == DOMAIN s = {"label", "early", "group", "over", "ku"}

\* a secret over what was heard, or the start of it
Covers(tr, s) == Len(s.over) \in 0..Len(tr) /\ s.over = Prefix(tr, Len(s.over))

Whose(h, mine, what) ==
    (IF mine = (h.t.cfg.role = "server") THEN ServerLabels ELSE ClientLabels)[what]

KeyRecord == {"secret", "version", "sealed"}
Named(h, keys, label) ==
    /\ DOMAIN keys = KeyRecord
    /\ keys.secret.label = label /\ keys.version = h.t.quic_negotiated_version
    /\ IsSecret(keys.secret) /\ Covers(h.t.transcript, keys.secret)

HandshakeWrites(h) ==
    Named(h, h.handshake_tx, Whose(h, TRUE, "hs")) /\ h.handshake_hp_tx = h.handshake_tx.secret
HandshakeReads(h) ==
    Named(h, h.handshake_rx, Whose(h, FALSE, "hs")) /\ h.handshake_hp_rx = h.handshake_rx.secret
AppWrites(h) ==
    /\ Named(h, h.app_tx, Whose(h, TRUE, "ap")) /\ h.app_tx.secret.ku \in Nat
    /\ h.app_hp_tx = [h.app_tx.secret EXCEPT !.ku = 0]
AppReads(h) ==
    LET rx == h.app_rx IN
    /\ DOMAIN rx = KeySets /\ Named(h, rx["CURRENT"], Whose(h, FALSE, "ap"))
    /\ rx["CURRENT"].secret.ku = h.app_tx.secret.ku
    /\ h.key_phase = h.app_tx.secret.ku % 2
    /\ rx["NEXT"] = quic_keys_update(rx["CURRENT"].secret, rx["CURRENT"].version)
    /\ rx["NEXT"].secret = h.t.rd_secret /\ h.app_tx.secret = h.t.wr_secret

\* the write bits, which a failed session keeps
WriteBits(h) ==
    /\ Ready(h, 0, "WRITE") => h.initial_dcid
    /\ Ready(h, 1, "WRITE") => HandshakeWrites(h)
    /\ Ready(h, 2, "WRITE") => AppWrites(h)
\* a server whose caller discarded the Application level before the Finished
Emptied(h) == h.t.cfg.role = "server" /\ ~Ready(h, 2, "WRITE")
AppKeys(h) == Emptied(h) \/ (AppReads(h) /\ AppWrites(h))
ReadBits(h) ==
    /\ Ready(h, 0, "READ") => h.initial_dcid
    /\ Ready(h, 1, "READ") => HandshakeReads(h)
    /\ Ready(h, 2, "READ") => AppKeys(h)

-----------------------------------------------------------------------------
(* The invariant of the keys *)

HelloSteps == {"AWAIT_SERVER_HELLO", "AWAIT_RETRY_HELLO", "AWAIT_CLIENT_HELLO"}
FlightSteps ==
    {"AWAIT_ENCRYPTED_EXTENSIONS", "AWAIT_CERTIFICATE", "AWAIT_CERTIFICATE_VERIFY",
     "AWAIT_FINISHED"}

\* a session that goes on, by what it waits for
Alive(h) ==
    /\ h.t.state = "START" \/ (h.t.state = "CONNECTED" /\ h.step = "COMPLETE")
    /\ WriteBits(h) /\ ReadBits(h)
    /\ \/ /\ h.step \in HelloSteps /\ h.key_phase = 0 /\ DOMAIN h.app_rx = KeySets
          /\ h.ready \subseteq {0} \X {"READ", "WRITE"}
       \/ /\ h.step \in FlightSteps /\ h.key_phase = 0 /\ DOMAIN h.app_rx = KeySets
          /\ h.ready \subseteq {0, 1} \X {"READ", "WRITE"}
          /\ IsSecret(h.hs.handshake_secret) /\ h.hs.handshake_secret.ku = 0
       \/ /\ h.step = "AWAIT_CLIENT_FINISHED" /\ h.t.cfg.role = "server"
          /\ ~Ready(h, 2, "READ") /\ AppKeys(h)
       \/ /\ h.step = "COMPLETE" /\ h.hs = NoHs
          /\ Ready(h, 2, "WRITE") => Ready(h, 2, "READ")

NoReads(h) ==
    /\ h.handshake_rx = NoKeys /\ h.app_rx = [s \in KeySets |-> NoKeys]
    /\ h.handshake_hp_rx = NoSecret /\ h.app_hp_rx = NoSecret
    /\ \A level \in Levels : ~Ready(h, level, "READ")
NoWrites(h) ==
    /\ ~Ready(h, 0, "WRITE") => ~h.initial_dcid
    /\ ~Ready(h, 1, "WRITE") => h.handshake_tx = NoKeys /\ h.handshake_hp_tx = NoSecret
    /\ ~Ready(h, 2, "WRITE") => h.app_tx = NoKeys /\ h.app_hp_tx = NoSecret

\* a session that ended
Dead(h) ==
    /\ WriteBits(h) /\ NoReads(h) /\ NoWrites(h)
    /\ h.t.state = "CLOSED" => h.ready = {}
    /\ (h.t.state = "FAILED" /\ h.step # "none") =>
           h.alert # "none" /\ h.t.alert_sent = h.alert
    /\ h.hs = NoHs /\ h.t.buf = << >> /\ h.tx = << >>
    /\ h.t.rd_secret = NoSecret /\ h.t.wr_secret = NoSecret /\ h.t.res_master = NoSecret

\* the cells of messages that have a size
CellsOk(s) == IsSeq(s) /\ \A i \in 1..Len(s) : s[i].msg.size \in Nat
\* the same, all of one level
LevelOk(s, level) == CellsOk(s) /\ \A i \in 1..Len(s) : s[i].level = level

\* what waits came at the level the session reads, and the buffer is full when
\* some of it is not in the buffer yet
Waits(h, more) ==
    /\ LevelOk(h.t.buf, h.rx_level) /\ LevelOk(more, h.rx_level)
    /\ Len(h.t.buf) <= BufLen /\ (more # << >> => Len(h.t.buf) = BufLen)

\* a level that was closed has no write key any more
Closed(h, count) ==
    \A level \in Levels :
        \/ count[level] = 0
        \/ count[level] = 1 /\ session_dead(h) /\ ~Ready(h, level, "WRITE")

IInv ==
    /\ IsSession(q) /\ IsSeq(q.t.transcript) /\ CellsOk(cut)
    /\ q.ready \subseteq Levels \X {"READ", "WRITE"}
    /\ driving \in BOOLEAN /\ (~driving => rest = << >>)
    /\ DOMAIN closes = Levels /\ Closed(q, closes)
    /\ IF session_dead(q) THEN ~driving /\ Dead(q) ELSE Alive(q) /\ Waits(q, rest)

-----------------------------------------------------------------------------
(* Sequences *)

\* A message heard leaves the transcript a sequence, and every secret over a part
\* of it a secret over a part of it.
LEMMA HeardMore ==
    ASSUME NEW tr, IsSeq(tr), NEW m
    PROVE  IsSeq(Append(tr, m)) /\ \A s : Covers(tr, s) => Covers(Append(tr, m), s)
<1>1. PICK S : tr \in Seq(S)
  BY DEF IsSeq
<1>2. tr \in Seq(S \cup {m})
  BY <1>1
<1>3. Append(tr, m) \in Seq(S \cup {m})
  BY <1>2
<1>4. IsSeq(Append(tr, m))
  BY <1>3 DEF IsSeq
<1>5. ASSUME NEW n \in 0..Len(tr)
      PROVE  n \in 0..Len(Append(tr, m)) /\ Prefix(Append(tr, m), n) = Prefix(tr, n)
  BY <1>2 DEF Prefix
<1> QED BY <1>4, <1>5, Zenon DEF Covers

\* A secret over all that was heard covers the transcript.
LEMMA CoversAll ==
    ASSUME NEW tr, IsSeq(tr), NEW s, s.over = tr
    PROVE  Covers(tr, s)
<1>1. PICK S : tr \in Seq(S)
  BY DEF IsSeq
<1> QED BY <1>1 DEF Covers, Prefix

\* The fields of a zeroed session.
LEMMA BlankShape == DOMAIN NoHs = HsFields /\ \A cfg : IsSession(Blank(cfg))
<1>1. DOMAIN NoHs = HsFields
  BY DEF NoHs, HsFields
<1>2. ASSUME NEW cfg PROVE DOMAIN NoTls(cfg) = TlsFields
  BY DEF NoTls, TlsFields
<1>3. ASSUME NEW cfg PROVE IsSession(Blank(cfg))
  BY <1>1, <1>2 DEF Blank, IsSession, OwnFields
<1> QED BY <1>1, <1>3

-----------------------------------------------------------------------------
(* What every handler leaves alone *)

KeptOwn == OwnFields \ {"made", "room"}
KeptTls == {"cfg", "state", "rd_secret", "wr_secret", "res_master", "quic_negotiated_version", "buf"}
KeptHs  == {"handshake_secret", "c_hs", "s_hs", "level"}

\* g is h after a handler: what QUIC owns of it is the same but for the sink
Quiet(h, g) ==
    /\ IsSession(g)
    /\ \A f \in KeptOwn : g[f] = h[f]
    /\ \A f \in KeptTls : g.t[f] = h.t[f]
    /\ \A f \in KeptHs : g.hs[f] = h.hs[f]

\* and has heard no less
Grows(h, g) ==
    /\ IsSeq(g.t.transcript)
    /\ \A s : Covers(h.t.transcript, s) => Covers(g.t.transcript, s)

\* a handler's answer on h
Answers(h, res) ==
    /\ res.ok \in BOOLEAN /\ Quiet(h, res.h) /\ Grows(h, res.h)
    /\ ~res.ok => res.h.hs.alert # "none"

\* a session a handler may be given
Open(h) == IsSession(h) /\ IsSeq(h.t.transcript)

\* A handler may follow another.
LEMMA QuietThen ==
    ASSUME NEW a, NEW b, NEW c, Quiet(a, b), Quiet(b, c)
    PROVE  Quiet(a, c)
BY Zenon DEF Quiet

\* So does what they heard.
LEMMA GrowsThen ==
    ASSUME NEW a, NEW b, NEW c, Grows(a, b), Grows(b, c)
    PROVE  Grows(a, c)
BY Zenon DEF Grows

\* And the last one's answer is the answer of both.
LEMMA AnswersThen ==
    ASSUME NEW h, NEW g, Quiet(h, g), Grows(h, g), NEW res, Answers(g, res)
    PROVE  Answers(h, res)
BY QuietThen, GrowsThen, Zenon DEF Answers

\* An answer leaves a session the next handler may be given.
LEMMA AnswersOpen ==
    ASSUME NEW h, NEW res, Answers(h, res)
    PROVE  Open(res.h)
BY Zenon DEF Answers, Open, Quiet, Grows

\* A session that stays is one.
LEMMA StaysQuiet ==
    ASSUME NEW h, Open(h), NEW g, IsSession(g), g.t = h.t, g.hs = h.hs,
           \A f \in KeptOwn : g[f] = h[f]
    PROVE  Quiet(h, g) /\ Grows(h, g)
BY Zenon DEF Open, Quiet, Grows

\* A refusal names its alert and changes nothing else.
LEMMA Refuses ==
    ASSUME NEW h, Open(h), NEW alert, alert # "none"
    PROVE  Answers(h, No(h, alert))
<1> DEFINE g == [h EXCEPT !.hs.alert = alert]
<1>1. /\ IsSession(g) /\ g.t = h.t /\ g.hs.alert = alert
      /\ \A f \in KeptOwn : g[f] = h[f]
      /\ \A f \in KeptHs : g.hs[f] = h.hs[f]
  BY DEF Open, IsSession, OwnFields, HsFields, KeptOwn, KeptHs
<1>2. No(h, alert).ok = FALSE /\ No(h, alert).h = g
  BY DEF No
<1> HIDE DEF g
<1>3. Quiet(h, g) /\ Grows(h, g)
  BY <1>1, Zenon DEF Open, Quiet, Grows
<1> QED BY <1>1, <1>2, <1>3, Zenon DEF Answers

\* A message heard goes to the transcript and nowhere else.
LEMMA Hears ==
    ASSUME NEW h, Open(h), NEW m
    PROVE  LET g == Hear(h, m) IN
           /\ Quiet(h, g) /\ Grows(h, g) /\ g.hs = h.hs
           /\ g.t.transcript = Append(h.t.transcript, m)
<1> DEFINE g == Hear(h, m)
<1>1. /\ IsSession(g) /\ g.hs = h.hs /\ g.t.transcript = Append(h.t.transcript, m)
      /\ \A f \in KeptOwn : g[f] = h[f]
      /\ \A f \in KeptTls : g.t[f] = h.t[f]
  BY DEF Hear, Open, IsSession, OwnFields, TlsFields, KeptOwn, KeptTls
<1> HIDE DEF g
<1>2. Grows(h, g)
  BY <1>1, HeardMore, Zenon DEF Open, Grows
<1> QED BY <1>1, <1>2, Zenon DEF Quiet, g

\* A session that differs in what no invariant is about.
LEMMA Touches ==
    ASSUME NEW h, Open(h), NEW g, IsSession(g), g.t.transcript = h.t.transcript,
           \A f \in KeptOwn : g[f] = h[f],
           \A f \in KeptTls : g.t[f] = h.t[f],
           \A f \in KeptHs : g.hs[f] = h.hs[f]
    PROVE  Quiet(h, g) /\ Grows(h, g) /\ Open(g)
BY Zenon DEF Open, Quiet, Grows

\* An acceptance is an answer.
LEMMA Accepts ==
    ASSUME NEW h, NEW g, Quiet(h, g), Grows(h, g)
    PROVE  Answers(h, Ok(g))
<1>1. Ok(g).ok = TRUE /\ Ok(g).h = g
  BY DEF Ok
<1> QED BY <1>1, Zenon DEF Answers

-----------------------------------------------------------------------------
(* The wipes *)

WriteFields == {"initial_dcid", "handshake_tx", "handshake_hp_tx", "app_tx", "app_hp_tx"}
ReadFields  == {"handshake_rx", "handshake_hp_rx", "app_rx", "app_hp_rx"}

\* The read keys of one level go, and its bit.
LEMMA WipesRead ==
    ASSUME NEW h, IsSession(h), NEW level
    PROVE  LET g == wipe_read_keys(h, level) IN
           /\ IsSession(g) /\ g.t = h.t /\ g.hs = h.hs
           /\ g.ready = h.ready \ {<<level, "READ">>}
           /\ \A f \in OwnFields \ (ReadFields \cup {"ready"}) : g[f] = h[f]
           /\ g.handshake_rx = IF level = 1 THEN NoKeys ELSE h.handshake_rx
           /\ g.handshake_hp_rx = IF level = 1 THEN NoSecret ELSE h.handshake_hp_rx
           /\ g.app_rx = IF level = 2 THEN [s \in KeySets |-> NoKeys] ELSE h.app_rx
           /\ g.app_hp_rx = IF level = 2 THEN NoSecret ELSE h.app_hp_rx
BY Zenon DEF wipe_read_keys, IsSession, OwnFields, ReadFields

\* The write keys of one level go, and its bit.
LEMMA WipesWrite ==
    ASSUME NEW h, IsSession(h), NEW level
    PROVE  LET g == quic_wipe_write_keys(h, level) IN
           /\ IsSession(g) /\ g.t = h.t /\ g.hs = h.hs
           /\ g.ready = h.ready \ {<<level, "WRITE">>}
           /\ \A f \in OwnFields \ (WriteFields \cup {"ready"}) : g[f] = h[f]
           /\ g.initial_dcid = (h.initial_dcid /\ level # 0)
           /\ g.handshake_tx = IF level = 1 THEN NoKeys ELSE h.handshake_tx
           /\ g.handshake_hp_tx = IF level = 1 THEN NoSecret ELSE h.handshake_hp_tx
           /\ g.app_tx = IF level = 2 THEN NoKeys ELSE h.app_tx
           /\ g.app_hp_tx = IF level = 2 THEN NoSecret ELSE h.app_hp_tx
BY Zenon DEF quic_wipe_write_keys, IsSession, OwnFields, WriteFields

\* All that is not a write key goes.
LEMMA WipesRest ==
    ASSUME NEW h, IsSession(h)
    PROVE  LET g == wipe_all_but_write_keys(h) IN
           /\ IsSession(g) /\ g.hs = NoHs /\ NoReads(g)
           /\ g.t.rd_secret = NoSecret /\ g.t.wr_secret = NoSecret /\ g.t.res_master = NoSecret
           /\ g.t.buf = << >> /\ g.tx = << >>
           /\ g.ready \subseteq h.ready
           /\ \A level : Ready(g, level, "WRITE") <=> Ready(h, level, "WRITE")
           /\ \A f \in OwnFields \ (ReadFields \cup {"ready", "tx"}) : g[f] = h[f]
           /\ \A f \in TlsFields \ {"rd_secret", "wr_secret", "res_master", "buf"} : g.t[f] = h.t[f]
<1> DEFINE a == wipe_read_keys(h, 0)
           b == wipe_read_keys(a, 1)
           c == wipe_read_keys(b, 2)
           g == wipe_all_but_write_keys(h)
<1>1. /\ IsSession(a) /\ a.t = h.t /\ a.hs = h.hs /\ a.ready = h.ready \ {<<0, "READ">>}
      /\ \A f \in OwnFields \ (ReadFields \cup {"ready"}) : a[f] = h[f]
  BY WipesRead
<1> HIDE DEF a
<1>2. /\ IsSession(b) /\ b.t = a.t /\ b.hs = a.hs /\ b.ready = a.ready \ {<<1, "READ">>}
      /\ \A f \in OwnFields \ (ReadFields \cup {"ready"}) : b[f] = a[f]
      /\ b.handshake_rx = NoKeys /\ b.handshake_hp_rx = NoSecret
  BY <1>1, WipesRead
<1> HIDE DEF b
<1>3. /\ IsSession(c) /\ c.t = b.t /\ c.hs = b.hs /\ c.ready = b.ready \ {<<2, "READ">>}
      /\ \A f \in OwnFields \ (ReadFields \cup {"ready"}) : c[f] = b[f]
      /\ c.handshake_rx = b.handshake_rx /\ c.handshake_hp_rx = b.handshake_hp_rx
      /\ c.app_rx = [s \in KeySets |-> NoKeys] /\ c.app_hp_rx = NoSecret
  BY <1>2, WipesRead
<1> HIDE DEF c
<1>4. g = [c EXCEPT !.hs = NoHs, !.t.rd_secret = NoSecret, !.t.wr_secret = NoSecret,
                    !.t.res_master = NoSecret, !.tx = << >>, !.t.buf = << >>]
  BY Zenon DEF wipe_all_but_write_keys, a, b, c
<1> HIDE DEF g
<1>5. /\ DOMAIN g = {"t", "hs"} \cup OwnFields /\ g.hs = NoHs /\ g.tx = << >>
      /\ \A f \in OwnFields \ {"tx"} : g[f] = c[f]
  BY <1>3, <1>4, ZenonT(40) DEF IsSession, OwnFields
<1>6. /\ DOMAIN g.t = TlsFields /\ g.t.buf = << >>
      /\ g.t.rd_secret = NoSecret /\ g.t.wr_secret = NoSecret /\ g.t.res_master = NoSecret
      /\ \A f \in TlsFields \ {"rd_secret", "wr_secret", "res_master", "buf"} : g.t[f] = c.t[f]
  BY <1>3, <1>4, ZenonT(40) DEF IsSession, OwnFields, TlsFields
<1>7. IsSession(g)
  BY <1>5, <1>6, BlankShape DEF IsSession
<1>8. g.ready = c.ready /\ c.ready = ((h.ready \ {<<0, "READ">>}) \ {<<1, "READ">>}) \ {<<2, "READ">>}
  BY <1>1, <1>2, <1>3, <1>5 DEF OwnFields
<1>9. /\ \A level \in Levels : ~Ready(g, level, "READ")
      /\ \A level : Ready(g, level, "WRITE") <=> Ready(h, level, "WRITE")
      /\ g.ready \subseteq h.ready
  BY <1>8 DEF Ready, Levels
<1>10. /\ g.handshake_rx = NoKeys /\ g.handshake_hp_rx = NoSecret
       /\ g.app_rx = [s \in KeySets |-> NoKeys] /\ g.app_hp_rx = NoSecret
  BY <1>2, <1>3, <1>5 DEF OwnFields
<1>11. \A f \in OwnFields \ (ReadFields \cup {"ready", "tx"}) : g[f] = h[f]
  BY <1>1, <1>2, <1>3, <1>5
<1>12. \A f \in TlsFields \ {"rd_secret", "wr_secret", "res_master", "buf"} : g.t[f] = h.t[f]
  <2>1. c.t = h.t
    BY <1>1, <1>2, <1>3
  <2> QED BY <2>1, <1>6
<1>13. NoReads(g)
  BY <1>9, <1>10, Zenon DEF NoReads
<1> QED BY <1>5, <1>6, <1>7, <1>9, <1>11, <1>12, <1>13, ZenonT(40) DEF g

\* the write keys of h are the ones of g, as far as g's bits say
SameWrites(h, g) ==
    /\ Ready(g, 0, "WRITE") => Ready(h, 0, "WRITE") /\ (h.initial_dcid => g.initial_dcid)
    /\ Ready(g, 1, "WRITE") =>
          /\ Ready(h, 1, "WRITE") /\ g.handshake_tx.secret = h.handshake_tx.secret
          /\ g.handshake_tx.version = h.handshake_tx.version
          /\ DOMAIN g.handshake_tx = DOMAIN h.handshake_tx
          /\ g.handshake_hp_tx = h.handshake_hp_tx
    /\ Ready(g, 2, "WRITE") =>
          /\ Ready(h, 2, "WRITE") /\ g.app_tx.secret = h.app_tx.secret
          /\ g.app_tx.version = h.app_tx.version /\ DOMAIN g.app_tx = DOMAIN h.app_tx
          /\ g.app_hp_tx = h.app_hp_tx

\* g is of h's configuration and version, and heard no less
SameStory(h, g) ==
    /\ g.t.cfg = h.t.cfg /\ g.t.quic_negotiated_version = h.t.quic_negotiated_version
    /\ \A s : Covers(h.t.transcript, s) => Covers(g.t.transcript, s)

\* A key set keeps its name.
LEMMA NameStays ==
    ASSUME NEW h, NEW g, SameStory(h, g), NEW a, NEW b, a.secret = b.secret,
           a.version = b.version, DOMAIN a = DOMAIN b, NEW label, Named(h, a, label)
    PROVE  Named(g, b, label)
BY Zenon DEF SameStory, Named

\* The sides keep their labels.
LEMMA WhoseStays ==
    ASSUME NEW h, NEW g, SameStory(h, g), NEW mine, NEW what
    PROVE  Whose(g, mine, what) = Whose(h, mine, what)
BY DEF SameStory, Whose

\* A set write bit keeps its meaning.
LEMMA WriteBitsStay ==
    ASSUME NEW h, NEW g, WriteBits(h), SameStory(h, g), SameWrites(h, g)
    PROVE  WriteBits(g)
<1>1. \A mine, what : Whose(g, mine, what) = Whose(h, mine, what)
  BY WhoseStays
<1>2. ASSUME Ready(g, 1, "WRITE") PROVE HandshakeWrites(g)
  <2>1. HandshakeWrites(h) /\ g.handshake_tx.secret = h.handshake_tx.secret
        /\ g.handshake_tx.version = h.handshake_tx.version
        /\ DOMAIN g.handshake_tx = DOMAIN h.handshake_tx
        /\ g.handshake_hp_tx = h.handshake_hp_tx
    BY <1>2, Zenon DEF WriteBits, SameWrites
  <2> QED BY <2>1, <1>1, NameStays, ZenonT(30) DEF HandshakeWrites
<1>3. ASSUME Ready(g, 2, "WRITE") PROVE AppWrites(g)
  <2>1. AppWrites(h) /\ g.app_tx.secret = h.app_tx.secret
        /\ g.app_tx.version = h.app_tx.version /\ g.app_hp_tx = h.app_hp_tx
        /\ DOMAIN g.app_tx = DOMAIN h.app_tx
    BY <1>3, Zenon DEF WriteBits, SameWrites
  <2> QED BY <2>1, <1>1, NameStays, ZenonT(30) DEF AppWrites
<1>4. Ready(g, 0, "WRITE") => g.initial_dcid
  BY Zenon DEF WriteBits, SameWrites
<1> QED BY <1>2, <1>3, <1>4, ZenonT(40) DEF WriteBits

\* A level's write keys stay when its bit is set, and go when it is not.
LEMMA UnlessReady ==
    ASSUME NEW h, IsSession(h), NEW level
    PROVE  LET g == wipe_write_keys_unless_ready(h, level) IN
           /\ IsSession(g) /\ g.t = h.t /\ g.hs = h.hs /\ g.ready = h.ready
           /\ \A f \in OwnFields \ WriteFields : g[f] = h[f]
           /\ level # 0 \/ Ready(h, 0, "WRITE") => (g.initial_dcid <=> h.initial_dcid)
           /\ level = 0 /\ ~Ready(h, 0, "WRITE") => ~g.initial_dcid
           /\ level # 1 \/ Ready(h, 1, "WRITE") =>
                 g.handshake_tx = h.handshake_tx /\ g.handshake_hp_tx = h.handshake_hp_tx
           /\ level = 1 /\ ~Ready(h, 1, "WRITE") =>
                 g.handshake_tx = NoKeys /\ g.handshake_hp_tx = NoSecret
           /\ level # 2 \/ Ready(h, 2, "WRITE") => g.app_tx = h.app_tx /\ g.app_hp_tx = h.app_hp_tx
           /\ level = 2 /\ ~Ready(h, 2, "WRITE") => g.app_tx = NoKeys /\ g.app_hp_tx = NoSecret
<1> DEFINE g == wipe_write_keys_unless_ready(h, level)
           w == quic_wipe_write_keys(h, level)
<1>1. CASE Ready(h, level, "WRITE")
  <2>1. g = h
    BY <1>1, Zenon DEF wipe_write_keys_unless_ready
  <2> HIDE DEF g
  <2> QED BY <2>1, <1>1 DEF g
<1>2. CASE ~Ready(h, level, "WRITE")
  <2>1. g = w
    BY <1>2, Zenon DEF wipe_write_keys_unless_ready
  <2>2. /\ IsSession(w) /\ w.t = h.t /\ w.hs = h.hs
        /\ w.ready = h.ready \ {<<level, "WRITE">>}
        /\ \A f \in OwnFields \ (WriteFields \cup {"ready"}) : w[f] = h[f]
        /\ w.initial_dcid = (h.initial_dcid /\ level # 0)
        /\ w.handshake_tx = IF level = 1 THEN NoKeys ELSE h.handshake_tx
        /\ w.handshake_hp_tx = IF level = 1 THEN NoSecret ELSE h.handshake_hp_tx
        /\ w.app_tx = IF level = 2 THEN NoKeys ELSE h.app_tx
        /\ w.app_hp_tx = IF level = 2 THEN NoSecret ELSE h.app_hp_tx
    BY WipesWrite, ZenonT(40)
  <2> HIDE DEF w
  <2>3. w.ready = h.ready
    BY <2>2, <1>2 DEF Ready
  <2>4. \A f \in OwnFields \ WriteFields : w[f] = h[f]
    BY <2>2, <2>3
  <2>5. /\ level # 0 \/ Ready(h, 0, "WRITE") => (w.initial_dcid <=> h.initial_dcid)
        /\ level = 0 /\ ~Ready(h, 0, "WRITE") => ~w.initial_dcid
    BY <2>2, <1>2, Zenon
  <2>6. /\ level # 1 \/ Ready(h, 1, "WRITE") =>
              w.handshake_tx = h.handshake_tx /\ w.handshake_hp_tx = h.handshake_hp_tx
        /\ level = 1 /\ ~Ready(h, 1, "WRITE") =>
              w.handshake_tx = NoKeys /\ w.handshake_hp_tx = NoSecret
        /\ level # 2 \/ Ready(h, 2, "WRITE") => w.app_tx = h.app_tx /\ w.app_hp_tx = h.app_hp_tx
        /\ level = 2 /\ ~Ready(h, 2, "WRITE") => w.app_tx = NoKeys /\ w.app_hp_tx = NoSecret
    BY <2>2, <1>2
  <2> HIDE DEF g
  <2> QED BY <2>1, <2>2, <2>3, <2>4, <2>5, <2>6, ZenonT(40) DEF g
<1> QED BY <1>1, <1>2, Zenon

\* A failure leaves the alert, and the write keys whose bit is set.
LEMMA FailsDead ==
    ASSUME NEW h, Open(h), WriteBits(h), h.hs.alert # "none"
    PROVE  LET g == quic_fail(h) IN
           Open(g) /\ session_dead(g) /\ Dead(g) /\ g.ready \subseteq h.ready
<1> DEFINE a == wipe_all_but_write_keys(h)
           b == wipe_write_keys_unless_ready(a, 0)
           c == wipe_write_keys_unless_ready(b, 1)
           d == wipe_write_keys_unless_ready(c, 2)
           g == quic_fail(h)
           alert == h.hs.alert
<1>1. /\ IsSession(a) /\ a.hs = NoHs /\ NoReads(a)
      /\ a.t.rd_secret = NoSecret /\ a.t.wr_secret = NoSecret /\ a.t.res_master = NoSecret
      /\ a.t.buf = << >> /\ a.tx = << >>
      /\ a.ready \subseteq h.ready
      /\ \A level : Ready(a, level, "WRITE") <=> Ready(h, level, "WRITE")
      /\ \A f \in OwnFields \ (ReadFields \cup {"ready", "tx"}) : a[f] = h[f]
      /\ \A f \in TlsFields \ {"rd_secret", "wr_secret", "res_master", "buf"} : a.t[f] = h.t[f]
  BY WipesRest, Zenon DEF Open
<1> HIDE DEF a
<1>2. /\ IsSession(b) /\ b.t = a.t /\ b.hs = a.hs /\ b.ready = a.ready
      /\ \A f \in OwnFields \ WriteFields : b[f] = a[f]
      /\ Ready(a, 0, "WRITE") => (b.initial_dcid <=> a.initial_dcid)
      /\ ~Ready(a, 0, "WRITE") => ~b.initial_dcid
      /\ b.handshake_tx = a.handshake_tx /\ b.handshake_hp_tx = a.handshake_hp_tx
      /\ b.app_tx = a.app_tx /\ b.app_hp_tx = a.app_hp_tx
  <2>1. 0 # 1 /\ 0 # 2
    OBVIOUS
  <2> QED BY <2>1, <1>1, UnlessReady, SMTT(30)
<1> HIDE DEF b
<1>3. /\ IsSession(c) /\ c.t = b.t /\ c.hs = b.hs /\ c.ready = b.ready
      /\ \A f \in OwnFields \ WriteFields : c[f] = b[f]
      /\ c.initial_dcid <=> b.initial_dcid
      /\ Ready(b, 1, "WRITE") =>
             c.handshake_tx = b.handshake_tx /\ c.handshake_hp_tx = b.handshake_hp_tx
      /\ ~Ready(b, 1, "WRITE") => c.handshake_tx = NoKeys /\ c.handshake_hp_tx = NoSecret
      /\ c.app_tx = b.app_tx /\ c.app_hp_tx = b.app_hp_tx
  <2>1. 1 # 0 /\ 1 # 2
    OBVIOUS
  <2> QED BY <2>1, <1>2, UnlessReady, ZenonT(30)
<1> HIDE DEF c
<1>4. /\ IsSession(d) /\ d.t = c.t /\ d.hs = c.hs /\ d.ready = c.ready
      /\ \A f \in OwnFields \ WriteFields : d[f] = c[f]
      /\ d.initial_dcid <=> c.initial_dcid
      /\ d.handshake_tx = c.handshake_tx /\ d.handshake_hp_tx = c.handshake_hp_tx
      /\ Ready(c, 2, "WRITE") => d.app_tx = c.app_tx /\ d.app_hp_tx = c.app_hp_tx
      /\ ~Ready(c, 2, "WRITE") => d.app_tx = NoKeys /\ d.app_hp_tx = NoSecret
  <2>1. 2 # 0 /\ 2 # 1
    OBVIOUS
  <2> QED BY <2>1, <1>3, UnlessReady, ZenonT(30)
<1> HIDE DEF d
<1>5. g = [d EXCEPT !.alert = alert, !.t.alert_sent = alert, !.t.state = "FAILED"]
  BY Zenon DEF quic_fail, a, b, c, d
<1> HIDE DEF g, alert
<1>6. /\ IsSession(g) /\ g.hs = d.hs /\ g.alert = alert
      /\ g.t.alert_sent = alert /\ g.t.state = "FAILED"
      /\ \A f \in OwnFields \ {"alert"} : g[f] = d[f]
      /\ \A f \in TlsFields \ {"alert_sent", "state"} : g.t[f] = d.t[f]
  BY <1>4, <1>5, Zenon DEF IsSession, OwnFields, TlsFields
<1>7. g.ready = a.ready /\ d.t = a.t /\ d.hs = NoHs
  BY <1>1, <1>2, <1>3, <1>4, <1>6 DEF OwnFields
<1>8. \A level : /\ Ready(g, level, "WRITE") <=> Ready(h, level, "WRITE")
                 /\ Ready(a, level, "WRITE") <=> Ready(h, level, "WRITE")
                 /\ Ready(b, level, "WRITE") <=> Ready(h, level, "WRITE")
                 /\ Ready(c, level, "WRITE") <=> Ready(h, level, "WRITE")
  BY <1>1, <1>2, <1>3, <1>7, ZenonT(40) DEF Ready
<1>9. /\ a.initial_dcid = h.initial_dcid /\ a.handshake_tx = h.handshake_tx
      /\ a.handshake_hp_tx = h.handshake_hp_tx /\ a.app_tx = h.app_tx /\ a.app_hp_tx = h.app_hp_tx
  BY <1>1 DEF OwnFields, ReadFields
<1>10. /\ g.initial_dcid = d.initial_dcid /\ g.handshake_tx = d.handshake_tx
       /\ g.handshake_hp_tx = d.handshake_hp_tx /\ g.app_tx = d.app_tx /\ g.app_hp_tx = d.app_hp_tx
  BY <1>6 DEF OwnFields
<1>11. SameWrites(h, g)
  BY <1>2, <1>3, <1>4, <1>8, <1>9, <1>10, ZenonT(60) DEF SameWrites
<1>12. NoWrites(g)
  BY <1>2, <1>3, <1>4, <1>8, <1>9, <1>10, ZenonT(60) DEF NoWrites
<1>13. /\ g.t.cfg = h.t.cfg /\ g.t.quic_negotiated_version = h.t.quic_negotiated_version
       /\ g.t.transcript = h.t.transcript
  BY <1>1, <1>6, <1>7 DEF TlsFields
<1>14. WriteBits(g)
  <2>1. SameStory(h, g)
    BY <1>13, Zenon DEF SameStory
  <2> QED BY <2>1, <1>11, WriteBitsStay
<1>15. NoReads(g)
  <2>1. /\ g.handshake_rx = a.handshake_rx /\ g.app_rx = a.app_rx
        /\ g.handshake_hp_rx = a.handshake_hp_rx /\ g.app_hp_rx = a.app_hp_rx
    BY <1>2, <1>3, <1>4, <1>6 DEF OwnFields, WriteFields
  <2> QED BY <2>1, <1>1, <1>7, Zenon DEF NoReads, Ready
<1>16. /\ g.hs = NoHs /\ g.t.buf = << >> /\ g.tx = << >>
       /\ g.t.rd_secret = NoSecret /\ g.t.wr_secret = NoSecret /\ g.t.res_master = NoSecret
  BY <1>1, <1>2, <1>3, <1>4, <1>6, <1>7 DEF OwnFields, TlsFields, WriteFields
<1>17. Dead(g)
  <2>1. g.t.state # "CLOSED" /\ g.alert # "none" /\ g.t.alert_sent = g.alert
    BY <1>6 DEF alert
  <2> QED BY <2>1, <1>12, <1>14, <1>15, <1>16, Zenon DEF Dead
<1>18. session_dead(g) /\ Open(g) /\ g.ready \subseteq h.ready
  BY <1>1, <1>6, <1>7, <1>13 DEF session_dead, Open
<1> QED BY <1>17, <1>18 DEF g

-----------------------------------------------------------------------------
(* The end of a turn *)

Dirs == {"READ", "WRITE"}

\* No level was closed while the session goes on.
LEMMA NoneClosed ==
    ASSUME NEW h, NEW g, NEW count, Closed(h, count), ~session_dead(h)
    PROVE  Closed(g, count)
BY Zenon DEF Closed

\* A failure keeps the invariant.
LEMMA FailKeeps ==
    ASSUME IInv, ~session_dead(q), CellsOk(cut'), UNCHANGED closes,
           NEW h, Open(h), WriteBits(h), h.hs.alert # "none", h.ready \subseteq Levels \X Dirs,
           q' = quic_fail(h), rest' = << >>, driving' = FALSE
    PROVE  IInv'
<1> DEFINE g == quic_fail(h)
<1>1. Open(g) /\ session_dead(g) /\ Dead(g) /\ g.ready \subseteq h.ready
  BY FailsDead, Zenon
<1> HIDE DEF g
<1>2. q' = g
  BY DEF g
<1>3. g.ready \subseteq Levels \X {"READ", "WRITE"}
  BY <1>1 DEF Dirs
<1>4. Closed(g, closes) /\ DOMAIN closes = Levels
  BY NoneClosed, Zenon DEF IInv
<1> QED BY <1>1, <1>2, <1>3, <1>4, ZenonT(30) DEF IInv, Open

\* What is left of a delivery behind its first n cells, and the first n.
LEMMA Split ==
    ASSUME NEW s, NEW level, LevelOk(s, level), NEW n \in 0..Len(s)
    PROVE  /\ LevelOk(SubSeq(s, 1, n), level) /\ Len(SubSeq(s, 1, n)) = n
           /\ LevelOk(SubSeq(s, n + 1, Len(s)), level)
           /\ n = Len(s) => SubSeq(s, n + 1, Len(s)) = << >>
<1>1. PICK S : s \in Seq(S)
  BY DEF LevelOk, CellsOk, IsSeq
<1> DEFINE a == SubSeq(s, 1, n)
           b == SubSeq(s, n + 1, Len(s))
<1>2. /\ a \in Seq(S) /\ Len(a) = n /\ \A i \in 1..n : a[i] = s[i] /\ i \in 1..Len(s)
  BY <1>1
<1>3. /\ b \in Seq(S) /\ Len(b) = Len(s) - n
      /\ \A i \in 1..Len(b) : b[i] = s[n + i] /\ n + i \in 1..Len(s)
      /\ n = Len(s) => b = << >>
  BY <1>1
<1> HIDE DEF a, b
<1>4. LevelOk(a, level)
  BY <1>2, Zenon DEF LevelOk, CellsOk, IsSeq
<1>5. LevelOk(b, level)
  BY <1>3, Zenon DEF LevelOk, CellsOk, IsSeq
<1> QED BY <1>2, <1>3, <1>4, <1>5 DEF a, b

\* Two runs of cells of one level make one.
LEMMA Joined ==
    ASSUME NEW a, NEW b, NEW level, LevelOk(a, level), LevelOk(b, level)
    PROVE  LevelOk(a \o b, level) /\ Len(a \o b) = Len(a) + Len(b)
<1>1. PICK A : a \in Seq(A)
  BY DEF LevelOk, CellsOk, IsSeq
<1>2. PICK B : b \in Seq(B)
  BY DEF LevelOk, CellsOk, IsSeq
<1>3. a \in Seq(A \cup B) /\ b \in Seq(A \cup B)
  BY <1>1, <1>2
<1> DEFINE s == a \o b
<1>4. /\ s \in Seq(A \cup B) /\ Len(s) = Len(a) + Len(b) /\ Len(a) \in Nat /\ Len(b) \in Nat
      /\ \A i \in 1..Len(s) : IF i <= Len(a) THEN s[i] = a[i] ELSE s[i] = b[i - Len(a)]
  BY <1>3
<1> HIDE DEF s
<1>5. ASSUME NEW i \in 1..Len(s) PROVE s[i].msg.size \in Nat /\ s[i].level = level
  <2>1. CASE i <= Len(a)
    <3>1. i \in 1..Len(a) /\ s[i] = a[i]
      BY <2>1, <1>4
    <3> QED BY <3>1, Zenon DEF LevelOk, CellsOk
  <2>2. CASE ~(i <= Len(a))
    <3>1. i - Len(a) \in 1..Len(b) /\ s[i] = b[i - Len(a)]
      BY <2>2, <1>4
    <3> QED BY <3>1, Zenon DEF LevelOk, CellsOk
  <2> QED BY <2>1, <2>2
<1>6. LevelOk(s, level)
  BY <1>4, <1>5, Zenon DEF LevelOk, CellsOk, IsSeq
<1> QED BY <1>4, <1>6 DEF s

KeyFields == ReadFields \cup WriteFields \cup {"ready", "key_phase"}

\* the same keys under the same bits, and no less heard
SameKeys(h, g) ==
    /\ SameStory(h, g) /\ \A f \in KeyFields : g[f] = h[f]
    /\ g.t.rd_secret = h.t.rd_secret /\ g.t.wr_secret = h.t.wr_secret

\* Keys that stay keep their names.
LEMMA KeysStay ==
    ASSUME NEW h, NEW g, SameKeys(h, g)
    PROVE  /\ WriteBits(h) => WriteBits(g)
           /\ ReadBits(h) => ReadBits(g)
           /\ AppReads(h) => AppReads(g)
           /\ AppWrites(h) => AppWrites(g)
           /\ AppKeys(h) => AppKeys(g)
           /\ \A level, dir : Ready(g, level, dir) <=> Ready(h, level, dir)
<1>1. /\ g.ready = h.ready /\ g.key_phase = h.key_phase /\ g.initial_dcid = h.initial_dcid
      /\ g.handshake_tx = h.handshake_tx /\ g.handshake_hp_tx = h.handshake_hp_tx
      /\ g.handshake_rx = h.handshake_rx /\ g.handshake_hp_rx = h.handshake_hp_rx
      /\ g.app_tx = h.app_tx /\ g.app_hp_tx = h.app_hp_tx /\ g.app_rx = h.app_rx
      /\ g.t.rd_secret = h.t.rd_secret /\ g.t.wr_secret = h.t.wr_secret
  BY DEF SameKeys, KeyFields, ReadFields, WriteFields
<1>2. SameStory(h, g)
  BY Zenon DEF SameKeys
<1>3. \A k, label : Named(h, k, label) => Named(g, k, label)
  BY <1>2, NameStays, Zenon
<1>4. \A mine, what : Whose(g, mine, what) = Whose(h, mine, what)
  BY <1>2, WhoseStays
<1>5. AppReads(h) => AppReads(g)
  BY <1>1, <1>3, <1>4, ZenonT(30) DEF AppReads
<1>6. AppWrites(h) => AppWrites(g)
  BY <1>1, <1>3, <1>4, ZenonT(30) DEF AppWrites
<1>7. HandshakeReads(h) => HandshakeReads(g)
  BY <1>1, <1>3, <1>4, Zenon DEF HandshakeReads
<1>8. HandshakeWrites(h) => HandshakeWrites(g)
  BY <1>1, <1>3, <1>4, Zenon DEF HandshakeWrites
<1>9. \A level, dir : Ready(g, level, dir) <=> Ready(h, level, dir)
  BY <1>1, Zenon DEF Ready
<1>10. AppKeys(h) => AppKeys(g)
  BY <1>1, <1>2, <1>5, <1>6, <1>9, Zenon DEF AppKeys, Emptied, SameStory
<1> QED BY <1>1, <1>5, <1>6, <1>7, <1>8, <1>9, <1>10, ZenonT(30) DEF WriteBits, ReadBits

\* A handler keeps the keys, whatever they are.
LEMMA QuietKeys ==
    ASSUME NEW h, NEW g, Quiet(h, g), Grows(h, g)
    PROVE  SameKeys(h, g)
<1>1. \A f \in KeyFields : g[f] = h[f]
  BY DEF Quiet, KeptOwn, OwnFields, KeyFields, ReadFields, WriteFields
<1>2. /\ g.t.cfg = h.t.cfg /\ g.t.quic_negotiated_version = h.t.quic_negotiated_version
      /\ g.t.rd_secret = h.t.rd_secret /\ g.t.wr_secret = h.t.wr_secret
  BY DEF Quiet, KeptTls
<1> QED BY <1>1, <1>2, Zenon DEF SameKeys, SameStory, Grows

\* A session stays alive when only what no step waits for changes.
LEMMA AliveStays ==
    ASSUME NEW h, Alive(h), NEW g, SameKeys(h, g), g.t.state = h.t.state, g.step = h.step,
           g.hs = h.hs
    PROVE  Alive(g)
<1>1. /\ WriteBits(h) => WriteBits(g)
      /\ ReadBits(h) => ReadBits(g)
      /\ AppKeys(h) => AppKeys(g)
      /\ \A level, dir : Ready(g, level, dir) <=> Ready(h, level, dir)
  BY KeysStay
<1>2. /\ g.ready = h.ready /\ g.key_phase = h.key_phase /\ g.app_rx = h.app_rx
      /\ g.t.cfg = h.t.cfg
  BY DEF SameKeys, SameStory, KeyFields, ReadFields
<1> QED BY <1>1, <1>2, ZenonT(30) DEF Alive

\* Feeding the buffer keeps the invariant.
LEMMA FeedKeeps ==
    ASSUME IInv, ~session_dead(q), CellsOk(cut'), UNCHANGED closes,
           NEW h, Open(h), Alive(h), h.ready \subseteq Levels \X Dirs,
           NEW cells, LevelOk(h.t.buf, h.rx_level), LevelOk(cells, h.rx_level),
           Len(h.t.buf) <= BufLen, Feed(h, cells)
    PROVE  IInv'
<1> DEFINE n    == Fits(h, cells)
           buf  == h.t.buf
           more == SubSeq(cells, n + 1, Len(cells))
           full == buf \o SubSeq(cells, 1, n)
           g    == [h EXCEPT !.t.buf = full]
<1>1. Len(cells) \in Nat /\ Len(buf) \in Nat
  <2>1. IsSeq(cells) /\ IsSeq(buf)
    BY Zenon DEF LevelOk, CellsOk
  <2> QED BY <2>1 DEF IsSeq
<1>2. /\ n \in 0..Len(cells) /\ (n # Len(cells) => Len(buf) + n = BufLen)
      /\ Len(buf) + n <= BufLen
  <2> DEFINE a == Len(cells)
             b == Len(buf)
  <2>1. n = IF a <= BufLen - b THEN a ELSE BufLen - b
    BY DEF Fits, Fewer
  <2>2. a \in Nat /\ b \in Nat /\ b <= BufLen /\ BufLen \in Nat
    BY <1>1, FrameAssumption
  <2> HIDE DEF a, b, n
  <2>3. n \in 0..a /\ (n # a => b + n = BufLen) /\ b + n <= BufLen
    BY <2>1, <2>2
  <2> QED BY <2>3 DEF a, b
<1>3. /\ q' = g /\ rest' = more /\ driving' = TRUE
  BY DEF Feed, Open, IsSession, TlsFields
<1> HIDE DEF n
<1>4. /\ LevelOk(SubSeq(cells, 1, n), h.rx_level) /\ Len(SubSeq(cells, 1, n)) = n
      /\ LevelOk(more, h.rx_level) /\ (n = Len(cells) => more = << >>)
  BY <1>2, Split, Zenon
<1>5. LevelOk(full, h.rx_level) /\ Len(full) = Len(buf) + n
  BY <1>4, Joined, Zenon
<1> HIDE DEF full, more
<1>6. /\ IsSession(g) /\ g.hs = h.hs /\ g.t.buf = full
      /\ \A f \in OwnFields : g[f] = h[f]
      /\ \A f \in TlsFields \ {"buf"} : g.t[f] = h.t[f]
  BY DEF Open, IsSession, OwnFields, TlsFields
<1> HIDE DEF g
<1>7. /\ g.t.cfg = h.t.cfg /\ g.t.quic_negotiated_version = h.t.quic_negotiated_version
      /\ g.t.rd_secret = h.t.rd_secret /\ g.t.wr_secret = h.t.wr_secret
      /\ g.t.transcript = h.t.transcript /\ g.t.state = h.t.state
      /\ g.step = h.step /\ g.rx_level = h.rx_level /\ g.ready = h.ready
      /\ \A f \in KeyFields : g[f] = h[f]
  BY <1>6 DEF OwnFields, TlsFields, KeyFields, ReadFields, WriteFields
<1>8. Alive(g)
  <2>1. SameKeys(h, g)
    BY <1>7, Zenon DEF SameKeys, SameStory
  <2> QED BY <2>1, <1>6, <1>7, AliveStays, Zenon
<1>9. ~session_dead(g)
  <2>1. g.t.state = "START" \/ g.t.state = "CONNECTED"
    BY <1>8, Zenon DEF Alive
  <2> QED BY <2>1 DEF session_dead
<1>10. Waits(g, more)
  <2>1. Len(full) <= BufLen /\ (more # << >> => Len(full) = BufLen)
    BY <1>1, <1>2, <1>4, <1>5
  <2> QED BY <2>1, <1>4, <1>5, <1>6, <1>7, ZenonT(40) DEF Waits
<1>11. Closed(g, closes) /\ DOMAIN closes = Levels
  BY NoneClosed, Zenon DEF IInv
<1>12. IsSeq(g.t.transcript) /\ g.ready \subseteq Levels \X {"READ", "WRITE"}
  BY <1>7 DEF Open, Dirs
<1> QED BY <1>3, <1>6, <1>8, <1>9, <1>10, <1>11, <1>12, ZenonT(30) DEF IInv

\* what a turn of the drive loop starts from
Turn == IInv /\ driving = TRUE /\ Whole(q)

\* A message leaves the buffer and nothing else of the session.
LEMMA TakesMessage ==
    ASSUME Turn
    PROVE  LET k == Taken(q) IN
           /\ ~session_dead(q) /\ Alive(q) /\ Waits(q, rest) /\ CellsOk(cut) /\ IsSession(q)
           /\ Open(k) /\ Alive(k) /\ SameKeys(q, k) /\ k.hs = q.hs
           /\ k.ready \subseteq Levels \X Dirs
           /\ \A f \in OwnFields : k[f] = q[f]
           /\ \A f \in TlsFields \ {"buf"} : k.t[f] = q.t[f]
           /\ LevelOk(k.t.buf, q.rx_level) /\ Len(k.t.buf) <= BufLen
<1> DEFINE k    == Taken(q)
           buf  == q.t.buf
           size == Head(buf).msg.size
           left == SubSeq(buf, size + 1, Len(buf))
<1>1. /\ ~session_dead(q) /\ Alive(q) /\ Waits(q, rest) /\ CellsOk(cut) /\ IsSession(q)
      /\ IsSeq(q.t.transcript)
  BY Zenon DEF Turn, IInv
<1>2. LevelOk(buf, q.rx_level) /\ Len(buf) <= BufLen
  BY <1>1, Zenon DEF Waits
<1>3. buf # << >> /\ Len(buf) >= size
  BY Zenon DEF Turn, Whole
<1>4. PICK S : buf \in Seq(S)
  BY <1>2, Zenon DEF LevelOk, CellsOk, IsSeq
<1>5. Len(buf) \in Nat /\ 1 \in 1..Len(buf) /\ Head(buf) = buf[1]
  BY <1>3, <1>4
<1>6. size \in Nat
  BY <1>2, <1>5, Zenon DEF LevelOk, CellsOk
<1>7. k = [q EXCEPT !.t.buf = left]
  BY <1>1 DEF Taken, IsSession, TlsFields
<1> HIDE DEF buf, size
<1>8. size \in 0..Len(buf)
  BY <1>3, <1>5, <1>6
<1>9. LevelOk(left, q.rx_level)
  BY <1>2, <1>8, Split, Zenon
<1>10. Len(left) <= BufLen
  <2>1. Len(left) = Len(buf) - size
    BY <1>4, <1>8
  <2> QED BY <2>1, <1>2, <1>5, <1>6, FrameAssumption
<1> HIDE DEF left, k
<1>11. /\ IsSession(k) /\ k.hs = q.hs /\ k.t.buf = left
       /\ \A f \in OwnFields : k[f] = q[f]
       /\ \A f \in TlsFields \ {"buf"} : k.t[f] = q.t[f]
  BY <1>1, <1>7 DEF IsSession, OwnFields, TlsFields
<1>12. /\ k.t.cfg = q.t.cfg /\ k.t.quic_negotiated_version = q.t.quic_negotiated_version
       /\ k.t.rd_secret = q.t.rd_secret /\ k.t.wr_secret = q.t.wr_secret
       /\ k.t.transcript = q.t.transcript /\ k.t.state = q.t.state
       /\ k.step = q.step /\ k.ready = q.ready
       /\ \A f \in KeyFields : k[f] = q[f]
  BY <1>11 DEF OwnFields, TlsFields, KeyFields, ReadFields, WriteFields
<1>13. SameKeys(q, k)
  BY <1>12, Zenon DEF SameKeys, SameStory
<1>14. Alive(k)
  BY <1>1, <1>11, <1>12, <1>13, AliveStays, Zenon
<1>15. Open(k)
  BY <1>1, <1>11, <1>12, ZenonT(40) DEF Open
<1>16. k.ready \subseteq Levels \X Dirs
  BY <1>12 DEF Turn, IInv, Dirs
<1> QED BY <1>1, <1>9, <1>10, <1>11, <1>13, <1>14, <1>15, <1>16, ZenonT(30) DEF k

\* An edit of what no key depends on.
LEMMA EditKeys ==
    ASSUME NEW h, Open(h), NEW g, IsSession(g), g.t = h.t, \A f \in KeyFields : g[f] = h[f]
    PROVE  SameKeys(h, g) /\ Open(g)
BY Zenon DEF Open, SameKeys, SameStory

\* The end of a turn keeps the invariant.
LEMMA AdvanceKeeps ==
    ASSUME Turn, NEW res, Advance(res), Open(res.h), res.ok \in BOOLEAN, WriteBits(res.h),
           res.h.ready \subseteq Levels \X Dirs,
           ~res.ok => res.h.hs.alert # "none",
           res.ok => Alive(res.h) /\ res.h.t.buf = Taken(q).t.buf
    PROVE  IInv'
<1> DEFINE h == [res.h EXCEPT !.room = 0]
           moved == h.rx_level # q.rx_level \/ h.tx # << >>
           u == quic_refuse_unread(h)
<1>1. /\ ~session_dead(q) /\ CellsOk(cut) /\ Waits(q, rest) /\ IInv
      /\ LevelOk(Taken(q).t.buf, q.rx_level) /\ Len(Taken(q).t.buf) <= BufLen
  BY TakesMessage, Zenon DEF Turn
<1>2. /\ UNCHANGED <<cut, closes>>
      /\ IF ~res.ok THEN fail(h)
         ELSE IF moved /\ Left(h, rest) THEN fail(u) ELSE Feed(h, rest)
  BY Zenon DEF Advance
<1>3. /\ IsSession(h) /\ h.t = res.h.t /\ h.hs = res.h.hs /\ h.rx_level = res.h.rx_level
      /\ \A f \in KeyFields : h[f] = res.h[f]
      /\ h.step = res.h.step /\ h.ready = res.h.ready
  BY DEF Open, IsSession, OwnFields, KeyFields, ReadFields, WriteFields
<1>4. UNCHANGED closes /\ CellsOk(cut')
  BY <1>1, <1>2, Zenon
<1> HIDE DEF h
<1>5. SameKeys(res.h, h) /\ Open(h)
  BY <1>3, EditKeys, Zenon
<1>6. WriteBits(h) /\ h.ready \subseteq Levels \X Dirs
  BY <1>3, <1>5, KeysStay, Zenon
<1>7. CASE ~res.ok
  <2>1. fail(h) /\ h.hs.alert # "none"
    BY <1>2, <1>3, <1>7, Zenon
  <2> QED BY <2>1, <1>1, <1>4, <1>5, <1>6, FailKeeps, ZenonT(30) DEF fail
<1>8. CASE res.ok /\ moved /\ Left(h, rest)
  <2>1. fail(u)
    BY <1>2, <1>8, Zenon
  <2>2. PICK v : v \in {h, Violation(h)} /\ u = Unexpected(v)
    BY Zenon DEF quic_refuse_unread
  <2> HIDE DEF u
  <2>3. /\ IsSession(v) /\ v.t = h.t /\ v.hs = h.hs
        /\ \A f \in KeyFields : v[f] = h[f]
    BY <2>2, <1>3 DEF Violation, IsSession, OwnFields, KeyFields, ReadFields, WriteFields
  <2>4. /\ IsSession(u) /\ u.t = v.t /\ u.hs.alert = "unexpected_message"
        /\ \A f \in KeyFields : u[f] = v[f]
    BY <2>2, <2>3 DEF Unexpected, IsSession, OwnFields, HsFields, KeyFields,
                      ReadFields, WriteFields
  <2>5. u.t = h.t /\ \A f \in KeyFields : u[f] = h[f]
    BY <2>3, <2>4
  <2>6. SameKeys(h, u) /\ Open(u)
    BY <2>4, <2>5, <1>5, EditKeys
  <2>7. u.ready = h.ready
    BY <2>5 DEF KeyFields
  <2>8. WriteBits(u) /\ u.ready \subseteq Levels \X Dirs /\ u.hs.alert # "none"
    <3>1. WriteBits(u)
      BY <2>6, <1>6, KeysStay, Zenon
    <3> QED BY <3>1, <2>4, <2>7, <1>6
  <2> QED BY <2>1, <2>6, <2>8, <1>1, <1>4, FailKeeps, ZenonT(30) DEF fail
<1>9. CASE res.ok /\ ~(moved /\ Left(h, rest))
  <2>1. Feed(h, rest)
    BY <1>2, <1>9, Zenon
  <2>2. Alive(h)
    BY <1>3, <1>5, <1>9, AliveStays, ZenonT(40)
  <2>3. h.t.buf = Taken(q).t.buf
    BY <1>3, <1>9
  <2>4. LevelOk(h.t.buf, h.rx_level) /\ LevelOk(rest, h.rx_level) /\ Len(h.t.buf) <= BufLen
    <3>1. CASE h.rx_level = q.rx_level
      BY <3>1, <2>3, <1>1, Zenon DEF Waits
    <3>2. CASE h.rx_level # q.rx_level
      <4>1. h.t.buf = << >> /\ rest = << >>
        BY <3>2, <1>9, Zenon DEF Left
      <4>2. << >> \in Seq({}) /\ Len(<< >>) = 0 /\ 1..0 = {}
        OBVIOUS
      <4>3. IsSeq(<< >>)
        BY <4>2, Zenon DEF IsSeq
      <4>4. LevelOk(<< >>, h.rx_level)
        BY <4>2, <4>3 DEF LevelOk, CellsOk
      <4> QED BY <4>1, <4>4, <2>3, <1>1, Zenon
    <3> QED BY <3>1, <3>2
  <2> QED BY <2>1, <2>2, <2>4, <1>1, <1>4, <1>5, <1>6, FeedKeeps, ZenonT(30)
<1> QED BY <1>7, <1>8, <1>9, Zenon

-----------------------------------------------------------------------------
(* The keys a step installs, and the end of a step *)

\* The labels of a client, and of a server.
LEMMA Labels ==
    ASSUME NEW h
    PROVE  /\ h.t.cfg.role # "server" =>
                 /\ Whose(h, TRUE, "hs") = "c hs" /\ Whose(h, FALSE, "hs") = "s hs"
                 /\ Whose(h, TRUE, "ap") = "c ap" /\ Whose(h, FALSE, "ap") = "s ap"
           /\ h.t.cfg.role = "server" =>
                 /\ Whose(h, TRUE, "hs") = "s hs" /\ Whose(h, FALSE, "hs") = "c hs"
                 /\ Whose(h, TRUE, "ap") = "s ap" /\ Whose(h, FALSE, "ap") = "c ap"
BY DEF Whose, ServerLabels, ClientLabels

\* The handshake keys of both directions, in the version the session settled on.
LEMMA InstallsHandshake ==
    ASSUME NEW h, IsSession(h), NEW rd, NEW wr
    PROVE  LET g == install_handshake_keys(h, rd, wr)
               v == h.t.quic_negotiated_version
           IN
           /\ IsSession(g) /\ g.t = h.t /\ g.hs = h.hs
           /\ g.ready = h.ready \cup ({1} \X {"READ", "WRITE"})
           /\ g.handshake_rx.secret = rd /\ g.handshake_rx.version = v /\ g.handshake_hp_rx = rd
           /\ DOMAIN g.handshake_rx = KeyRecord /\ DOMAIN g.handshake_tx = KeyRecord
           /\ g.handshake_tx.secret = wr /\ g.handshake_tx.version = v /\ g.handshake_hp_tx = wr
           /\ \A f \in OwnFields \ {"ready", "handshake_rx", "handshake_hp_rx",
                                    "handshake_tx", "handshake_hp_tx"} : g[f] = h[f]
<1> DEFINE v == h.t.quic_negotiated_version
           a == [h EXCEPT !.handshake_rx = quic_keys_init(rd, v), !.handshake_hp_rx = rd,
                          !.handshake_tx = quic_keys_init(wr, v), !.handshake_hp_tx = wr]
           g == install_handshake_keys(h, rd, wr)
<1>1. g = [a EXCEPT !.ready = @ \cup ({1} \X {"READ", "WRITE"})]
  BY DEF install_handshake_keys, Announce
<1>2. /\ IsSession(a) /\ a.t = h.t /\ a.hs = h.hs
      /\ a.handshake_rx = quic_keys_init(rd, v) /\ a.handshake_hp_rx = rd
      /\ a.handshake_tx = quic_keys_init(wr, v) /\ a.handshake_hp_tx = wr
      /\ \A f \in OwnFields \ {"handshake_rx", "handshake_hp_rx",
                               "handshake_tx", "handshake_hp_tx"} : a[f] = h[f]
  BY ZenonT(40) DEF IsSession, OwnFields
<1> HIDE DEF a, g
<1>3. /\ IsSession(g) /\ g.t = a.t /\ g.hs = a.hs
      /\ g.ready = a.ready \cup ({1} \X {"READ", "WRITE"})
      /\ \A f \in OwnFields \ {"ready"} : g[f] = a[f]
  BY <1>1, <1>2 DEF IsSession, OwnFields
<1>4. \A s : quic_keys_init(s, v).secret = s /\ quic_keys_init(s, v).version = v
                         /\ DOMAIN quic_keys_init(s, v) = KeyRecord
  BY DEF quic_keys_init, KeyRecord
<1>5. a.ready = h.ready
  BY <1>2 DEF OwnFields
<1>6. /\ g.handshake_rx = a.handshake_rx /\ g.handshake_hp_rx = a.handshake_hp_rx
      /\ g.handshake_tx = a.handshake_tx /\ g.handshake_hp_tx = a.handshake_hp_tx
  BY <1>3 DEF OwnFields
<1> QED BY <1>2, <1>3, <1>4, <1>5, <1>6 DEF g

\* The handshake keys just derived are the ones the bits name.
LEMMA HandshakeKeyed ==
    ASSUME NEW h, Open(h), h.ready \subseteq {0} \X {"READ", "WRITE"}, WriteBits(h), ReadBits(h),
           NEW rd, NEW wr, IsSecret(rd), IsSecret(wr),
           rd.over = h.t.transcript, wr.over = h.t.transcript,
           rd.label = Whose(h, FALSE, "hs"), wr.label = Whose(h, TRUE, "hs")
    PROVE  LET g == install_handshake_keys(h, rd, wr) IN
           /\ WriteBits(g) /\ ReadBits(g) /\ g.ready \subseteq {0, 1} \X {"READ", "WRITE"}
           /\ HandshakeReads(g) /\ HandshakeWrites(g)
<1> DEFINE g == install_handshake_keys(h, rd, wr)
           v == h.t.quic_negotiated_version
<1>1. /\ IsSession(g) /\ g.t = h.t /\ g.hs = h.hs
      /\ g.ready = h.ready \cup ({1} \X {"READ", "WRITE"})
      /\ g.handshake_rx.secret = rd /\ g.handshake_rx.version = v /\ g.handshake_hp_rx = rd
           /\ DOMAIN g.handshake_rx = KeyRecord /\ DOMAIN g.handshake_tx = KeyRecord
      /\ g.handshake_tx.secret = wr /\ g.handshake_tx.version = v /\ g.handshake_hp_tx = wr
      /\ \A f \in OwnFields \ {"ready", "handshake_rx", "handshake_hp_rx",
                               "handshake_tx", "handshake_hp_tx"} : g[f] = h[f]
  BY InstallsHandshake DEF Open
<1>2. g.initial_dcid = h.initial_dcid
  BY <1>1 DEF OwnFields
<1> HIDE DEF g
<1>3. \A mine, what : Whose(g, mine, what) = Whose(h, mine, what)
  BY <1>1 DEF Whose
<1>4. Covers(g.t.transcript, rd) /\ Covers(g.t.transcript, wr)
  <2>1. IsSeq(g.t.transcript) /\ rd.over = g.t.transcript /\ wr.over = g.t.transcript
    BY <1>1 DEF Open
  <2> QED BY <2>1, CoversAll
<1>5. HandshakeReads(g) /\ HandshakeWrites(g)
  <2>1. rd.label = Whose(g, FALSE, "hs") /\ wr.label = Whose(g, TRUE, "hs")
    BY <1>3, ZenonT(40)
  <2>2. g.t.quic_negotiated_version = v
    BY <1>1
  <2> HIDE DEF v
  <2>3. Named(g, g.handshake_rx, Whose(g, FALSE, "hs"))
    BY <2>1, <2>2, <1>1, <1>4, Zenon DEF Named
  <2>4. Named(g, g.handshake_tx, Whose(g, TRUE, "hs"))
    BY <2>1, <2>2, <1>1, <1>4, Zenon DEF Named
  <2> QED BY <2>3, <2>4, <1>1, Zenon DEF HandshakeReads, HandshakeWrites
<1>6. g.ready \subseteq {0, 1} \X {"READ", "WRITE"}
  BY <1>1
<1>7. ~Ready(g, 2, "READ") /\ ~Ready(g, 2, "WRITE")
  BY <1>6 DEF Ready
<1>8. Ready(g, 0, "READ") \/ Ready(g, 0, "WRITE") => g.initial_dcid
  BY <1>1, <1>2 DEF Ready, WriteBits, ReadBits
<1> QED BY <1>5, <1>6, <1>7, <1>8, ZenonT(40) DEF WriteBits, ReadBits, g

\* Before the hellos are done only the Initial level has bits, and what is heard
\* does not matter to them.
LEMMA HelloBits ==
    ASSUME NEW k, Alive(k), k.step \in HelloSteps, NEW g, \A f \in KeyFields : g[f] = k[f]
    PROVE  /\ WriteBits(g) /\ ReadBits(g) /\ g.key_phase = 0 /\ k.t.state = "START"
           /\ g.ready \subseteq {0} \X {"READ", "WRITE"} /\ g.ready \subseteq Levels \X Dirs
           /\ DOMAIN g.app_rx = KeySets
<1>1. /\ k.t.state = "START" /\ k.key_phase = 0 /\ DOMAIN k.app_rx = KeySets
      /\ k.ready \subseteq {0} \X {"READ", "WRITE"}
  BY DEF Alive, HelloSteps, FlightSteps
<1>2. /\ g.ready = k.ready /\ g.key_phase = k.key_phase /\ g.initial_dcid = k.initial_dcid
      /\ g.app_rx = k.app_rx
  BY DEF KeyFields, WriteFields, ReadFields
<1>3. /\ \A level : Ready(g, level, "WRITE") <=> Ready(k, level, "WRITE")
      /\ \A level : Ready(g, level, "READ") <=> Ready(k, level, "READ")
      /\ ~Ready(g, 1, "READ") /\ ~Ready(g, 1, "WRITE")
      /\ ~Ready(g, 2, "READ") /\ ~Ready(g, 2, "WRITE")
  BY <1>1, <1>2 DEF Ready
<1>4. WriteBits(g) /\ ReadBits(g)
  BY <1>2, <1>3, Zenon DEF WriteBits, ReadBits, Alive
<1> QED BY <1>1, <1>2, <1>4 DEF Levels, Dirs

\* what a step of the drive loop may answer, given the session k it began with
Turned(k, res) ==
    /\ res.ok \in BOOLEAN /\ Open(res.h) /\ WriteBits(res.h)
    /\ res.h.ready \subseteq Levels \X Dirs
    /\ ~res.ok => res.h.hs.alert # "none"
    /\ res.ok => Alive(res.h) /\ res.h.t.buf = k.t.buf

\* Such a turn keeps the invariant.
LEMMA TurnKeeps ==
    ASSUME Turn, NEW res, Advance(res), Turned(Taken(q), res)
    PROVE  IInv'
BY AdvanceKeeps, ZenonT(30) DEF Turned

\* A handler's refusal ends a turn.
LEMMA Declines ==
    ASSUME NEW k, NEW h, Open(h), WriteBits(h), h.ready \subseteq Levels \X Dirs,
           NEW res, Answers(h, res), ~res.ok
    PROVE  Turned(k, res)
<1>1. /\ Quiet(h, res.h) /\ Grows(h, res.h) /\ Open(res.h) /\ res.ok \in BOOLEAN
      /\ res.h.hs.alert # "none"
  BY AnswersOpen, Zenon DEF Answers
<1>2. SameKeys(h, res.h)
  BY <1>1, QuietKeys
<1>3. WriteBits(res.h)
  BY <1>2, KeysStay, Zenon
<1>4. res.h.ready = h.ready
  BY <1>2 DEF SameKeys, KeyFields
<1> QED BY <1>1, <1>3, <1>4 DEF Turned

\* The keys a handler leaves alone.
LEMMA QuietFields ==
    ASSUME NEW h, NEW g, \A f \in KeptOwn : g[f] = h[f]
    PROVE  \A f \in KeyFields : g[f] = h[f]
BY DEF KeptOwn, OwnFields, KeyFields, ReadFields, WriteFields

\* A secret that follows from the handshake secret.
LEMMA DerivedFacts ==
    ASSUME NEW h, IsSecret(h.hs.handshake_secret), h.hs.handshake_secret.ku = 0, NEW label
    PROVE  LET s == Derived(h, label) IN
           /\ IsSecret(s) /\ s.label = label /\ s.over = h.t.transcript /\ s.ku = 0
           /\ [s EXCEPT !.ku = 0] = s
<1> DEFINE x == h.hs.handshake_secret
           tr == h.t.transcript
           s == [x EXCEPT !.label = label, !.over = tr]
<1>1. DOMAIN x = {"label", "early", "group", "over", "ku"} /\ x.ku = 0
  BY DEF IsSecret
<1> HIDE DEF x, tr
<1>2. /\ DOMAIN s = {"label", "early", "group", "over", "ku"} /\ s.label = label /\ s.over = tr
      /\ s.ku = 0
  BY <1>1
<1>3. [s EXCEPT !.ku = 0] = s
  BY <1>1, Zenon
<1> QED BY <1>2, <1>3 DEF Derived, IsSecret, x, tr

\* The application keys of both directions, and the receive set behind them.
LEMMA InstallsApplication ==
    ASSUME NEW h, IsSession(h), DOMAIN h.app_rx = KeySets, NEW dirs
    PROVE  LET g == install_application_keys(h, dirs)
               v == h.t.quic_negotiated_version
           IN
           /\ IsSession(g) /\ g.hs = h.hs /\ g.ready = h.ready \cup ({2} \X dirs)
           /\ g.app_tx = quic_keys_init(h.t.wr_secret, v) /\ g.app_hp_tx = h.t.wr_secret
           /\ DOMAIN g.app_rx = KeySets
           /\ g.app_rx["CURRENT"] = quic_keys_init(h.t.rd_secret, v)
           /\ g.app_rx["NEXT"] = quic_keys_update(h.t.rd_secret, v)
           /\ g.t.rd_secret = Advanced(h.t.rd_secret)
           /\ \A f \in TlsFields \ {"rd_secret"} : g.t[f] = h.t[f]
           /\ \A f \in OwnFields \ {"ready", "app_tx", "app_hp_tx", "app_rx", "app_hp_rx"} :
                  g[f] = h[f]
<1> DEFINE v  == h.t.quic_negotiated_version
           rd == h.t.rd_secret
           wr == h.t.wr_secret
           x1 == quic_keys_init(wr, v)
           x2 == quic_keys_init(rd, v)
           x3 == quic_keys_update(rd, v)
           x4 == Advanced(rd)
           rx == [h.app_rx EXCEPT !["CURRENT"] = x2, !["NEXT"] = x3]
           a  == [h EXCEPT !.app_tx = x1, !.app_hp_tx = wr, !.app_rx["CURRENT"] = x2,
                           !.app_hp_rx = rd, !.app_rx["NEXT"] = x3, !.t.rd_secret = x4]
           b  == [h EXCEPT !.app_tx = x1, !.app_hp_tx = wr, !.app_rx = rx,
                           !.app_hp_rx = rd, !.t.rd_secret = x4]
           g  == install_application_keys(h, dirs)
<1>1. g = [a EXCEPT !.ready = @ \cup ({2} \X dirs)]
  BY DEF install_application_keys, Announce
<1> HIDE DEF v, rd, wr, x1, x2, x3, x4
<1>2. a = b
  BY ZenonT(40) DEF IsSession, OwnFields
<1>3. DOMAIN rx = KeySets /\ rx["CURRENT"] = x2 /\ rx["NEXT"] = x3
  BY DEF KeySets
<1> HIDE DEF rx, a
<1>4. /\ DOMAIN b = {"t", "hs"} \cup OwnFields /\ b.hs = h.hs /\ b.ready = h.ready
      /\ b.app_tx = x1 /\ b.app_hp_tx = wr /\ b.app_rx = rx
      /\ \A f \in OwnFields \ {"app_tx", "app_hp_tx", "app_rx", "app_hp_rx"} : b[f] = h[f]
  BY ZenonT(40) DEF IsSession, OwnFields
<1>5. b.t = [h.t EXCEPT !.rd_secret = x4]
  BY DEF IsSession, OwnFields
<1>6. DOMAIN b.t = TlsFields /\ b.t.rd_secret = x4 /\ \A f \in TlsFields \ {"rd_secret"} : b.t[f] = h.t[f]
  BY <1>5 DEF IsSession, TlsFields
<1> HIDE DEF b, g
<1>7. /\ DOMAIN g = {"t", "hs"} \cup OwnFields /\ g.t = b.t /\ g.hs = b.hs
      /\ g.ready = b.ready \cup ({2} \X dirs)
      /\ \A f \in OwnFields \ {"ready"} : g[f] = b[f]
  BY <1>1, <1>2, <1>4 DEF OwnFields
<1>8. g.app_tx = b.app_tx /\ g.app_hp_tx = b.app_hp_tx /\ g.app_rx = b.app_rx
  BY <1>7 DEF OwnFields
<1>9. IsSession(g) /\ g.hs = h.hs
  BY <1>4, <1>6, <1>7 DEF IsSession
<1>10. /\ \A f \in TlsFields \ {"rd_secret"} : g.t[f] = h.t[f]
       /\ g.t.rd_secret = x4
  BY <1>6, <1>7
<1>11. \A f \in OwnFields \ {"ready", "app_tx", "app_hp_tx", "app_rx", "app_hp_rx"} :
           g[f] = h[f]
  BY <1>4, <1>7
<1> QED BY <1>3, <1>4, <1>7, <1>8, <1>9, <1>10, <1>11, ZenonT(30)
        DEF x1, x2, x3, x4, v, rd, wr, g

\* The application keys just installed are the ones the bits name.
LEMMA ApplicationKeyed ==
    ASSUME NEW h, IsSession(h), DOMAIN h.app_rx = KeySets, h.key_phase = 0, NEW dirs,
           IsSecret(h.t.rd_secret), Covers(h.t.transcript, h.t.rd_secret),
           h.t.rd_secret.label = Whose(h, FALSE, "ap"), h.t.rd_secret.ku = 0,
           IsSecret(h.t.wr_secret), Covers(h.t.transcript, h.t.wr_secret),
           h.t.wr_secret.label = Whose(h, TRUE, "ap"), h.t.wr_secret.ku = 0,
           [h.t.wr_secret EXCEPT !.ku = 0] = h.t.wr_secret
    PROVE  LET g == install_application_keys(h, dirs) IN AppReads(g) /\ AppWrites(g)
<1> DEFINE g  == install_application_keys(h, dirs)
           v  == h.t.quic_negotiated_version
           rd == h.t.rd_secret
           wr == h.t.wr_secret
<1>1. /\ g.app_tx = quic_keys_init(wr, v) /\ g.app_hp_tx = wr
      /\ DOMAIN g.app_rx = KeySets
      /\ g.app_rx["CURRENT"] = quic_keys_init(rd, v)
      /\ g.app_rx["NEXT"] = quic_keys_update(rd, v)
      /\ g.t.rd_secret = Advanced(rd)
      /\ \A f \in TlsFields \ {"rd_secret"} : g.t[f] = h.t[f]
      /\ \A f \in OwnFields \ {"ready", "app_tx", "app_hp_tx", "app_rx", "app_hp_rx"} :
             g[f] = h[f]
  BY InstallsApplication
<1> HIDE DEF g
<1>2. /\ g.t.cfg = h.t.cfg /\ g.t.quic_negotiated_version = v /\ g.t.wr_secret = wr
      /\ g.t.transcript = h.t.transcript /\ g.key_phase = 0
  BY <1>1 DEF TlsFields, OwnFields
<1>3. \A mine, what : Whose(g, mine, what) = Whose(h, mine, what)
  BY <1>2 DEF Whose
<1>4. \A s : quic_keys_init(s, v).secret = s /\ quic_keys_init(s, v).version = v
                         /\ DOMAIN quic_keys_init(s, v) = KeyRecord
  BY DEF quic_keys_init, KeyRecord
<1>5. quic_keys_update(rd, v).secret = Advanced(rd)
  BY DEF quic_keys_update, quic_keys_init
<1>6. 0 \in Nat /\ 0 % 2 = 0
  OBVIOUS
<1> HIDE DEF rd, wr, v
<1>7. rd.label = Whose(g, FALSE, "ap") /\ wr.label = Whose(g, TRUE, "ap")
  BY <1>3, Zenon DEF rd, wr
<1>8. /\ IsSecret(rd) /\ IsSecret(wr) /\ rd.ku = 0 /\ wr.ku = 0
      /\ Covers(g.t.transcript, rd) /\ Covers(g.t.transcript, wr)
      /\ [wr EXCEPT !.ku = 0] = wr
  BY <1>2 DEF rd, wr
<1>9. Named(g, g.app_tx, Whose(g, TRUE, "ap")) /\ g.app_tx.secret = wr
  <2>1. g.app_tx.secret = wr /\ g.app_tx.version = v /\ DOMAIN g.app_tx = KeyRecord
    BY <1>1, <1>4, ZenonT(40)
  <2> QED BY <2>1, <1>2, <1>7, <1>8, Zenon DEF Named
<1>10. /\ Named(g, g.app_rx["CURRENT"], Whose(g, FALSE, "ap"))
       /\ g.app_rx["CURRENT"].secret = rd /\ g.app_rx["CURRENT"].version = v
  <2>1. /\ g.app_rx["CURRENT"].secret = rd /\ g.app_rx["CURRENT"].version = v
        /\ DOMAIN g.app_rx["CURRENT"] = KeyRecord
    BY <1>1, <1>4, ZenonT(40)
  <2> QED BY <2>1, <1>2, <1>7, <1>8, Zenon DEF Named
<1>11. AppWrites(g)
  BY <1>1, <1>6, <1>8, <1>9, ZenonT(40) DEF AppWrites
<1>12. AppReads(g)
  BY <1>1, <1>2, <1>5, <1>6, <1>8, <1>9, <1>10, ZenonT(30) DEF AppReads
<1> QED BY <1>11, <1>12 DEF g

LowFields == {"initial_dcid", "handshake_rx", "handshake_hp_rx", "handshake_tx", "handshake_hp_tx"}

\* The bits of the two lower levels keep their keys when the Application level gets its own.
LEMMA LowBits ==
    ASSUME NEW h, h.ready \subseteq {0, 1} \X {"READ", "WRITE"}, WriteBits(h), ReadBits(h),
           NEW g, SameStory(h, g), \A f \in LowFields : g[f] = h[f],
           NEW dirs, dirs \subseteq Dirs, g.ready = h.ready \cup ({2} \X dirs),
           AppReads(g), AppWrites(g)
    PROVE  WriteBits(g) /\ ReadBits(g) /\ g.ready \subseteq Levels \X Dirs
<1>1. /\ g.initial_dcid = h.initial_dcid
      /\ g.handshake_tx = h.handshake_tx /\ g.handshake_hp_tx = h.handshake_hp_tx
      /\ g.handshake_rx = h.handshake_rx /\ g.handshake_hp_rx = h.handshake_hp_rx
  BY DEF LowFields
<1>2. \A x, label : Named(h, x, label) => Named(g, x, label)
  BY NameStays, ZenonT(40)
<1>3. \A mine, what : Whose(g, mine, what) = Whose(h, mine, what)
  BY WhoseStays
<1>4. HandshakeReads(h) => HandshakeReads(g)
  BY <1>1, <1>2, <1>3, Zenon DEF HandshakeReads
<1>5. HandshakeWrites(h) => HandshakeWrites(g)
  BY <1>1, <1>2, <1>3, ZenonT(40) DEF HandshakeWrites
<1>6. \A dir : /\ Ready(g, 0, dir) => Ready(h, 0, dir)
               /\ Ready(g, 1, dir) => Ready(h, 1, dir)
  BY DEF Ready
<1>7. g.ready \subseteq Levels \X Dirs
  <2>1. {0, 1} \subseteq Levels /\ {2} \subseteq Levels
    BY DEF Levels
  <2>2. h.ready \subseteq Levels \X Dirs
    BY <2>1 DEF Dirs
  <2>3. {2} \X dirs \subseteq Levels \X Dirs
    BY <2>1
  <2> QED BY <2>2, <2>3
<1>8. AppKeys(g)
  BY Zenon DEF AppKeys
<1> QED BY <1>1, <1>4, <1>5, <1>6, <1>7, <1>8, ZenonT(30) DEF WriteBits, ReadBits

\* A violation is recorded where no key is.
LEMMA Violates ==
    ASSUME NEW h, Open(h)
    PROVE  LET v == Violation(h) IN
           /\ Open(v) /\ SameKeys(h, v) /\ v.hs = h.hs /\ v.t = h.t /\ v.ready = h.ready
<1> DEFINE v == Violation(h)
<1>1. /\ IsSession(v) /\ v.hs = h.hs /\ v.t = h.t /\ v.ready = h.ready
      /\ \A f \in KeyFields : v[f] = h[f]
  BY DEF Violation, Open, IsSession, OwnFields, KeyFields, ReadFields, WriteFields
<1> HIDE DEF v
<1>2. SameKeys(h, v) /\ Open(v)
  BY <1>1, EditKeys, Zenon
<1> QED BY <1>1, <1>2 DEF v

\* A refusal ends a turn, recorded as a violation or not.
LEMMA RefusalTurns ==
    ASSUME NEW k, NEW h, Open(h), WriteBits(h), h.ready \subseteq Levels \X Dirs,
           NEW alert, alert # "none"
    PROVE  Turned(k, No(h, alert)) /\ Turned(k, No(Violation(h), alert))
<1> DEFINE v == Violation(h)
<1>1. Open(v) /\ SameKeys(h, v) /\ v.ready = h.ready
  BY Violates
<1> HIDE DEF v
<1>2. WriteBits(v) /\ v.ready \subseteq Levels \X Dirs
  BY <1>1, KeysStay
<1>3. ~No(h, alert).ok /\ ~No(v, alert).ok
  BY DEF No
<1>4. Answers(h, No(h, alert)) /\ Answers(v, No(v, alert))
  BY <1>1, Refuses
<1> QED BY <1>1, <1>2, <1>3, <1>4, Declines, ZenonT(40) DEF v

\* A client that is done takes a ticket, or refuses what comes.
LEMMA AfterAnswers ==
    ASSUME step_complete
    PROVE  LET k == Taken(q) IN
           \E res : Advance(res) /\ res \in {Ok(k), No(k, "decode_error"),
               No(Violation(k), "illegal_parameter"), No(Violation(k), "unexpected_message"),
               No(k, "unexpected_message")}
<1> DEFINE k == Taken(q)
           m == NextMsg(q)
           res == CASE m.type = "new_session_ticket"  -> take_ticket(k, m)
                    [] m.type = "certificate_request" -> No(Violation(k), "unexpected_message")
                    [] OTHER -> No(k, "unexpected_message")
<1>1. Advance(res)
  BY Zenon DEF step_complete
<1> HIDE DEF k, m
<1>2. take_ticket(k, m) \in {Ok(k), No(k, "decode_error"), No(Violation(k), "illegal_parameter")}
  <2> DEFINE x == Ok(k)
             y == No(k, "decode_error")
             z == No(Violation(k), "illegal_parameter")
  <2>1. take_ticket(k, m) = CASE m.fault = "none" -> x [] m.fault = "syntax" -> y [] OTHER -> z
    BY DEF take_ticket
  <2> HIDE DEF x, y, z
  <2>2. take_ticket(k, m) \in {x, y, z}
    BY <2>1
  <2> QED BY <2>2 DEF x, y, z
<1>3. res \in {take_ticket(k, m), No(Violation(k), "unexpected_message"),
               No(k, "unexpected_message")}
  <2> DEFINE x == take_ticket(k, m)
             y == No(Violation(k), "unexpected_message")
             z == No(k, "unexpected_message")
  <2>1. res = CASE m.type = "new_session_ticket" -> x
                [] m.type = "certificate_request" -> y [] OTHER -> z
    OBVIOUS
  <2> HIDE DEF x, y, z, res
  <2>2. res \in {x, y, z}
    BY <2>1
  <2> QED BY <2>2 DEF x, y, z
<1> HIDE DEF res
<1> QED BY <1>1, <1>2, <1>3, Zenon DEF k

\* What comes after the handshake keeps the invariant.
LEMMA AfterKeeps ==
    ASSUME IInv, step_complete \/ advance_complete
    PROVE  IInv'
<1> DEFINE k == Taken(q)
           m == NextMsg(q)
<1>1. Turn
  BY DEF step_complete, advance_complete, At, Turn, IInv
<1>2. /\ Open(k) /\ Alive(k) /\ WriteBits(k) /\ k.ready \subseteq Levels \X Dirs
  BY <1>1, TakesMessage, Zenon DEF Alive
<1> HIDE DEF k, m
<1>3. CASE step_complete
  <2>1. PICK res : Advance(res) /\ res \in {Ok(k), No(k, "decode_error"),
            No(Violation(k), "illegal_parameter"), No(Violation(k), "unexpected_message"),
            No(k, "unexpected_message")}
    BY <1>3, AfterAnswers, Zenon DEF k
  <2>2. Turned(k, Ok(k))
    <3>1. Ok(k).ok = TRUE /\ Ok(k).h = k
      BY DEF Ok
    <3> QED BY <3>1, <1>2, Zenon DEF Turned
  <2>3. \A alert : alert # "none" => Turned(k, No(k, alert)) /\ Turned(k, No(Violation(k), alert))
    BY <1>2, RefusalTurns, Zenon
  <2>4. Turned(k, res)
    <3>1. /\ "decode_error" # "none" /\ "illegal_parameter" # "none"
          /\ "unexpected_message" # "none"
      OBVIOUS
    <3> QED BY <3>1, <2>1, <2>2, <2>3, Zenon
  <2> QED BY <2>1, <2>4, <1>1, TurnKeeps, Zenon DEF k
<1>4. CASE advance_complete
  <2>1. Advance(No(q, "unexpected_message"))
    BY <1>4, Zenon DEF advance_complete
  <2>2. Open(q) /\ WriteBits(q) /\ q.ready \subseteq Levels \X Dirs
    <3>1. IsSession(q) /\ Alive(q) /\ IsSeq(q.t.transcript)
      BY <1>1, TakesMessage, ZenonT(40) DEF IInv
    <3>2. q.ready \subseteq Levels \X Dirs
      BY DEF IInv, Dirs
    <3> QED BY <3>1, <3>2, Zenon DEF Open, Alive
  <2>3. Turned(k, No(q, "unexpected_message"))
    <3>1. "unexpected_message" # "none"
      OBVIOUS
    <3> QED BY <3>1, <2>2, RefusalTurns, Zenon
  <2> QED BY <2>1, <2>3, <1>1, TurnKeeps, Zenon DEF k
<1> QED BY <1>3, <1>4

-----------------------------------------------------------------------------
(* Deliveries *)

\* A session that goes on, between two deliveries.
LEMMA LiveKeeps ==
    ASSUME IInv, ~driving, ~session_dead(q), UNCHANGED <<driving, rest, cut, closes>>,
           NEW h, q' = h, Open(h), Alive(h), h.ready \subseteq Levels \X Dirs,
           h.t.buf = q.t.buf, h.rx_level = q.rx_level
    PROVE  IInv'
<1>1. ~session_dead(h)
  BY DEF Alive, session_dead
<1>2. Closed(h, closes)
  BY NoneClosed, Zenon DEF IInv
<1>3. Waits(h, rest)
  BY ZenonT(40) DEF IInv, Waits
<1>4. /\ IsSession(h) /\ IsSeq(h.t.transcript) /\ CellsOk(cut)
      /\ h.ready \subseteq Levels \X {"READ", "WRITE"}
      /\ driving \in BOOLEAN /\ (~driving => rest = << >>)
      /\ DOMAIN closes = Levels
  BY SMTT(30) DEF IInv, Open, Dirs
<1> QED BY <1>1, <1>2, <1>3, <1>4, SMTT(30) DEF IInv

\* A session that ended.
LEMMA DeadKeeps ==
    ASSUME IInv, ~driving, UNCHANGED <<driving, rest, cut>>,
           NEW h, q' = h, Open(h), session_dead(h), Dead(h), h.ready \subseteq Levels \X Dirs,
           DOMAIN closes' = Levels, Closed(h, closes')
    PROVE  IInv'
<1>1. /\ IsSession(h) /\ IsSeq(h.t.transcript) /\ CellsOk(cut)
      /\ h.ready \subseteq Levels \X {"READ", "WRITE"}
      /\ driving \in BOOLEAN /\ (~driving => rest = << >>)
  BY SMTT(30) DEF IInv, Open, Dirs
<1> QED BY <1>1, SMTT(30) DEF IInv

\* drive_done keeps the invariant: it ends a delivery that is wholly in the buffer.
LEMMA DoneKeeps ==
    ASSUME IInv, drive_done, FrameAssumption
    PROVE  IInv'
<1>1. /\ ~session_dead(q) /\ Waits(q, rest) /\ ~Whole(q) /\ ~Oversize(q)
      /\ driving' = FALSE /\ UNCHANGED <<q, rest, cut, store, closes>>
  BY DEF IInv, drive_done
<1>2. rest = << >>
  <2> SUFFICES ASSUME rest # << >> PROVE FALSE
    OBVIOUS
  <2> DEFINE buf == q.t.buf
             n   == Len(buf)
             z   == Head(buf).msg.size
  <2>1. n = BufLen /\ LevelOk(buf, q.rx_level)
    BY <1>1, Zenon DEF Waits
  <2>2. PICK S : buf \in Seq(S)
    BY <2>1, Zenon DEF LevelOk, CellsOk, IsSeq
  <2>3. BufLen \in Nat \ {0}
    BY DEF FrameAssumption
  <2>4. buf # << >>
    BY <2>1, <2>2, <2>3
  <2>5. 1 \in 1..Len(buf) /\ Head(buf) = buf[1]
    BY <2>2, <2>4
  <2>6. z \in Nat
    BY <2>1, <2>5 DEF LevelOk, CellsOk
  <2>7. ~(z > BufLen)
    BY <1>1, <2>4, ZenonT(40) DEF Oversize
  <2>8. ~(n >= z)
    BY <1>1, <2>4, Zenon DEF Whole
  <2> HIDE DEF buf, n, z
  <2> QED BY <2>1, <2>3, <2>6, <2>7, <2>8, SMTT(30)
<1> QED BY <1>1, <1>2, Zenon DEF IInv, Waits

\* drive_oversize keeps the invariant.
LEMMA OversizeKeeps ==
    ASSUME IInv, drive_oversize
    PROVE  IInv'
<1> DEFINE alert == OversizeAlert(q)
           h     == [q EXCEPT !.hs.alert = alert]
<1>1. /\ ~session_dead(q) /\ Alive(q) /\ Open(q) /\ CellsOk(cut') /\ UNCHANGED closes
      /\ q.ready \subseteq Levels \X Dirs
      /\ q' = quic_fail(h) /\ rest' = << >> /\ driving' = FALSE
  BY DEF IInv, drive_oversize, fail, Open, Dirs
<1>2. alert # "none"
  BY DEF OversizeAlert
<1> HIDE DEF alert
<1>3. IsSession(h) /\ h.t = q.t /\ h.hs.alert = alert /\ \A f \in KeyFields : h[f] = q[f]
  BY <1>1 DEF Open, IsSession, OwnFields, HsFields, KeyFields, ReadFields, WriteFields
<1> HIDE DEF h
<1>4. Open(h) /\ SameKeys(q, h)
  BY <1>1, <1>3, EditKeys, ZenonT(40)
<1>5. WriteBits(h) /\ h.ready = q.ready
  <2>1. h.ready = q.ready
    BY <1>3, SMTT(30) DEF KeyFields
  <2> QED BY <2>1, <1>1, <1>4, KeysStay, ZenonT(40) DEF Alive
<1>6. h.ready \subseteq Levels \X Dirs /\ h.hs.alert # "none"
  BY <1>1, <1>2, <1>3, <1>5, SMTT(30)
<1> QED BY <1>1, <1>4, <1>5, <1>6, FailKeeps, ZenonT(40)

\* The cells of messages that have a size have one.
LEMMA CellsSized ==
    ASSUME NEW m, m.size \in Nat
    PROVE  CellsOk(Cells(m))
<1> DEFINE Cell(i) == [msg |-> m, at |-> i]
           s == [i \in 1..m.size |-> Cell(i)]
<1>1. \A i : Cell(i).msg = m
  OBVIOUS
<1> HIDE DEF Cell
<1>2. s \in Seq({Cell(i) : i \in 1..m.size}) /\ Len(s) = m.size /\ \A i \in 1..Len(s) : s[i] = Cell(i)
  OBVIOUS
<1>3. CellsOk(s)
  BY <1>1, <1>2 DEF CellsOk, IsSeq
<1> QED BY <1>3 DEF Cells, Cell

\* So do the cells of two of them, one behind the other, and a part of them.
LEMMA CellsJoined ==
    ASSUME NEW a, NEW b, CellsOk(a), CellsOk(b)
    PROVE  CellsOk(a \o b)
<1>1. PICK A : a \in Seq(A)
  BY DEF CellsOk, IsSeq
<1>2. PICK B : b \in Seq(B)
  BY DEF CellsOk, IsSeq
<1>3. a \in Seq(A \cup B) /\ b \in Seq(A \cup B)
  BY <1>1, <1>2
<1> DEFINE s == a \o b
<1>4. /\ s \in Seq(A \cup B) /\ Len(s) = Len(a) + Len(b) /\ Len(a) \in Nat /\ Len(b) \in Nat
      /\ \A i \in 1..Len(s) : s[i] = IF i <= Len(a) THEN a[i] ELSE b[i - Len(a)]
  BY <1>3
<1>5. ASSUME NEW i \in 1..Len(s) PROVE s[i].msg.size \in Nat
  <2>1. CASE i <= Len(a)
    BY <1>4, <2>1 DEF CellsOk
  <2>2. CASE ~(i <= Len(a))
    <3>1. i - Len(a) \in 1..Len(b)
      BY <1>4, <2>2
    <3> QED BY <3>1, <1>4, <2>2 DEF CellsOk
  <2> QED BY <2>1, <2>2
<1> QED BY <1>4, <1>5 DEF CellsOk, IsSeq

\* and a part of them.
LEMMA CellsPart ==
    ASSUME NEW s, CellsOk(s), NEW n \in 0..Len(s)
    PROVE  /\ CellsOk(SubSeq(s, 1, n)) /\ Len(SubSeq(s, 1, n)) = n
           /\ CellsOk(SubSeq(s, n + 1, Len(s)))
<1>1. PICK S : s \in Seq(S)
  BY DEF CellsOk, IsSeq
<1> DEFINE a == SubSeq(s, 1, n)
           b == SubSeq(s, n + 1, Len(s))
<1>2. /\ a \in Seq(S) /\ Len(a) = n /\ \A i \in 1..n : a[i] = s[i] /\ i \in 1..Len(s)
  BY <1>1
<1>3. /\ b \in Seq(S) /\ Len(b) = Len(s) - n
      /\ \A i \in 1..Len(b) : b[i] = s[i + n] /\ i + n \in 1..Len(s)
  BY <1>1
<1> HIDE DEF a, b
<1>4. CellsOk(a)
  BY <1>2 DEF CellsOk, IsSeq
<1>5. CellsOk(b)
  BY <1>3 DEF CellsOk, IsSeq
<1> QED BY <1>2, <1>4, <1>5 DEF a, b

\* What the peer sends next is made of messages that have a size.
LEMMA NextSized ==
    ASSUME IInv, NEW c \in NextCells
    PROVE  CellsOk(c)
<1>1. CASE cut # << >>
  BY <1>1 DEF NextCells, IInv
<1>2. CASE cut = << >>
  <2>1. PICK m \in Sized(PeerMessages(q, View)) :
            \/ c = Cells(m)
            \/ \E f \in Sized(PeerFollows(q, Append(View, m))) : c = Cells(m) \o Cells(f)
    BY <1>2, Zenon DEF NextCells
  <2>2. \A ms : \A x \in Sized(ms) : CellsOk(Cells(x))
    BY CellsSized DEF Sized
  <2>3. CellsOk(Cells(m))
    BY <2>2, Zenon
  <2>4. CASE c = Cells(m)
    BY <2>3, <2>4
  <2>5. CASE \E f \in Sized(PeerFollows(q, Append(View, m))) : c = Cells(m) \o Cells(f)
    <3>1. PICK f \in Sized(PeerFollows(q, Append(View, m))) : c = Cells(m) \o Cells(f)
      BY <2>5, Zenon
    <3>2. CellsOk(Cells(f))
      BY <2>2, Zenon
    <3> QED BY <2>3, <3>1, <3>2, CellsJoined, ZenonT(40)
  <2> QED BY <2>1, <2>4, <2>5, ZenonT(40)
<1> QED BY <1>1, <1>2, SMTT(30)

\* ch_quic_crypto_in keeps the invariant, whatever it is given.
LEMMA CryptoInKeeps ==
    ASSUME IInv, NEW level, NEW cells, CellsOk(cells), CellsOk(cut'), crypto_in(level, cells)
    PROVE  IInv'
<1>1. /\ ~driving /\ ~session_dead(q) /\ Alive(q) /\ Waits(q, rest) /\ Open(q)
      /\ q.ready \subseteq Levels \X Dirs /\ rest = << >> /\ UNCHANGED closes /\ driving = FALSE
  BY DEF crypto_in, InAllowed, IInv, Open, Dirs
<1>2. CASE level = q.rx_level
  <2> DEFINE Cell(i) == [msg |-> cells[i].msg, at |-> cells[i].at, level |-> level]
             s == [i \in 1..Len(cells) |-> Cell(i)]
  <2>1. Feed(q, s)
    BY <1>2, ZenonT(40) DEF crypto_in
  <2>2. \A i : Cell(i).msg = cells[i].msg /\ Cell(i).level = level
    OBVIOUS
  <2> HIDE DEF Cell
  <2>3. Len(cells) \in Nat
    <3>1. PICK S : cells \in Seq(S)
      BY DEF CellsOk, IsSeq
    <3> QED BY <3>1
  <2>4. /\ s \in Seq({Cell(i) : i \in 1..Len(cells)}) /\ Len(s) = Len(cells)
        /\ \A i \in 1..Len(s) : s[i] = Cell(i)
    BY <2>3
  <2> HIDE DEF s
  <2>5. LevelOk(s, q.rx_level)
    BY <1>2, <2>2, <2>4, ZenonT(40) DEF LevelOk, CellsOk, IsSeq
  <2>6. LevelOk(q.t.buf, q.rx_level) /\ Len(q.t.buf) <= BufLen
    BY <1>1, Zenon DEF Waits
  <2> QED BY <1>1, <2>1, <2>5, <2>6, FeedKeeps, ZenonT(40)
<1>3. CASE level # q.rx_level
  <2> DEFINE v == Violation(q)
             h == Unexpected(v)
  <2>1. q' = quic_fail(h) /\ rest' = << >> /\ driving' = FALSE
    BY <1>1, <1>3, Zenon DEF crypto_in, quic_fail_level
  <2>2. Open(v) /\ SameKeys(q, v) /\ v.ready = q.ready
    BY <1>1, Violates
  <2> HIDE DEF v
  <2>3. IsSession(h) /\ h.t = v.t /\ h.hs.alert = "unexpected_message" /\ \A f \in KeyFields : h[f] = v[f]
    BY <2>2 DEF Unexpected, Open, IsSession, OwnFields, HsFields, KeyFields, ReadFields, WriteFields
  <2> HIDE DEF h
  <2>4. Open(h) /\ SameKeys(v, h) /\ h.ready = v.ready
    <3>1. h.ready = v.ready
      BY <2>3 DEF KeyFields
    <3> QED BY <3>1, <2>2, <2>3, EditKeys, ZenonT(40)
  <2>5. WriteBits(h)
    BY <1>1, <2>2, <2>4, KeysStay, ZenonT(40) DEF Alive
  <2>6. h.ready \subseteq Levels \X Dirs /\ h.hs.alert # "none"
    BY <1>1, <2>2, <2>3, <2>4, SMTT(30)
  <2> QED BY <1>1, <2>1, <2>4, <2>5, <2>6, FailKeeps, Zenon
<1> QED BY <1>2, <1>3, SMTT(30)

\* The peer's deliveries keep the invariant.
LEMMA PeerKeeps ==
    ASSUME IInv, PeerCrypto \/ PeerStray
    PROVE  IInv'
<1>1. CASE PeerCrypto
  <2>1. PICK c \in NextCells, n \in 1..DeliveryCells :
            /\ n <= Len(c) /\ crypto_in(q.rx_level, SubSeq(c, 1, n))
            /\ cut' = SubSeq(c, n + 1, Len(c))
    BY <1>1, ZenonT(40) DEF PeerCrypto
  <2>2. CellsOk(c)
    BY NextSized
  <2>3. n \in 0..Len(c)
    <3>1. PICK S : c \in Seq(S)
      BY <2>2 DEF CellsOk, IsSeq
    <3>2. n \in Nat
      BY EndpointAssumption DEF EndpointAssumption
    <3> QED BY <3>1, <3>2, <2>1
  <2>4. CellsOk(SubSeq(c, 1, n)) /\ CellsOk(cut')
    BY <2>1, <2>2, <2>3, CellsPart, SMTT(30)
  <2> QED BY <2>1, <2>4, CryptoInKeeps, ZenonT(40)
<1>2. CASE PeerStray
  <2>1. PICK level \in Levels : crypto_in(level, << >>) /\ UNCHANGED cut
    BY <1>2, ZenonT(40) DEF PeerStray
  <2>2. CellsOk(<< >>) /\ CellsOk(cut')
    BY <2>1 DEF IInv, CellsOk, IsSeq
  <2> QED BY <2>1, <2>2, CryptoInKeeps, ZenonT(40)
<1> QED BY <1>1, <1>2

\* crypto_out keeps the invariant: the Finished on its way connects a session.
LEMMA OutKeeps ==
    ASSUME IInv, NEW level, crypto_out(level)
    PROVE  IInv'
<1> DEFINE made == Append(q.made, Made(CryptoFrames(level, Cells(q.tx[1])), TRUE))
           st   == IF q.step = "COMPLETE" /\ q.t.state = "START" THEN "CONNECTED" ELSE q.t.state
           a    == [q EXCEPT !.made = made, !.tx = << >>]
           g    == [a EXCEPT !.t.state = st]
<1>1. /\ ~driving /\ ~session_dead(q) /\ Alive(q) /\ Open(q) /\ q.ready \subseteq Levels \X Dirs
      /\ UNCHANGED <<driving, rest, cut, closes>>
  BY DEF crypto_out, IInv, Open, Dirs
<1>2. q' = g
  BY <1>1, Zenon DEF crypto_out, Open, IsSession
<1> HIDE DEF made, st
<1>3. /\ IsSession(a) /\ a.t = q.t /\ a.hs = q.hs
      /\ \A f \in OwnFields \ {"made", "tx"} : a[f] = q[f]
  BY <1>1, Zenon DEF Open, IsSession, OwnFields
<1> HIDE DEF a
<1>4. /\ IsSession(g) /\ g.hs = a.hs /\ g.t.state = st
      /\ \A f \in OwnFields : g[f] = a[f]
      /\ \A f \in TlsFields \ {"state"} : g.t[f] = a.t[f]
  BY <1>3 DEF IsSession, OwnFields, TlsFields
<1> HIDE DEF g
<1>5. /\ g.t.cfg = q.t.cfg /\ g.t.quic_negotiated_version = q.t.quic_negotiated_version
      /\ g.t.transcript = q.t.transcript /\ g.t.buf = q.t.buf
      /\ g.t.rd_secret = q.t.rd_secret /\ g.t.wr_secret = q.t.wr_secret
  BY <1>3, <1>4 DEF TlsFields
<1>6. \A f \in KeyFields \cup {"step", "rx_level"} : g[f] = q[f]
  BY <1>3, <1>4 DEF OwnFields, KeyFields, ReadFields, WriteFields
<1>7. SameKeys(q, g)
  BY <1>5, <1>6, ZenonT(40) DEF SameKeys, SameStory
<1>8. g.hs = q.hs /\ g.step = q.step /\ g.rx_level = q.rx_level /\ g.ready = q.ready
      /\ g.key_phase = q.key_phase /\ g.app_rx = q.app_rx
  BY <1>3, <1>4, <1>6 DEF KeyFields, ReadFields
<1>9. Alive(g)
  <2>1. g.t.state = "START" \/ (g.t.state = "CONNECTED" /\ g.step = "COMPLETE")
    BY <1>1, <1>4, <1>8 DEF Alive, st
  <2>2. WriteBits(g) /\ ReadBits(g)
    BY <1>1, <1>7, KeysStay, ZenonT(40) DEF Alive
  <2>3. /\ AppKeys(q) => AppKeys(g)
        /\ \A l, dir : Ready(g, l, dir) <=> Ready(q, l, dir)
    BY <1>7, KeysStay, SMTT(30)
  <2> QED BY <1>1, <1>5, <1>8, <2>1, <2>2, <2>3, ZenonT(40) DEF Alive
<1>10. Open(g)
  BY <1>1, <1>4, <1>5, SMTT(30) DEF Open
<1>11. g.ready \subseteq Levels \X Dirs
  BY <1>1, <1>8
<1> QED BY <1>1, <1>2, <1>5, <1>8, <1>9, <1>10, <1>11, LiveKeeps, ZenonT(40)

\* switch_version keeps the invariant: no key but the Initial ones is there yet.
LEMMA SwitchKeeps ==
    ASSUME IInv, NEW version, switch_version(version)
    PROVE  IInv'
<1> DEFINE g == [q EXCEPT !.t.quic_negotiated_version = version]
<1>1. /\ ~driving /\ q.t.state = "START" /\ q.step = "AWAIT_SERVER_HELLO" /\ q' = g
      /\ UNCHANGED <<driving, rest, cut, closes>>
  BY DEF switch_version, switch_open
<1>2. /\ ~session_dead(q) /\ Alive(q) /\ Open(q)
  BY <1>1 DEF IInv, Open, session_dead
<1>3. /\ IsSession(g) /\ g.hs = q.hs
      /\ \A f \in OwnFields : g[f] = q[f]
      /\ \A f \in TlsFields \ {"quic_negotiated_version"} : g.t[f] = q.t[f]
  BY <1>2 DEF Open, IsSession, OwnFields, TlsFields
<1> HIDE DEF g
<1>4. /\ Open(g) /\ g.t.state = q.t.state /\ g.t.buf = q.t.buf /\ g.step = q.step
      /\ g.rx_level = q.rx_level /\ \A f \in KeyFields : g[f] = q[f]
  BY <1>2, <1>3 DEF Open, OwnFields, TlsFields, KeyFields, ReadFields, WriteFields
<1>5. q.step \in HelloSteps
  BY <1>1 DEF HelloSteps
<1>6. /\ WriteBits(g) /\ ReadBits(g) /\ g.key_phase = 0
      /\ g.ready \subseteq {0} \X {"READ", "WRITE"} /\ g.ready \subseteq Levels \X Dirs
      /\ DOMAIN g.app_rx = KeySets
  BY <1>2, <1>4, <1>5, HelloBits, ZenonT(40)
<1>7. Alive(g)
  BY <1>1, <1>4, <1>5, <1>6 DEF Alive
<1> QED BY <1>1, <1>2, <1>4, <1>6, <1>7, LiveKeeps, ZenonT(40)

\* initial_keys keeps the invariant.
LEMMA InitialKeep ==
    ASSUME IInv, initial_keys
    PROVE  IInv'
<1> DEFINE d  == TRUE
           a  == [q EXCEPT !.initial_dcid = d]
           g  == quic_initial_keys(q)
<1>1. /\ ~driving /\ ~session_dead(q) /\ Alive(q) /\ Open(q) /\ q.ready \subseteq Levels \X Dirs
      /\ UNCHANGED <<driving, rest, cut, closes>> /\ q' = g
  BY DEF initial_keys, App, IInv, Open, Dirs
<1>2. /\ IsSession(a) /\ a.t = q.t /\ a.hs = q.hs /\ a.initial_dcid = TRUE
      /\ \A f \in OwnFields \ {"initial_dcid"} : a[f] = q[f]
  BY <1>1 DEF Open, IsSession, OwnFields
<1>3. g = Announce(a, 0, {"READ", "WRITE"})
  BY DEF quic_initial_keys
<1> HIDE DEF a, g
<1>4. /\ IsSession(g) /\ g.t = a.t /\ g.hs = a.hs
      /\ g.ready = a.ready \cup ({0} \X {"READ", "WRITE"})
      /\ \A f \in OwnFields \ {"ready"} : g[f] = a[f]
  BY <1>2, <1>3 DEF Announce, IsSession, OwnFields
<1>5. /\ g.t = q.t /\ g.hs = q.hs /\ g.initial_dcid = TRUE
      /\ g.ready = q.ready \cup ({0} \X {"READ", "WRITE"})
      /\ \A f \in OwnFields \ {"ready", "initial_dcid"} : g[f] = q[f]
  BY <1>2, <1>4 DEF OwnFields
<1>6. /\ g.step = q.step /\ g.key_phase = q.key_phase /\ g.rx_level = q.rx_level
      /\ g.handshake_tx = q.handshake_tx /\ g.handshake_hp_tx = q.handshake_hp_tx
      /\ g.handshake_rx = q.handshake_rx /\ g.handshake_hp_rx = q.handshake_hp_rx
      /\ g.app_tx = q.app_tx /\ g.app_hp_tx = q.app_hp_tx /\ g.app_rx = q.app_rx
  BY <1>5 DEF OwnFields
<1>7. \A x, label : Named(g, x, label) <=> Named(q, x, label)
  BY <1>5, Zenon DEF Named
<1>8. \A mine, what : Whose(g, mine, what) = Whose(q, mine, what)
  BY <1>5, Zenon DEF Whose
<1>9. /\ HandshakeWrites(g) <=> HandshakeWrites(q)
      /\ HandshakeReads(g) <=> HandshakeReads(q)
      /\ AppWrites(g) <=> AppWrites(q)
  BY <1>6, <1>7, <1>8, ZenonT(40) DEF HandshakeWrites, HandshakeReads, AppWrites
<1>10. AppReads(g) <=> AppReads(q)
  BY <1>5, <1>6, <1>7, <1>8, ZenonT(40) DEF AppReads
<1>11. \A dir : (Ready(g, 1, dir) <=> Ready(q, 1, dir)) /\ (Ready(g, 2, dir) <=> Ready(q, 2, dir))
  BY <1>5 DEF Ready
<1>17. AppKeys(q) => AppKeys(g)
  BY <1>5, <1>9, <1>10, <1>11, Zenon DEF AppKeys, Emptied
<1>12. WriteBits(g) /\ ReadBits(g)
  BY <1>1, <1>5, <1>9, <1>11, <1>17, ZenonT(40) DEF Alive, WriteBits, ReadBits
<1>13. /\ q.ready \subseteq {0} \X {"READ", "WRITE"} => g.ready \subseteq {0} \X {"READ", "WRITE"}
       /\ q.ready \subseteq {0, 1} \X {"READ", "WRITE"} => g.ready \subseteq {0, 1} \X {"READ", "WRITE"}
  BY <1>5
<1>14. Alive(g)
  BY <1>1, <1>5, <1>6, <1>11, <1>12, <1>13, <1>17, ZenonT(40) DEF Alive
<1>15. g.ready \subseteq Levels \X Dirs
  BY <1>1, <1>5 DEF Levels, Dirs
<1>16. Open(g) /\ g.t.buf = q.t.buf
  BY <1>1, <1>4, <1>5, SMTT(30) DEF Open
<1> QED BY <1>1, <1>6, <1>14, <1>15, <1>16, LiveKeeps, ZenonT(40)

\* What quic_seal counts is no part of what a bit names.
LEMMA SealsAt ==
    ASSUME NEW h, IsSession(h), NEW level
    PROVE  LET g == seal_at_level(h, level) IN
           /\ IsSession(g) /\ g.t = h.t /\ g.hs = h.hs
           /\ \A f \in OwnFields \ {"initial_sealed", "handshake_tx", "app_tx"} : g[f] = h[f]
           /\ \A name \in {"handshake_tx", "app_tx"} :
                 /\ h[name] = NoKeys /\ (name = "handshake_tx" => level # 1)
                                     /\ (name = "app_tx" => level # 2) => g[name] = NoKeys
                 /\ DOMAIN h[name] = KeyRecord =>
                       /\ DOMAIN g[name] = KeyRecord
                       /\ g[name].secret = h[name].secret /\ g[name].version = h[name].version
<1> DEFINE one == IF suite_runs_aes_gcm(h.t.suite) THEN 1 ELSE 0
           n0  == IF level = 0 THEN h.initial_sealed + 1 ELSE h.initial_sealed
           n1  == IF level = 1 THEN h.handshake_tx.sealed + one ELSE h.handshake_tx.sealed
           n2  == IF level = 2 THEN h.app_tx.sealed + one ELSE h.app_tx.sealed
           x1  == [h.handshake_tx EXCEPT !.sealed = n1]
           x2  == [h.app_tx EXCEPT !.sealed = n2]
           g   == seal_at_level(h, level)
<1>1. g = [h EXCEPT !.initial_sealed = n0, !.handshake_tx = x1, !.app_tx = x2]
  BY DEF seal_at_level, IsSession, OwnFields
<1>2. /\ h.handshake_tx = NoKeys /\ level # 1 => x1 = NoKeys
      /\ h.app_tx = NoKeys /\ level # 2 => x2 = NoKeys
  BY DEF NoKeys
<1>3. /\ DOMAIN h.handshake_tx = KeyRecord =>
            DOMAIN x1 = KeyRecord /\ x1.secret = h.handshake_tx.secret
            /\ x1.version = h.handshake_tx.version
      /\ DOMAIN h.app_tx = KeyRecord =>
            DOMAIN x2 = KeyRecord /\ x2.secret = h.app_tx.secret /\ x2.version = h.app_tx.version
  BY DEF KeyRecord
<1> HIDE DEF n0, x1, x2, g
<1>4. /\ IsSession(g) /\ g.t = h.t /\ g.hs = h.hs /\ g.handshake_tx = x1 /\ g.app_tx = x2
      /\ \A f \in OwnFields \ {"initial_sealed", "handshake_tx", "app_tx"} : g[f] = h[f]
  BY <1>1, ZenonT(40) DEF IsSession, OwnFields
<1> QED BY <1>2, <1>3, <1>4 DEF g

\* quic_seal keeps the invariant.
LEMMA SealKeeps ==
    ASSUME IInv, NEW level, NEW version, quic_seal(level, version)
    PROVE  IInv'
<1> DEFINE g == seal_at_level(q, level)
<1>1. /\ ~driving /\ ~session_dead(q) /\ Alive(q) /\ Open(q) /\ q.ready \subseteq Levels \X Dirs
      /\ UNCHANGED <<driving, rest, cut, closes>> /\ q' = g
  BY ZenonT(40) DEF quic_seal, CanSealNow, App, IInv, Open, Dirs
<1>2. /\ IsSession(g) /\ g.t = q.t /\ g.hs = q.hs
      /\ \A f \in OwnFields \ {"initial_sealed", "handshake_tx", "app_tx"} : g[f] = q[f]
      /\ \A name \in {"handshake_tx", "app_tx"} :
            DOMAIN q[name] = KeyRecord =>
               /\ DOMAIN g[name] = KeyRecord
               /\ g[name].secret = q[name].secret /\ g[name].version = q[name].version
  BY <1>1, SealsAt, SMTT(30) DEF Open
<1> HIDE DEF g
<1>3. /\ DOMAIN q.handshake_tx = KeyRecord =>
            /\ DOMAIN g.handshake_tx = DOMAIN q.handshake_tx
            /\ g.handshake_tx.secret = q.handshake_tx.secret
            /\ g.handshake_tx.version = q.handshake_tx.version
      /\ DOMAIN q.app_tx = KeyRecord =>
            /\ DOMAIN g.app_tx = DOMAIN q.app_tx
            /\ g.app_tx.secret = q.app_tx.secret /\ g.app_tx.version = q.app_tx.version
  BY <1>2, SMTT(30)
<1>4. /\ g.step = q.step /\ g.key_phase = q.key_phase /\ g.rx_level = q.rx_level
      /\ g.handshake_hp_tx = q.handshake_hp_tx /\ g.app_hp_tx = q.app_hp_tx
      /\ g.handshake_rx = q.handshake_rx /\ g.handshake_hp_rx = q.handshake_hp_rx
      /\ g.app_rx = q.app_rx /\ g.ready = q.ready /\ g.initial_dcid = q.initial_dcid
  BY <1>2 DEF OwnFields
<1>5. SameStory(q, g)
  BY <1>2, Zenon DEF SameStory
<1>6. \A x, label : Named(q, x, label) => Named(g, x, label) /\ DOMAIN x = KeyRecord
  BY <1>2, Zenon DEF Named
<1>7. \A mine, what : Whose(g, mine, what) = Whose(q, mine, what)
  BY <1>2, Zenon DEF Whose
<1>8. HandshakeWrites(q) => HandshakeWrites(g)
  <2> SUFFICES ASSUME HandshakeWrites(q) PROVE HandshakeWrites(g)
    OBVIOUS
  <2>1. Named(q, q.handshake_tx, Whose(q, TRUE, "hs")) /\ q.handshake_hp_tx = q.handshake_tx.secret
    BY Zenon DEF HandshakeWrites
  <2>2. /\ DOMAIN g.handshake_tx = DOMAIN q.handshake_tx
        /\ g.handshake_tx.secret = q.handshake_tx.secret
        /\ g.handshake_tx.version = q.handshake_tx.version
    BY <1>3, <1>6, <2>1, ZenonT(40)
  <2>3. Named(g, g.handshake_tx, Whose(q, TRUE, "hs"))
    BY <1>5, <2>1, <2>2, NameStays, ZenonT(40)
  <2> QED BY <1>4, <1>7, <2>1, <2>2, <2>3, ZenonT(40) DEF HandshakeWrites
<1>9. AppWrites(q) => AppWrites(g) /\ g.app_tx.secret = q.app_tx.secret
  <2> SUFFICES ASSUME AppWrites(q) PROVE AppWrites(g) /\ g.app_tx.secret = q.app_tx.secret
    OBVIOUS
  <2>1. /\ Named(q, q.app_tx, Whose(q, TRUE, "ap")) /\ q.app_tx.secret.ku \in Nat
        /\ q.app_hp_tx = [q.app_tx.secret EXCEPT !.ku = 0]
    BY Zenon DEF AppWrites
  <2>2. /\ DOMAIN g.app_tx = DOMAIN q.app_tx
        /\ g.app_tx.secret = q.app_tx.secret /\ g.app_tx.version = q.app_tx.version
    BY <1>3, <1>6, <2>1, ZenonT(40)
  <2>3. Named(g, g.app_tx, Whose(q, TRUE, "ap"))
    BY <1>5, <2>1, <2>2, NameStays, ZenonT(40)
  <2> QED BY <1>4, <1>7, <2>1, <2>2, <2>3, ZenonT(40) DEF AppWrites
<1>10. HandshakeReads(q) => HandshakeReads(g)
  BY <1>4, <1>6, <1>7, ZenonT(40) DEF HandshakeReads
<1>11. AppWrites(q) /\ AppReads(q) => AppReads(g)
  BY <1>2, <1>4, <1>6, <1>7, <1>9, ZenonT(40) DEF AppReads
<1>12. \A l, dir : Ready(g, l, dir) <=> Ready(q, l, dir)
  BY <1>4, Zenon DEF Ready
<1>16. AppKeys(q) => AppKeys(g)
  BY <1>2, <1>9, <1>11, <1>12, Zenon DEF AppKeys, Emptied
<1>13. WriteBits(g) /\ ReadBits(g)
  BY <1>1, <1>4, <1>8, <1>9, <1>10, <1>12, <1>16, ZenonT(40) DEF Alive, WriteBits, ReadBits
<1>14. Alive(g)
  BY <1>1, <1>2, <1>4, <1>12, <1>13, <1>16, ZenonT(40) DEF Alive
<1>15. Open(g) /\ g.ready \subseteq Levels \X Dirs /\ g.t.buf = q.t.buf
  BY <1>1, <1>2, <1>4 DEF Open
<1> QED BY <1>1, <1>4, <1>14, <1>15, LiveKeeps, Zenon

\* seal_close keeps the invariant: the write keys it used are gone.
LEMMA CloseSealKeeps ==
    ASSUME IInv, NEW level \in Levels, NEW version, seal_close(level, version)
    PROVE  IInv'
<1> DEFINE h == seal_at_level(q, level)
           g == quic_wipe_write_keys(h, level)
<1>1. /\ ~driving /\ q.t.state = "FAILED" /\ Ready(q, level, "WRITE")
      /\ UNCHANGED <<driving, rest, cut>> /\ q' = g
      /\ closes' = [closes EXCEPT ![level] = @ + 1]
  BY SMTT(30) DEF seal_close, CanSealClose, CanSeal, App, quic_seal_close
<1>2. /\ session_dead(q) /\ Dead(q) /\ Open(q) /\ q.ready \subseteq Levels \X Dirs
      /\ DOMAIN closes = Levels /\ Closed(q, closes)
  BY <1>1, SMTT(30) DEF IInv, Open, Dirs, session_dead
<1>3. /\ IsSession(h) /\ h.t = q.t /\ h.hs = q.hs
      /\ \A f \in OwnFields \ {"initial_sealed", "handshake_tx", "app_tx"} : h[f] = q[f]
      /\ \A name \in {"handshake_tx", "app_tx"} :
            /\ q[name] = NoKeys /\ (name = "handshake_tx" => level # 1)
                                /\ (name = "app_tx" => level # 2) => h[name] = NoKeys
            /\ DOMAIN q[name] = KeyRecord =>
                  /\ DOMAIN h[name] = KeyRecord
                  /\ h[name].secret = q[name].secret /\ h[name].version = q[name].version
  BY <1>2, SealsAt, ZenonT(40) DEF Open
<1> HIDE DEF h
<1>4. /\ IsSession(g) /\ g.t = h.t /\ g.hs = h.hs
      /\ g.ready = h.ready \ {<<level, "WRITE">>}
      /\ \A f \in OwnFields \ (WriteFields \cup {"ready"}) : g[f] = h[f]
      /\ g.initial_dcid = (h.initial_dcid /\ level # 0)
      /\ g.handshake_tx = IF level = 1 THEN NoKeys ELSE h.handshake_tx
      /\ g.handshake_hp_tx = IF level = 1 THEN NoSecret ELSE h.handshake_hp_tx
      /\ g.app_tx = IF level = 2 THEN NoKeys ELSE h.app_tx
      /\ g.app_hp_tx = IF level = 2 THEN NoSecret ELSE h.app_hp_tx
  BY <1>3, WipesWrite, ZenonT(40)
<1> HIDE DEF g
<1>5. /\ h.ready = q.ready /\ h.initial_dcid = q.initial_dcid
      /\ h.handshake_hp_tx = q.handshake_hp_tx /\ h.app_hp_tx = q.app_hp_tx
      /\ g.handshake_rx = q.handshake_rx /\ g.handshake_hp_rx = q.handshake_hp_rx
      /\ g.app_rx = q.app_rx /\ g.app_hp_rx = q.app_hp_rx
      /\ g.alert = q.alert /\ g.step = q.step /\ g.tx = q.tx
  BY <1>3, <1>4 DEF OwnFields, WriteFields
<1>6. g.t = q.t /\ g.hs = q.hs
  BY <1>3, <1>4, SMTT(30)
<1>7. g.ready = q.ready \ {<<level, "WRITE">>}
  BY <1>4, <1>5
<1>8. /\ \A l, dir : Ready(g, l, dir) => Ready(q, l, dir)
      /\ \A l : Ready(g, l, "WRITE") <=> Ready(q, l, "WRITE") /\ l # level
  BY <1>7, SMTT(30) DEF Ready
<1>9. /\ q.handshake_tx = NoKeys /\ level # 1 => h.handshake_tx = NoKeys
      /\ q.app_tx = NoKeys /\ level # 2 => h.app_tx = NoKeys
      /\ DOMAIN q.handshake_tx = KeyRecord =>
            /\ DOMAIN h.handshake_tx = DOMAIN q.handshake_tx
            /\ h.handshake_tx.secret = q.handshake_tx.secret
            /\ h.handshake_tx.version = q.handshake_tx.version
      /\ DOMAIN q.app_tx = KeyRecord =>
            /\ DOMAIN h.app_tx = DOMAIN q.app_tx
            /\ h.app_tx.secret = q.app_tx.secret /\ h.app_tx.version = q.app_tx.version
  BY <1>3
<1>10. WriteBits(q) /\ NoReads(q) /\ NoWrites(q)
  BY <1>2, Zenon DEF Dead
<1>11. SameWrites(q, g)
  <2>1. ASSUME Ready(g, 0, "WRITE")
        PROVE  Ready(q, 0, "WRITE") /\ (q.initial_dcid => g.initial_dcid)
    BY <1>4, <1>5, <1>8, <2>1, Zenon
  <2>2. ASSUME Ready(g, 1, "WRITE")
        PROVE  /\ Ready(q, 1, "WRITE") /\ g.handshake_tx.secret = q.handshake_tx.secret
               /\ g.handshake_tx.version = q.handshake_tx.version
               /\ DOMAIN g.handshake_tx = DOMAIN q.handshake_tx
               /\ g.handshake_hp_tx = q.handshake_hp_tx
    <3>1. Ready(q, 1, "WRITE") /\ level # 1
      BY <1>8, <2>2, Zenon
    <3>2. DOMAIN q.handshake_tx = KeyRecord
      BY <3>1, <1>10, ZenonT(40) DEF WriteBits, HandshakeWrites, Named
    <3>3. g.handshake_tx = h.handshake_tx /\ g.handshake_hp_tx = q.handshake_hp_tx
      BY <3>1, <1>4, <1>5, ZenonT(40)
    <3> QED BY <3>1, <3>2, <3>3, <1>9, Zenon
  <2>3. ASSUME Ready(g, 2, "WRITE")
        PROVE  /\ Ready(q, 2, "WRITE") /\ g.app_tx.secret = q.app_tx.secret
               /\ g.app_tx.version = q.app_tx.version /\ DOMAIN g.app_tx = DOMAIN q.app_tx
               /\ g.app_hp_tx = q.app_hp_tx
    <3>1. Ready(q, 2, "WRITE") /\ level # 2
      BY <1>8, <2>3, ZenonT(40)
    <3>2. DOMAIN q.app_tx = KeyRecord
      BY <3>1, <1>10, Zenon DEF WriteBits, AppWrites, Named
    <3>3. g.app_tx = h.app_tx /\ g.app_hp_tx = q.app_hp_tx
      BY <3>1, <1>4, <1>5, ZenonT(40)
    <3> QED BY <3>1, <3>2, <3>3, <1>9, ZenonT(40)
  <2> QED BY <2>1, <2>2, <2>3, ZenonT(40) DEF SameWrites
<1>12. SameStory(q, g)
  BY <1>6, Zenon DEF SameStory
<1>13. WriteBits(g)
  BY <1>10, <1>11, <1>12, WriteBitsStay, ZenonT(40)
<1>14. NoReads(g)
  BY <1>5, <1>8, <1>10, ZenonT(40) DEF NoReads
<1>15. NoWrites(g)
  <2>1. ~Ready(g, 0, "WRITE") => ~g.initial_dcid
    BY <1>4, <1>5, <1>8, <1>10, ZenonT(40) DEF NoWrites
  <2>2. ~Ready(g, 1, "WRITE") => g.handshake_tx = NoKeys /\ g.handshake_hp_tx = NoSecret
    BY <1>4, <1>5, <1>8, <1>9, <1>10, Zenon DEF NoWrites
  <2>3. ~Ready(g, 2, "WRITE") => g.app_tx = NoKeys /\ g.app_hp_tx = NoSecret
    BY <1>4, <1>5, <1>8, <1>9, <1>10, Zenon DEF NoWrites
  <2> QED BY <2>1, <2>2, <2>3, ZenonT(40) DEF NoWrites
<1>16. Dead(g) /\ session_dead(g)
  <2>1. session_dead(g)
    BY <1>2, <1>6, ZenonT(40) DEF session_dead
  <2>2. g.t.state # "CLOSED"
    BY <1>1, <1>6, SMTT(30)
  <2> QED BY <2>1, <2>2, <1>2, <1>5, <1>6, <1>13, <1>14, <1>15, ZenonT(40) DEF Dead
<1>17. DOMAIN closes' = Levels
  BY <1>1, <1>2
<1>18. Closed(g, closes')
  <2>1. closes[level] = 0
    BY <1>1, <1>2, ZenonT(40) DEF Closed
  <2>2. closes'[level] = 1 /\ \A l \in Levels \ {level} : closes'[l] = closes[l]
    BY <1>1, <1>2, <2>1
  <2>3. ~Ready(g, level, "WRITE")
    BY <1>8, ZenonT(40)
  <2>4. ASSUME NEW l \in Levels
        PROVE  \/ closes'[l] = 0
               \/ closes'[l] = 1 /\ session_dead(g) /\ ~Ready(g, l, "WRITE")
    <3>1. CASE l = level
      BY <2>2, <2>3, <3>1, <1>16
    <3>2. CASE l # level
      <4>1. closes'[l] = closes[l]
        BY <2>2, <3>2, SMTT(30)
      <4> QED BY <4>1, <1>2, <1>8, <1>16, ZenonT(40) DEF Closed
    <3> QED BY <3>1, <3>2, SMTT(30)
  <2> QED BY <2>4 DEF Closed
<1>19. Open(g) /\ g.ready \subseteq Levels \X Dirs
  BY <1>2, <1>4, <1>6, <1>7 DEF Open
<1> QED BY <1>1, <1>16, <1>17, <1>18, <1>19, DeadKeeps, ZenonT(40)

\* quic_open keeps the invariant: one packet too many that does not open ends it.
LEMMA OpenKeeps ==
    ASSUME IInv, NEW level, NEW version, quic_open(level, version)
    PROVE  IInv'
<1> DEFINE n == q.open_failures + 1
           c == [q EXCEPT !.open_failures = n]
           h == [c EXCEPT !.hs.alert = "bad_record_mac"]
<1>1. /\ ~driving /\ ~session_dead(q) /\ Alive(q) /\ Open(q) /\ q.ready \subseteq Levels \X Dirs
      /\ UNCHANGED <<driving, rest, cut, closes>> /\ q' = open_failed(q)
      /\ CellsOk(cut) /\ rest = << >> /\ driving = FALSE
  BY DEF quic_open, CanOpen, App, IInv, Open, Dirs
<1>2. c = [q EXCEPT !.open_failures = @ + 1]
  BY <1>1 DEF Open, IsSession, OwnFields
<1>3. q' = c \/ q' = quic_fail(h)
  <2>1. q' = IF quic_integrity_limit_exceeded(c.open_failures) THEN quic_fail(h) ELSE c
    BY <1>1, <1>2, ZenonT(40) DEF open_failed
  <2> HIDE DEF c, h
  <2> QED BY <2>1, Zenon
<1> HIDE DEF n
<1>4. /\ IsSession(c) /\ c.t = q.t /\ c.hs = q.hs
      /\ \A f \in OwnFields \ {"open_failures"} : c[f] = q[f]
  BY <1>1 DEF Open, IsSession, OwnFields
<1> HIDE DEF c
<1>5. /\ \A f \in KeyFields : c[f] = q[f]
      /\ c.step = q.step /\ c.rx_level = q.rx_level /\ c.ready = q.ready
  BY <1>4 DEF OwnFields, KeyFields, ReadFields, WriteFields
<1>6. SameKeys(q, c) /\ Open(c)
  BY <1>1, <1>4, <1>5, EditKeys, ZenonT(40)
<1>7. CASE q' = c
  <2>1. Alive(c)
    BY <1>1, <1>4, <1>5, <1>6, AliveStays, ZenonT(40)
  <2> QED BY <1>1, <1>4, <1>5, <1>6, <1>7, <2>1, LiveKeeps, ZenonT(40)
<1>8. CASE q' = quic_fail(h)
  <2>1. /\ IsSession(h) /\ h.t = c.t /\ h.hs.alert = "bad_record_mac" /\ h.ready = c.ready
        /\ \A f \in KeyFields : h[f] = c[f]
    BY <1>4 DEF IsSession, OwnFields, HsFields, KeyFields, ReadFields, WriteFields
  <2> HIDE DEF h
  <2>2. Open(h) /\ SameKeys(c, h)
    BY <1>6, <2>1, EditKeys, ZenonT(40)
  <2>3. WriteBits(h)
    BY <1>1, <1>6, <2>2, KeysStay, ZenonT(40) DEF Alive
  <2>4. h.ready \subseteq Levels \X Dirs /\ h.hs.alert # "none"
    BY <1>1, <1>5, <2>1
  <2>5. CellsOk(cut') /\ rest' = << >> /\ driving' = FALSE
    BY <1>1, SMTT(30)
  <2> QED BY <1>1, <1>8, <2>2, <2>3, <2>4, <2>5, FailKeeps, ZenonT(40)
<1> QED BY <1>3, <1>7, <1>8, SMTT(30)

\* Both keys of one level go, and its bits.
LEMMA Discards ==
    ASSUME NEW h, IsSession(h), NEW level
    PROVE  LET g == quic_discard(h, level) IN
           /\ IsSession(g) /\ g.t = h.t /\ g.hs = h.hs
           /\ g.ready = h.ready \ {<<level, "READ">>, <<level, "WRITE">>}
           /\ \A f \in OwnFields \ (WriteFields \cup ReadFields \cup {"ready"}) : g[f] = h[f]
           /\ level # 0 => (g.initial_dcid <=> h.initial_dcid)
           /\ level = 0 => ~g.initial_dcid
           /\ level # 1 => /\ g.handshake_tx = h.handshake_tx /\ g.handshake_hp_tx = h.handshake_hp_tx
                           /\ g.handshake_rx = h.handshake_rx /\ g.handshake_hp_rx = h.handshake_hp_rx
           /\ level = 1 => /\ g.handshake_tx = NoKeys /\ g.handshake_hp_tx = NoSecret
                           /\ g.handshake_rx = NoKeys /\ g.handshake_hp_rx = NoSecret
           /\ level # 2 => /\ g.app_tx = h.app_tx /\ g.app_hp_tx = h.app_hp_tx
                           /\ g.app_rx = h.app_rx /\ g.app_hp_rx = h.app_hp_rx
           /\ level = 2 => /\ g.app_tx = NoKeys /\ g.app_hp_tx = NoSecret
                           /\ g.app_rx = [s \in KeySets |-> NoKeys] /\ g.app_hp_rx = NoSecret
<1> DEFINE w == quic_wipe_write_keys(h, level)
           g == quic_discard(h, level)
<1>1. /\ IsSession(w) /\ w.t = h.t /\ w.hs = h.hs
      /\ w.ready = h.ready \ {<<level, "WRITE">>}
      /\ \A f \in OwnFields \ (WriteFields \cup {"ready"}) : w[f] = h[f]
      /\ w.initial_dcid = (h.initial_dcid /\ level # 0)
      /\ w.handshake_tx = IF level = 1 THEN NoKeys ELSE h.handshake_tx
      /\ w.handshake_hp_tx = IF level = 1 THEN NoSecret ELSE h.handshake_hp_tx
      /\ w.app_tx = IF level = 2 THEN NoKeys ELSE h.app_tx
      /\ w.app_hp_tx = IF level = 2 THEN NoSecret ELSE h.app_hp_tx
  BY WipesWrite
<1> HIDE DEF w
<1>2. g = wipe_read_keys(w, level)
  BY SMTT(30) DEF quic_discard, w
<1> HIDE DEF g
<1>3. /\ IsSession(g) /\ g.t = w.t /\ g.hs = w.hs
      /\ g.ready = w.ready \ {<<level, "READ">>}
      /\ \A f \in OwnFields \ (ReadFields \cup {"ready"}) : g[f] = w[f]
      /\ g.handshake_rx = IF level = 1 THEN NoKeys ELSE w.handshake_rx
      /\ g.handshake_hp_rx = IF level = 1 THEN NoSecret ELSE w.handshake_hp_rx
      /\ g.app_rx = IF level = 2 THEN [s \in KeySets |-> NoKeys] ELSE w.app_rx
      /\ g.app_hp_rx = IF level = 2 THEN NoSecret ELSE w.app_hp_rx
  BY <1>1, <1>2, WipesRead
<1>4. /\ g.initial_dcid = w.initial_dcid
      /\ g.handshake_tx = w.handshake_tx /\ g.handshake_hp_tx = w.handshake_hp_tx
      /\ g.app_tx = w.app_tx /\ g.app_hp_tx = w.app_hp_tx
      /\ w.handshake_rx = h.handshake_rx /\ w.handshake_hp_rx = h.handshake_hp_rx
      /\ w.app_rx = h.app_rx /\ w.app_hp_rx = h.app_hp_rx
  BY <1>1, <1>3 DEF OwnFields, ReadFields, WriteFields
<1>5. \A f \in OwnFields \ (WriteFields \cup ReadFields \cup {"ready"}) : g[f] = h[f]
  <2>1. \A f \in OwnFields \ (WriteFields \cup ReadFields \cup {"ready"}) :
            g[f] = w[f] /\ w[f] = h[f]
    BY <1>1, <1>3, ZenonT(40)
  <2> QED BY <2>1
<1>6. g.ready = h.ready \ {<<level, "READ">>, <<level, "WRITE">>}
  BY <1>1, <1>3
<1> QED BY <1>1, <1>3, <1>4, <1>5, <1>6, ZenonT(40) DEF g

\* discard keeps the invariant.
LEMMA DiscardKeeps ==
    ASSUME IInv, NEW level \in Levels, discard(level)
    PROVE  IInv'
<1> DEFINE g == quic_discard(q, level)
<1>1. /\ ~driving /\ UNCHANGED <<driving, rest, cut, closes>> /\ q' = g
      /\ Open(q) /\ q.ready \subseteq Levels \X Dirs
      /\ DOMAIN closes = Levels /\ Closed(q, closes)
  BY SMTT(30) DEF discard, App, IInv, Open, Dirs
<1>2. /\ IsSession(g) /\ g.t = q.t /\ g.hs = q.hs
      /\ g.ready = q.ready \ {<<level, "READ">>, <<level, "WRITE">>}
      /\ \A f \in OwnFields \ (WriteFields \cup ReadFields \cup {"ready"}) : g[f] = q[f]
      /\ level # 0 => (g.initial_dcid <=> q.initial_dcid)
      /\ level = 0 => ~g.initial_dcid
      /\ level # 1 => /\ g.handshake_tx = q.handshake_tx /\ g.handshake_hp_tx = q.handshake_hp_tx
                      /\ g.handshake_rx = q.handshake_rx /\ g.handshake_hp_rx = q.handshake_hp_rx
      /\ level = 1 => /\ g.handshake_tx = NoKeys /\ g.handshake_hp_tx = NoSecret
                      /\ g.handshake_rx = NoKeys /\ g.handshake_hp_rx = NoSecret
      /\ level # 2 => /\ g.app_tx = q.app_tx /\ g.app_hp_tx = q.app_hp_tx
                      /\ g.app_rx = q.app_rx /\ g.app_hp_rx = q.app_hp_rx
      /\ level = 2 => /\ g.app_tx = NoKeys /\ g.app_hp_tx = NoSecret
                      /\ g.app_rx = [s \in KeySets |-> NoKeys] /\ g.app_hp_rx = NoSecret
  BY <1>1, Discards DEF Open
<1> HIDE DEF g
<1>3. /\ g.step = q.step /\ g.key_phase = q.key_phase /\ g.rx_level = q.rx_level
      /\ g.alert = q.alert /\ g.tx = q.tx
  BY <1>2 DEF OwnFields, WriteFields, ReadFields
<1>4. \A l, dir : Ready(g, l, dir) => Ready(q, l, dir)
  BY <1>2 DEF Ready
<1>5. \A l : \A dir \in Dirs : Ready(g, l, dir) <=> Ready(q, l, dir) /\ l # level
  BY <1>2 DEF Ready, Dirs
<1>6. \A l : /\ Ready(g, l, "READ") <=> Ready(q, l, "READ") /\ l # level
             /\ Ready(g, l, "WRITE") <=> Ready(q, l, "WRITE") /\ l # level
  BY <1>5 DEF Dirs
<1>7. \A x, label : Named(g, x, label) <=> Named(q, x, label)
  BY <1>2, Zenon DEF Named
<1>8. \A mine, what : Whose(g, mine, what) = Whose(q, mine, what)
  BY <1>2, Zenon DEF Whose
<1>9. level # 1 => (HandshakeWrites(g) <=> HandshakeWrites(q)) /\ (HandshakeReads(g) <=> HandshakeReads(q))
  BY <1>2, <1>7, <1>8, ZenonT(40) DEF HandshakeWrites, HandshakeReads
<1>10. level # 2 => (AppWrites(g) <=> AppWrites(q)) /\ (AppReads(g) <=> AppReads(q))
  <2> SUFFICES ASSUME level # 2
               PROVE  (AppWrites(g) <=> AppWrites(q)) /\ (AppReads(g) <=> AppReads(q))
    BY SMTT(30)
  <2>1. /\ g.app_tx = q.app_tx /\ g.app_hp_tx = q.app_hp_tx /\ g.app_rx = q.app_rx
        /\ g.t = q.t /\ g.key_phase = q.key_phase
    BY <1>2, <1>3
  <2> DEFINE mine == Whose(q, TRUE, "ap")
             its  == Whose(q, FALSE, "ap")
             cur  == q.app_rx["CURRENT"]
  <2>2. Whose(g, TRUE, "ap") = mine /\ Whose(g, FALSE, "ap") = its
    BY <1>8, Zenon
  <2>3. Named(g, q.app_tx, mine) <=> Named(q, q.app_tx, mine)
    BY <1>7, Zenon
  <2>4. Named(g, cur, its) <=> Named(q, cur, its)
    BY <1>7, ZenonT(40)
  <2>5. AppWrites(g) <=> AppWrites(q)
    BY <2>1, <2>2, <2>3, Zenon DEF AppWrites
  <2>6. AppReads(g) <=> AppReads(q)
    BY <2>1, <2>2, <2>4, Zenon DEF AppReads
  <2> QED BY <2>5, <2>6
<1>11. level # 2 => (AppKeys(q) => AppKeys(g))
  BY <1>2, <1>6, <1>10, Zenon DEF AppKeys, Emptied
<1>12. WriteBits(q) => WriteBits(g)
  BY <1>2, <1>6, <1>9, <1>10, ZenonT(40) DEF WriteBits
<1>13. ReadBits(q) => ReadBits(g)
  BY <1>2, <1>6, <1>9, <1>10, <1>11, ZenonT(40) DEF ReadBits
<1>14. Open(g) /\ g.ready \subseteq Levels \X Dirs /\ g.ready \subseteq q.ready
  BY <1>1, <1>2 DEF Open
<1>15. CASE ~session_dead(q)
  <2>1. Alive(q)
    BY <1>15 DEF IInv
  <2>2. q.t.cfg.role = "server" /\ AppKeys(q) => AppKeys(g)
    <3>1. CASE level = 2
      <4>1. ~Ready(g, 2, "WRITE")
        BY <1>6, <3>1
      <4> QED BY <4>1, <1>2 DEF AppKeys, Emptied
    <3>2. CASE level # 2
      BY <3>2, <1>11, Zenon
    <3> QED BY <3>1, <3>2, Zenon
  <2>3. WriteBits(g) /\ ReadBits(g)
    BY <2>1, <1>12, <1>13, ZenonT(40) DEF Alive
  <2>4. DOMAIN q.app_rx = KeySets => DOMAIN g.app_rx = KeySets
    <3>1. CASE level = 2
      BY <3>1, <1>2
    <3>2. CASE level # 2
      BY <3>2, <1>2, Zenon
    <3> QED BY <3>1, <3>2, Zenon
  <2>7. (Ready(q, 2, "WRITE") => Ready(q, 2, "READ")) => (Ready(g, 2, "WRITE") => Ready(g, 2, "READ"))
    BY <1>6, ZenonT(40)
  <2>8. g.hs = q.hs /\ g.t = q.t
    BY <1>2
  <2>9. CASE q.step = "COMPLETE"
    <3>1. q.hs = NoHs /\ (Ready(q, 2, "WRITE") => Ready(q, 2, "READ"))
      BY <2>1, <2>9 DEF Alive, HelloSteps, FlightSteps
    <3>2. Alive(g)
      BY <3>1, <2>1, <2>3, <2>7, <2>8, <2>9, <1>3, ZenonT(40) DEF Alive
    <3> QED BY <3>2, <1>1, <1>3, <1>14, <1>15, <2>8, LiveKeeps, ZenonT(40)
  <2>10. CASE q.step # "COMPLETE"
    <3>1. \A S : q.ready \subseteq S => g.ready \subseteq S
      BY <1>14
    <3>2. Alive(g)
      BY <3>1, <2>1, <2>2, <2>3, <2>4, <2>8, <2>10, <1>3, <1>4, ZenonT(40) DEF Alive
    <3> QED BY <3>2, <1>1, <1>3, <1>14, <1>15, <2>8, LiveKeeps, Zenon
  <2> QED BY <2>9, <2>10, SMTT(30)
<1>16. CASE session_dead(q)
  <2>1. Dead(q)
    BY <1>16 DEF IInv
  <2>2. WriteBits(g) /\ NoReads(q) /\ NoWrites(q)
    BY <2>1, <1>12, ZenonT(40) DEF Dead
  <2>3. NoReads(g)
    <3>1. \A l \in Levels : ~Ready(g, l, "READ")
      BY <1>4, <2>2, ZenonT(40) DEF NoReads
    <3>2. g.handshake_rx = NoKeys /\ g.handshake_hp_rx = NoSecret
      BY <1>2, <2>2, Zenon DEF NoReads
    <3>3. g.app_rx = [s \in KeySets |-> NoKeys] /\ g.app_hp_rx = NoSecret
      BY <1>2, <2>2, ZenonT(40) DEF NoReads
    <3> QED BY <3>1, <3>2, <3>3, ZenonT(40) DEF NoReads
  <2>4. NoWrites(g)
    BY <1>2, <1>6, <2>2, ZenonT(40) DEF NoWrites
  <2>5. q.ready = {} => g.ready = {}
    BY <1>14
  <2>6. Dead(g) /\ session_dead(g)
    BY <1>2, <1>3, <1>16, <2>1, <2>2, <2>3, <2>4, <2>5, ZenonT(40) DEF Dead, session_dead
  <2>7. Closed(g, closes')
    BY <1>1, <1>4, <2>6, ZenonT(40) DEF Closed
  <2>8. DOMAIN closes' = Levels
    BY <1>1
  <2> QED BY <1>1, <1>14, <2>6, <2>7, <2>8, DeadKeeps, ZenonT(40)
<1> QED BY <1>15, <1>16, SMTT(30)

\* drop_previous_keys keeps the invariant.
LEMMA DropKeeps ==
    ASSUME IInv, drop_previous_keys
    PROVE  IInv'
<1> DEFINE rx == [q.app_rx EXCEPT !["PREVIOUS"] = NoKeys]
           g  == [q EXCEPT !.app_rx = rx]
<1>1. /\ ~driving /\ UNCHANGED <<driving, rest, cut, closes>>
      /\ q' = [q EXCEPT !.app_rx["PREVIOUS"] = NoKeys]
      /\ Open(q) /\ q.ready \subseteq Levels \X Dirs
      /\ DOMAIN closes = Levels /\ Closed(q, closes)
  BY DEF drop_previous_keys, quic_drop_previous_keys, App, IInv, Open, Dirs
<1>2. q' = g
  BY <1>1 DEF Open, IsSession, OwnFields
<1>3. DOMAIN rx = DOMAIN q.app_rx
  OBVIOUS
<1>4. DOMAIN rx = KeySets => rx["CURRENT"] = q.app_rx["CURRENT"] /\ rx["NEXT"] = q.app_rx["NEXT"]
  BY DEF KeySets
<1>5. q.app_rx = [s \in KeySets |-> NoKeys] => rx = q.app_rx
  BY DEF KeySets
<1> HIDE DEF rx
<1>6. /\ IsSession(g) /\ g.t = q.t /\ g.hs = q.hs /\ g.app_rx = rx
      /\ \A f \in OwnFields \ {"app_rx"} : g[f] = q[f]
  BY <1>1 DEF Open, IsSession, OwnFields
<1> HIDE DEF g
<1>7. /\ g.step = q.step /\ g.key_phase = q.key_phase /\ g.rx_level = q.rx_level
      /\ g.alert = q.alert /\ g.tx = q.tx /\ g.ready = q.ready /\ g.initial_dcid = q.initial_dcid
      /\ g.app_tx = q.app_tx /\ g.app_hp_tx = q.app_hp_tx /\ g.app_hp_rx = q.app_hp_rx
      /\ g.handshake_tx = q.handshake_tx /\ g.handshake_hp_tx = q.handshake_hp_tx
      /\ g.handshake_rx = q.handshake_rx /\ g.handshake_hp_rx = q.handshake_hp_rx
  BY <1>6 DEF OwnFields
<1>8. \A l, dir : Ready(g, l, dir) <=> Ready(q, l, dir)
  BY <1>7 DEF Ready
<1>9. \A x, label : Named(g, x, label) <=> Named(q, x, label)
  BY <1>6, Zenon DEF Named
<1>10. \A mine, what : Whose(g, mine, what) = Whose(q, mine, what)
  BY <1>6, Zenon DEF Whose
<1>11. /\ HandshakeWrites(g) <=> HandshakeWrites(q)
       /\ HandshakeReads(g) <=> HandshakeReads(q)
       /\ AppWrites(g) <=> AppWrites(q)
  BY <1>7, <1>9, <1>10, ZenonT(40) DEF HandshakeWrites, HandshakeReads, AppWrites
<1>12. AppReads(q) => AppReads(g)
  <2> SUFFICES ASSUME AppReads(q) PROVE AppReads(g)
    OBVIOUS
  <2> DEFINE cur == q.app_rx["CURRENT"]
             nxt == q.app_rx["NEXT"]
  <2>1. /\ DOMAIN q.app_rx = KeySets /\ Named(q, cur, Whose(q, FALSE, "ap"))
        /\ cur.secret.ku = q.app_tx.secret.ku /\ q.key_phase = q.app_tx.secret.ku % 2
        /\ nxt = quic_keys_update(cur.secret, cur.version)
        /\ nxt.secret = q.t.rd_secret /\ q.app_tx.secret = q.t.wr_secret
    BY ZenonT(40) DEF AppReads
  <2>2. DOMAIN g.app_rx = KeySets /\ g.app_rx["CURRENT"] = cur /\ g.app_rx["NEXT"] = nxt
    BY <2>1, <1>3, <1>4, <1>6
  <2> HIDE DEF cur, nxt
  <2> QED BY <2>1, <2>2, <1>6, <1>7, <1>9, <1>10, ZenonT(40) DEF AppReads
<1>17. AppKeys(q) => AppKeys(g)
  BY <1>6, <1>8, <1>11, <1>12, Zenon DEF AppKeys, Emptied
<1>13. (WriteBits(q) => WriteBits(g)) /\ (ReadBits(q) => ReadBits(g))
  BY <1>7, <1>8, <1>11, <1>17, ZenonT(40) DEF WriteBits, ReadBits
<1>14. Open(g) /\ g.ready \subseteq Levels \X Dirs
  BY <1>1, <1>6, <1>7 DEF Open
<1>15. CASE ~session_dead(q)
  <2>1. Alive(q)
    BY <1>15 DEF IInv
  <2>2. Alive(g)
    BY <2>1, <1>3, <1>6, <1>7, <1>8, <1>13, <1>17, ZenonT(40) DEF Alive
  <2> QED BY <2>2, <1>1, <1>2, <1>6, <1>7, <1>14, <1>15, LiveKeeps, ZenonT(40)
<1>16. CASE session_dead(q)
  <2>1. Dead(q)
    BY <1>16 DEF IInv
  <2>2. NoReads(g)
    BY <2>1, <1>5, <1>6, <1>7, <1>8, ZenonT(40) DEF Dead, NoReads
  <2>3. NoWrites(g)
    BY <2>1, <1>7, <1>8, ZenonT(40) DEF Dead, NoWrites
  <2>4. Dead(g) /\ session_dead(g)
    BY <2>1, <2>2, <2>3, <1>6, <1>7, <1>13, <1>16, ZenonT(40) DEF Dead, session_dead
  <2>5. Closed(g, closes')
    BY <1>1, <1>8, <2>4, ZenonT(40) DEF Closed
  <2>6. DOMAIN closes' = Levels
    BY <1>1
  <2> QED BY <1>1, <1>2, <1>14, <2>4, <2>5, <2>6, DeadKeeps, ZenonT(40)
<1> QED BY <1>15, <1>16

\* All the keys go.
LEMMA WipesAll ==
    ASSUME NEW h, IsSession(h), h.ready \subseteq Levels \X Dirs
    PROVE  LET g == quic_wipe(h) IN
           /\ IsSession(g) /\ g.hs = NoHs /\ NoReads(g) /\ NoWrites(g)
           /\ g.t.rd_secret = NoSecret /\ g.t.wr_secret = NoSecret /\ g.t.res_master = NoSecret
           /\ g.t.buf = << >> /\ g.tx = << >> /\ g.ready = {}
           /\ g.t.transcript = h.t.transcript
<1> DEFINE a == wipe_all_but_write_keys(h)
           b == quic_wipe_write_keys(a, 0)
           c == quic_wipe_write_keys(b, 1)
           g == quic_wipe_write_keys(c, 2)
<1>1. /\ IsSession(a) /\ a.hs = NoHs /\ NoReads(a)
      /\ a.t.rd_secret = NoSecret /\ a.t.wr_secret = NoSecret /\ a.t.res_master = NoSecret
      /\ a.t.buf = << >> /\ a.tx = << >> /\ a.ready \subseteq h.ready
      /\ \A f \in TlsFields \ {"rd_secret", "wr_secret", "res_master", "buf"} : a.t[f] = h.t[f]
  BY WipesRest, SMTT(30)
<1> HIDE DEF a
<1>2. /\ IsSession(b) /\ b.t = a.t /\ b.hs = a.hs /\ b.ready = a.ready \ {<<0, "WRITE">>}
      /\ \A f \in OwnFields \ (WriteFields \cup {"ready"}) : b[f] = a[f]
      /\ b.initial_dcid = (a.initial_dcid /\ 0 # 0)
  BY <1>1, WipesWrite, SMTT(30)
<1> HIDE DEF b
<1>3. /\ IsSession(c) /\ c.t = b.t /\ c.hs = b.hs /\ c.ready = b.ready \ {<<1, "WRITE">>}
      /\ \A f \in OwnFields \ (WriteFields \cup {"ready"}) : c[f] = b[f]
      /\ c.initial_dcid = (b.initial_dcid /\ 1 # 0)
      /\ c.handshake_tx = NoKeys /\ c.handshake_hp_tx = NoSecret
  BY <1>2, WipesWrite, SMTT(30)
<1> HIDE DEF c
<1>4. /\ IsSession(g) /\ g.t = c.t /\ g.hs = c.hs /\ g.ready = c.ready \ {<<2, "WRITE">>}
      /\ \A f \in OwnFields \ (WriteFields \cup {"ready"}) : g[f] = c[f]
      /\ g.initial_dcid = (c.initial_dcid /\ 2 # 0)
      /\ g.handshake_tx = c.handshake_tx /\ g.handshake_hp_tx = c.handshake_hp_tx
      /\ g.app_tx = NoKeys /\ g.app_hp_tx = NoSecret
  BY <1>3, WipesWrite, SMTT(30)
<1> HIDE DEF g
<1>5. \A f \in OwnFields \ (WriteFields \cup {"ready"}) : g[f] = a[f]
  BY <1>2, <1>3, <1>4, SMTT(30)
<1>6. /\ g.handshake_rx = a.handshake_rx /\ g.handshake_hp_rx = a.handshake_hp_rx
      /\ g.app_rx = a.app_rx /\ g.app_hp_rx = a.app_hp_rx /\ g.tx = a.tx
  BY <1>5, SMTT(30) DEF OwnFields, WriteFields
<1>7. ~g.initial_dcid
  BY <1>2, <1>3, <1>4, ZenonT(40)
<1>8. \A l \in Levels : <<l, "READ">> \notin a.ready
  BY <1>1, ZenonT(40) DEF NoReads, Ready
<1>9. g.ready = {}
  BY <1>1, <1>2, <1>3, <1>4, <1>8 DEF Levels, Dirs
<1>10. NoReads(g)
  <2>1. \A l \in Levels : ~Ready(g, l, "READ")
    BY <1>9 DEF Ready
  <2> QED BY <2>1, <1>1, <1>6, ZenonT(40) DEF NoReads
<1>11. NoWrites(g)
  BY <1>3, <1>4, <1>7, ZenonT(40) DEF NoWrites
<1>12. g.t = a.t /\ g.hs = a.hs
  BY <1>2, <1>3, <1>4, SMTT(30)
<1>13. g.t.transcript = h.t.transcript
  BY <1>1, <1>12 DEF TlsFields
<1>14. g = quic_wipe(h)
  BY Zenon DEF g, c, b, a, quic_wipe
<1> QED BY <1>1, <1>4, <1>6, <1>9, <1>10, <1>11, <1>12, <1>13, <1>14, ZenonT(40)

\* close keeps the invariant.
LEMMA CloseKeeps ==
    ASSUME IInv, close
    PROVE  IInv'
<1> DEFINE g == quic_wipe(q)
           h == [g EXCEPT !.t.state = "CLOSED"]
<1>1. /\ ~driving /\ UNCHANGED <<driving, rest, cut, closes>> /\ q' = h
      /\ Open(q) /\ q.ready \subseteq Levels \X Dirs
      /\ DOMAIN closes = Levels /\ Closed(q, closes)
  BY DEF close, quic_close, App, IInv, Open, Dirs
<1>2. /\ IsSession(g) /\ g.hs = NoHs /\ NoReads(g) /\ NoWrites(g)
      /\ g.t.rd_secret = NoSecret /\ g.t.wr_secret = NoSecret /\ g.t.res_master = NoSecret
      /\ g.t.buf = << >> /\ g.tx = << >> /\ g.ready = {}
      /\ g.t.transcript = q.t.transcript
  BY <1>1, WipesAll DEF Open
<1> HIDE DEF g
<1>3. /\ IsSession(h) /\ h.hs = g.hs /\ h.t.state = "CLOSED"
      /\ h.t.rd_secret = g.t.rd_secret /\ h.t.wr_secret = g.t.wr_secret
      /\ h.t.res_master = g.t.res_master /\ h.t.buf = g.t.buf /\ h.t.transcript = g.t.transcript
      /\ \A f \in OwnFields : h[f] = g[f]
  BY <1>2 DEF IsSession, OwnFields, TlsFields
<1> HIDE DEF h
<1>4. /\ h.ready = g.ready /\ h.tx = g.tx /\ h.initial_dcid = g.initial_dcid
      /\ h.handshake_tx = g.handshake_tx /\ h.handshake_hp_tx = g.handshake_hp_tx
      /\ h.handshake_rx = g.handshake_rx /\ h.handshake_hp_rx = g.handshake_hp_rx
      /\ h.app_tx = g.app_tx /\ h.app_hp_tx = g.app_hp_tx
      /\ h.app_rx = g.app_rx /\ h.app_hp_rx = g.app_hp_rx
  BY <1>3 DEF OwnFields
<1>5. \A l, dir : ~Ready(h, l, dir)
  BY <1>2, <1>4, SMTT(30) DEF Ready
<1>6. Open(h) /\ h.ready \subseteq Levels \X Dirs /\ h.ready = {}
  BY <1>1, <1>2, <1>3, <1>4, SMTT(30) DEF Open
<1>7. session_dead(h) /\ h.t.state # "FAILED"
  BY <1>3 DEF session_dead
<1>8. NoReads(h)
  BY <1>2, <1>4, <1>5, ZenonT(40) DEF NoReads
<1>9. NoWrites(h)
  BY <1>2, <1>4, <1>5, ZenonT(40) DEF NoWrites, Ready
<1>10. WriteBits(h)
  BY <1>5, Zenon DEF WriteBits
<1>11. Dead(h)
  BY <1>2, <1>3, <1>4, <1>6, <1>7, <1>8, <1>9, <1>10, ZenonT(40) DEF Dead
<1>12. Closed(h, closes')
  BY <1>1, <1>5, <1>7, ZenonT(40) DEF Closed
<1>13. DOMAIN closes' = Levels
  BY <1>1
<1> QED BY <1>1, <1>6, <1>7, <1>11, <1>12, <1>13, DeadKeeps, ZenonT(40)

\* The next phase of a secret is a secret over the same, one further.
LEMMA AdvancedFacts ==
    ASSUME NEW s, IsSecret(s), s.ku \in Nat
    PROVE  /\ IsSecret(Advanced(s)) /\ Advanced(s).ku = s.ku + 1
           /\ Advanced(s).label = s.label /\ Advanced(s).over = s.over
           /\ [Advanced(s) EXCEPT !.ku = 0] = [s EXCEPT !.ku = 0]
BY Zenon DEF IsSecret, Advanced

\* What a key update writes.
LEMMA UpdateFields ==
    ASSUME NEW h, IsSession(h)
    PROVE  LET g == quic_key_update(h)
               v == h.t.quic_negotiated_version
           IN  /\ IsSession(g) /\ g.hs = h.hs
               /\ \A f \in TlsFields \ {"rd_secret", "wr_secret"} : g.t[f] = h.t[f]
               /\ \A f \in OwnFields \ {"app_tx", "app_rx", "key_phase"} : g[f] = h[f]
               /\ g.app_tx = quic_keys_update(h.t.wr_secret, v)
               /\ g.key_phase = 1 - h.key_phase
               /\ DOMAIN g.app_rx = KeySets
               /\ g.app_rx["CURRENT"] = h.app_rx["NEXT"]
               /\ g.app_rx["NEXT"] = quic_keys_update(h.t.rd_secret, v)
               /\ g.t.rd_secret = Advanced(h.t.rd_secret)
               /\ g.t.wr_secret = Advanced(h.t.wr_secret)
<1> DEFINE v  == h.t.quic_negotiated_version
           x1 == quic_keys_update(h.t.wr_secret, v)
           x2 == Advanced(h.t.wr_secret)
           x3 == 1 - h.key_phase
           x4 == [PREVIOUS |-> h.app_rx["CURRENT"], CURRENT |-> h.app_rx["NEXT"],
                  NEXT |-> quic_keys_update(h.t.rd_secret, v)]
           x5 == Advanced(h.t.rd_secret)
           a  == [h EXCEPT !.app_tx = x1, !.key_phase = x3, !.app_rx = x4]
           b  == [a EXCEPT !.t.wr_secret = x2]
           g  == [b EXCEPT !.t.rd_secret = x5]
<1>1. quic_key_update(h) = g
  BY ZenonT(40) DEF quic_key_update, IsSession, OwnFields, TlsFields
<1>2. /\ DOMAIN x4 = KeySets /\ x4["CURRENT"] = h.app_rx["NEXT"]
      /\ x4["NEXT"] = quic_keys_update(h.t.rd_secret, v)
  BY DEF KeySets
<1> HIDE DEF x1, x2, x3, x4, x5
<1>3. /\ IsSession(a) /\ a.t = h.t /\ a.hs = h.hs /\ a.app_tx = x1 /\ a.key_phase = x3 /\ a.app_rx = x4
      /\ \A f \in OwnFields \ {"app_tx", "app_rx", "key_phase"} : a[f] = h[f]
  BY Zenon DEF IsSession, OwnFields
<1> HIDE DEF a
<1>4. /\ IsSession(b) /\ b.hs = a.hs /\ b.t.wr_secret = x2
      /\ \A f \in TlsFields \ {"wr_secret"} : b.t[f] = a.t[f]
      /\ \A f \in OwnFields : b[f] = a[f]
  BY <1>3 DEF IsSession, OwnFields, TlsFields
<1> HIDE DEF b
<1>5. /\ IsSession(g) /\ g.hs = b.hs /\ g.t.rd_secret = x5
      /\ \A f \in TlsFields \ {"rd_secret"} : g.t[f] = b.t[f]
      /\ \A f \in OwnFields : g[f] = b[f]
  BY <1>4 DEF IsSession, OwnFields, TlsFields
<1> HIDE DEF g
<1>6. \A f \in TlsFields \ {"rd_secret", "wr_secret"} : g.t[f] = h.t[f]
  BY <1>3, <1>4, <1>5, SMTT(30)
<1>7. \A f \in OwnFields : g[f] = a[f]
  BY <1>4, <1>5
<1>8. \A f \in OwnFields \ {"app_tx", "app_rx", "key_phase"} : g[f] = h[f]
  BY <1>3, <1>7, SMTT(30)
<1>9. g.app_tx = x1 /\ g.key_phase = x3 /\ g.app_rx = x4 /\ g.t.wr_secret = x2
  BY <1>3, <1>4, <1>5, <1>7 DEF OwnFields, TlsFields
<1>10. /\ g.app_tx = quic_keys_update(h.t.wr_secret, v) /\ g.key_phase = 1 - h.key_phase
       /\ g.t.rd_secret = Advanced(h.t.rd_secret) /\ g.t.wr_secret = Advanced(h.t.wr_secret)
  BY <1>5, <1>9, ZenonT(40) DEF x1, x2, x3, x5
<1>11. /\ DOMAIN g.app_rx = KeySets /\ g.app_rx["CURRENT"] = h.app_rx["NEXT"]
       /\ g.app_rx["NEXT"] = quic_keys_update(h.t.rd_secret, v)
  BY <1>2, <1>9, ZenonT(40)
<1> HIDE DEF v
<1> QED BY <1>1, <1>3, <1>4, <1>5, <1>6, <1>8, <1>10, <1>11, ZenonT(40) DEF v

\* The keys of the next phase are named like the ones before, a phase on.
LEMMA UpdateKeyed ==
    ASSUME NEW h, IsSession(h), AppReads(h), AppWrites(h)
    PROVE  LET g == quic_key_update(h) IN AppReads(g) /\ AppWrites(g)
<1> DEFINE g   == quic_key_update(h)
           v   == h.t.quic_negotiated_version
           cur == h.app_rx["CURRENT"]
           nxt == h.app_rx["NEXT"]
           tx  == h.app_tx
           wr  == h.t.wr_secret
           rd  == h.t.rd_secret
<1>1. /\ \A f \in TlsFields \ {"rd_secret", "wr_secret"} : g.t[f] = h.t[f]
      /\ \A f \in OwnFields \ {"app_tx", "app_rx", "key_phase"} : g[f] = h[f]
      /\ g.app_tx = quic_keys_update(wr, v) /\ g.key_phase = 1 - h.key_phase
      /\ DOMAIN g.app_rx = KeySets /\ g.app_rx["CURRENT"] = nxt
      /\ g.app_rx["NEXT"] = quic_keys_update(rd, v)
      /\ g.t.rd_secret = Advanced(rd) /\ g.t.wr_secret = Advanced(wr)
  BY UpdateFields, SMTT(30)
<1> HIDE DEF g
<1>2. /\ g.t.cfg = h.t.cfg /\ g.t.quic_negotiated_version = v /\ g.t.transcript = h.t.transcript
      /\ g.app_hp_tx = h.app_hp_tx
  BY <1>1 DEF TlsFields, OwnFields
<1>3. \A mine, what : Whose(g, mine, what) = Whose(h, mine, what)
  BY <1>2, Zenon DEF Whose
<1>4. /\ Named(h, cur, Whose(h, FALSE, "ap")) /\ cur.secret.ku = tx.secret.ku
      /\ h.key_phase = tx.secret.ku % 2 /\ nxt = quic_keys_update(cur.secret, cur.version)
      /\ nxt.secret = rd /\ tx.secret = wr
  BY Zenon DEF AppReads
<1>5. /\ Named(h, tx, Whose(h, TRUE, "ap")) /\ tx.secret.ku \in Nat
      /\ h.app_hp_tx = [tx.secret EXCEPT !.ku = 0]
  BY ZenonT(40) DEF AppWrites
<1> HIDE DEF cur, nxt, tx, wr, rd, v
<1>6. \A s, w : quic_keys_update(s, w).secret = Advanced(s) /\ quic_keys_update(s, w).version = w
                /\ DOMAIN quic_keys_update(s, w) = KeyRecord
  BY Zenon DEF quic_keys_update, quic_keys_init, KeyRecord
<1>7. /\ cur.version = v /\ IsSecret(cur.secret) /\ cur.secret.label = Whose(h, FALSE, "ap")
      /\ Covers(h.t.transcript, cur.secret)
  BY <1>4, ZenonT(40) DEF Named, v
<1>8. /\ IsSecret(wr) /\ wr.label = Whose(h, TRUE, "ap") /\ Covers(h.t.transcript, wr)
      /\ wr.ku \in Nat /\ cur.secret.ku = wr.ku /\ h.app_hp_tx = [wr EXCEPT !.ku = 0]
      /\ h.key_phase = wr.ku % 2
  BY <1>4, <1>5, ZenonT(40) DEF Named
<1>9. rd = Advanced(cur.secret)
  BY <1>4, <1>6, ZenonT(40)
<1>10. /\ IsSecret(rd) /\ rd.ku = wr.ku + 1 /\ rd.label = cur.secret.label /\ rd.over = cur.secret.over
  <2> DEFINE c == cur.secret
  <2>1. IsSecret(c) /\ c.ku \in Nat /\ c.ku = wr.ku /\ rd = Advanced(c)
    BY <1>7, <1>8, <1>9
  <2> HIDE DEF c
  <2>2. /\ IsSecret(Advanced(c)) /\ Advanced(c).ku = c.ku + 1
        /\ Advanced(c).label = c.label /\ Advanced(c).over = c.over
    BY <2>1, AdvancedFacts, ZenonT(40)
  <2> QED BY <2>1, <2>2, ZenonT(40) DEF c
<1> DEFINE aw == Advanced(wr)
<1>11. /\ IsSecret(aw) /\ aw.ku = wr.ku + 1 /\ aw.label = wr.label /\ aw.over = wr.over
       /\ [aw EXCEPT !.ku = 0] = [wr EXCEPT !.ku = 0]
  BY <1>8, AdvancedFacts, ZenonT(40)
<1>12. Covers(g.t.transcript, rd) /\ Covers(g.t.transcript, aw)
  BY <1>2, <1>7, <1>8, <1>10, <1>11, Zenon DEF Covers
<1> HIDE DEF aw
<1>13. g.app_tx.secret = aw /\ g.app_tx.version = v /\ DOMAIN g.app_tx = KeyRecord
  <2>1. g.app_tx = quic_keys_update(wr, v)
    BY <1>1
  <2> QED BY <2>1, <1>6, ZenonT(40) DEF aw
<1>14. Named(g, g.app_tx, Whose(g, TRUE, "ap"))
  BY <1>2, <1>3, <1>8, <1>11, <1>12, <1>13, ZenonT(40) DEF Named
<1>15. nxt.secret = rd /\ nxt.version = v /\ DOMAIN nxt = KeyRecord
  BY <1>4, <1>6, <1>7, Zenon
<1>16. Named(g, nxt, Whose(g, FALSE, "ap"))
  BY <1>2, <1>3, <1>7, <1>10, <1>12, <1>15, Zenon DEF Named
<1>17. aw.ku \in Nat /\ rd.ku = aw.ku
  BY <1>8, <1>10, <1>11
<1>18. g.key_phase = aw.ku % 2
  <2> DEFINE k == wr.ku
  <2>1. k \in Nat /\ g.key_phase = 1 - (k % 2) /\ aw.ku = k + 1
    BY <1>1, <1>8, <1>11
  <2> HIDE DEF k
  <2> QED BY <2>1
<1>19. AppWrites(g)
  BY <1>2, <1>8, <1>11, <1>13, <1>14, <1>17, ZenonT(40) DEF AppWrites
<1>20. AppReads(g)
  <2>1. g.t.wr_secret = aw
    BY <1>1, ZenonT(40) DEF aw
  <2>2. quic_keys_update(rd, v).secret = Advanced(rd)
    BY <1>6
  <2> QED BY <2>1, <2>2, <1>1, <1>13, <1>15, <1>16, <1>17, <1>18, ZenonT(40) DEF AppReads
<1> QED BY <1>19, <1>20, SMTT(30) DEF g

\* key_update keeps the invariant.
LEMMA UpdateKeeps ==
    ASSUME IInv, key_update
    PROVE  IInv'
<1> DEFINE g == quic_key_update(q)
<1>1. /\ ~driving /\ UNCHANGED <<driving, rest, cut, closes>> /\ q' = g
      /\ Open(q) /\ q.ready \subseteq Levels \X Dirs /\ q.t.state = "CONNECTED"
  BY SMTT(30) DEF key_update, App, IInv, Open, Dirs
<1>2. /\ IsSession(g) /\ g.hs = q.hs
      /\ \A f \in TlsFields \ {"rd_secret", "wr_secret"} : g.t[f] = q.t[f]
      /\ \A f \in OwnFields \ {"app_tx", "app_rx", "key_phase"} : g[f] = q[f]
  BY <1>1, UpdateFields, SMTT(30) DEF Open
<1>3. AppReads(q) /\ AppWrites(q) => AppReads(g) /\ AppWrites(g)
  BY <1>1, UpdateKeyed, SMTT(30) DEF Open
<1> HIDE DEF g
<1>4. ~session_dead(q)
  BY <1>1 DEF session_dead
<1>5. Alive(q)
  BY <1>4, SMTT(30) DEF IInv
<1>6. /\ g.step = q.step /\ g.rx_level = q.rx_level /\ g.ready = q.ready
      /\ g.initial_dcid = q.initial_dcid
      /\ g.handshake_tx = q.handshake_tx /\ g.handshake_hp_tx = q.handshake_hp_tx
      /\ g.handshake_rx = q.handshake_rx /\ g.handshake_hp_rx = q.handshake_hp_rx
      /\ g.t.state = q.t.state /\ g.t.cfg = q.t.cfg /\ g.t.buf = q.t.buf
      /\ g.t.transcript = q.t.transcript
      /\ g.t.quic_negotiated_version = q.t.quic_negotiated_version
  BY <1>2 DEF OwnFields, TlsFields
<1>7. \A l, dir : Ready(g, l, dir) <=> Ready(q, l, dir)
  BY <1>6 DEF Ready
<1>8. \A x, label : Named(g, x, label) <=> Named(q, x, label)
  BY <1>6, Zenon DEF Named
<1>9. \A mine, what : Whose(g, mine, what) = Whose(q, mine, what)
  BY <1>6, Zenon DEF Whose
<1>10. /\ HandshakeWrites(g) <=> HandshakeWrites(q)
       /\ HandshakeReads(g) <=> HandshakeReads(q)
  BY <1>6, <1>8, <1>9, ZenonT(40) DEF HandshakeWrites, HandshakeReads
<1>11. q.step = "COMPLETE" /\ WriteBits(q) /\ ReadBits(q)
  BY <1>1, <1>5, SMTT(30) DEF Alive
<1>12. q.hs = NoHs /\ (Ready(q, 2, "WRITE") => Ready(q, 2, "READ"))
  BY <1>5, <1>11 DEF Alive, HelloSteps, FlightSteps
<1>16. AppKeys(q) => AppKeys(g) /\ (Ready(g, 2, "WRITE") => AppWrites(g))
  <2>1. Ready(g, 2, "WRITE") <=> Ready(q, 2, "WRITE")
    BY <1>7
  <2>2. Emptied(g) <=> Emptied(q)
    BY <1>6, <2>1 DEF Emptied
  <2>3. Emptied(q) => ~Ready(q, 2, "WRITE")
    BY DEF Emptied
  <2> QED BY <1>3, <2>1, <2>2, <2>3 DEF AppKeys
<1>13. WriteBits(g) /\ ReadBits(g)
  BY <1>6, <1>7, <1>10, <1>11, <1>12, <1>16, ZenonT(40) DEF WriteBits, ReadBits
<1>14. Alive(g)
  BY <1>1, <1>2, <1>6, <1>7, <1>11, <1>12, <1>13, ZenonT(40) DEF Alive
<1>15. Open(g) /\ g.ready \subseteq Levels \X Dirs
  BY <1>1, <1>2, <1>6, SMTT(30) DEF Open
<1> QED BY <1>1, <1>4, <1>6, <1>14, <1>15, LiveKeeps, ZenonT(40)

-----------------------------------------------------------------------------
(* The first state *)

\* a zeroed session but for its configuration, its epoch and the handshake's own
Fresh(h) ==
    /\ IsSession(h) /\ IsSeq(h.t.transcript)
    /\ h.ready = {} /\ h.key_phase = 0 /\ DOMAIN h.app_rx = KeySets
    /\ h.t.state = "START" /\ h.t.buf = << >>

\* no cells are cells
LEMMA NoCells == IsSeq(<< >>) /\ CellsOk(<< >>) /\ \A level : LevelOk(<< >>, level)
<1>1. << >> \in Seq({}) /\ Len(<< >>) = 0
  OBVIOUS
<1>2. \A i \in 1..Len(<< >>) : FALSE
  BY <1>1
<1> QED BY <1>1, <1>2 DEF IsSeq, CellsOk, LevelOk

\* A zeroed session is fresh, and stays so when the epoch is looked at.
LEMMA FreshBlank ==
    ASSUME NEW cfg, NEW stored
    PROVE  Fresh(Blank(cfg)) /\ Fresh(EpochInit(Blank(cfg), stored).h)
<1> DEFINE b == Blank(cfg)
           e == b.t.cfg.ticket_epoch
           l == [b EXCEPT !.t.epoch = stored]
           k == [l EXCEPT !.t.epoch_seen = e]
           c == EpochInit(b, stored)
<1>1. /\ IsSession(b) /\ b.t.transcript = << >>
      /\ b.ready = {} /\ b.key_phase = 0 /\ DOMAIN b.app_rx = KeySets
      /\ b.t.state = "START" /\ b.t.buf = << >>
  BY BlankShape, ZenonT(40) DEF Blank, NoTls
<1>2. Fresh(b)
  BY <1>1, NoCells, ZenonT(40) DEF Fresh
<1> DEFINE st == IF e > stored THEN "AHEAD" ELSE "MATCHED"
           r  == [k EXCEPT !.t.epoch_status = "REVOKED"]
           m  == [k EXCEPT !.t.epoch_status = st]
           No1 == [ok |-> FALSE, h |-> b]
           No2 == [ok |-> FALSE, h |-> r]
           No3 == [ok |-> FALSE, h |-> l]
<1>3. c = Ok(b) \/ c = Ok(l) \/ c = No1 \/ c = No2 \/ c = No3 \/ c = Ok(m)
  <2>1. c = IF ~EpochChecked(b) THEN Ok(b)
            ELSE IF b.t.cfg.load_fails THEN No1
            ELSE IF b.t.cfg.psk = "none" \/ b.t.cfg.ticket_stored = "none" THEN Ok(l)
            ELSE IF b.t.cfg.ticket_stored = "corrupt" THEN No3
            ELSE IF e < stored THEN No2 ELSE Ok(m)
    BY Zenon DEF EpochInit
  <2> HIDE DEF b, c, l, k, e, r, m, No1, No2, No3
  <2> QED BY <2>1
<1> HIDE DEF b, c, e
<1>4. ASSUME NEW h, Fresh(h), NEW f \in {"epoch", "epoch_seen", "epoch_status"}, NEW v
      PROVE  Fresh([h EXCEPT !.t[f] = v])
  <2> DEFINE g == [h EXCEPT !.t[f] = v]
  <2>1. IsSession(h) /\ f \in TlsFields /\ f \notin {"transcript", "state", "buf"}
    BY <1>4 DEF Fresh, TlsFields
  <2>2. /\ IsSession(g) /\ g.t.transcript = h.t.transcript /\ g.t.state = h.t.state
        /\ g.t.buf = h.t.buf /\ g.ready = h.ready /\ g.key_phase = h.key_phase
        /\ g.app_rx = h.app_rx
    BY <2>1 DEF IsSession, OwnFields, TlsFields
  <2> HIDE DEF g
  <2>3. Fresh(g)
    BY <1>4, <2>2, ZenonT(40) DEF Fresh
  <2> QED BY <2>3 DEF g
<1>5. Fresh(l)
  <2>1. "epoch" \in {"epoch", "epoch_seen", "epoch_status"}
    OBVIOUS
  <2> QED BY <2>1, <1>2, <1>4, ZenonT(40) DEF l
<1> HIDE DEF l
<1>6. Fresh(k)
  <2>1. "epoch_seen" \in {"epoch", "epoch_seen", "epoch_status"}
    OBVIOUS
  <2> QED BY <2>1, <1>4, <1>5, ZenonT(40) DEF k
<1> HIDE DEF k, st
<1>7. Fresh(r) /\ Fresh(m)
  <2>1. "epoch_status" \in {"epoch", "epoch_seen", "epoch_status"}
    OBVIOUS
  <2> QED BY <2>1, <1>4, <1>6, ZenonT(40) DEF r, m
<1> HIDE DEF r, m
<1>8. \A h : Ok(h).h = h /\ [ok |-> FALSE, h |-> h].h = h
  BY DEF Ok
<1>9. Fresh(c.h)
  <2>1. c.h = b \/ c.h = l \/ c.h = r \/ c.h = m
    BY <1>3, <1>8, ZenonT(40)
  <2> QED BY <2>1, <1>2, <1>5, <1>7, ZenonT(40)
<1> QED BY <1>2, <1>9, SMTT(30) DEF b, c

\* A fresh session that waits for a hello satisfies the invariant.
LEMMA FreshStarts ==
    ASSUME FrameAssumption, Fresh(q), q.step \in HelloSteps,
           driving = FALSE, rest = << >>, cut = << >>, closes = [l \in Levels |-> 0]
    PROVE  IInv
<1>1. /\ IsSession(q) /\ IsSeq(q.t.transcript) /\ CellsOk(cut)
      /\ q.ready \subseteq Levels \X {"READ", "WRITE"}
      /\ driving \in BOOLEAN /\ (~driving => rest = << >>)
      /\ DOMAIN closes = Levels
  BY NoCells, Zenon DEF Fresh
<1>2. Closed(q, closes)
  BY DEF Closed
<1>3. \A l, dir : ~Ready(q, l, dir)
  BY DEF Fresh, Ready
<1>4. WriteBits(q) /\ ReadBits(q)
  BY <1>3, Zenon DEF WriteBits, ReadBits
<1>5. q.ready \subseteq {0} \X {"READ", "WRITE"}
  BY DEF Fresh
<1>6. Alive(q)
  BY <1>4, <1>5, ZenonT(40) DEF Alive, Fresh
<1>7. ~session_dead(q)
  BY SMTT(30) DEF session_dead, Fresh
<1>8. Waits(q, rest)
  <2>1. Len(<< >>) <= BufLen
    BY SMTT(30) DEF FrameAssumption
  <2> QED BY <2>1, NoCells DEF Waits, Fresh
<1> QED BY <1>1, <1>2, <1>6, <1>7, <1>8, SMTT(30) DEF IInv

\* So does one that was refused its configuration.
LEMMA RefusedStarts ==
    ASSUME NEW h, q = quic_refuse_init(h),
           driving = FALSE, rest = << >>, cut = << >>, closes = [l \in Levels |-> 0]
    PROVE  IInv
<1> DEFINE b  == Blank(h.t.cfg)
           e1 == h.t.epoch
           e2 == h.t.epoch_seen
           e3 == h.t.epoch_status
<1>1. q = [b EXCEPT !.t.state = "FAILED", !.t.epoch = e1, !.t.epoch_seen = e2,
                    !.t.epoch_status = e3]
  BY SMTT(30) DEF quic_refuse_init
<1>2. /\ IsSession(b) /\ b.t.transcript = << >> /\ b.hs = NoHs /\ b.step = "none"
      /\ b.ready = {} /\ b.tx = << >> /\ b.t.buf = << >> /\ ~b.initial_dcid
      /\ b.handshake_rx = NoKeys /\ b.handshake_tx = NoKeys
      /\ b.handshake_hp_rx = NoSecret /\ b.handshake_hp_tx = NoSecret
      /\ b.app_tx = NoKeys /\ b.app_rx = [s \in KeySets |-> NoKeys]
      /\ b.app_hp_rx = NoSecret /\ b.app_hp_tx = NoSecret
      /\ b.t.rd_secret = NoSecret /\ b.t.wr_secret = NoSecret /\ b.t.res_master = NoSecret
  BY BlankShape, Zenon DEF Blank, NoTls
<1> HIDE DEF b, e1, e2, e3
<1> DEFINE t == [b.t EXCEPT !.state = "FAILED", !.epoch = e1, !.epoch_seen = e2,
                            !.epoch_status = e3]
<1>3. q = [b EXCEPT !.t = t]
  BY <1>1, <1>2, ZenonT(40) DEF IsSession, OwnFields
<1>4. /\ DOMAIN t = TlsFields /\ t.state = "FAILED"
      /\ t.transcript = << >> /\ t.buf = << >>
      /\ t.rd_secret = NoSecret /\ t.wr_secret = NoSecret /\ t.res_master = NoSecret
  BY <1>2 DEF IsSession, TlsFields
<1> HIDE DEF t
<1>5. /\ IsSession(q) /\ q.t = t /\ q.hs = b.hs /\ \A f \in OwnFields : q[f] = b[f]
  BY <1>2, <1>3, <1>4 DEF IsSession, OwnFields
<1>6. /\ q.hs = NoHs /\ q.step = "none" /\ q.ready = {} /\ q.tx = << >> /\ ~q.initial_dcid
      /\ q.handshake_rx = NoKeys /\ q.handshake_tx = NoKeys
      /\ q.handshake_hp_rx = NoSecret /\ q.handshake_hp_tx = NoSecret
      /\ q.app_tx = NoKeys /\ q.app_rx = [s \in KeySets |-> NoKeys]
      /\ q.app_hp_rx = NoSecret /\ q.app_hp_tx = NoSecret
  BY <1>2, <1>5 DEF OwnFields
<1>7. \A l, dir : ~Ready(q, l, dir)
  BY <1>6 DEF Ready
<1>8. WriteBits(q)
  BY <1>7, Zenon DEF WriteBits
<1>9. NoReads(q)
  BY <1>6, <1>7, Zenon DEF NoReads
<1>10. NoWrites(q)
  BY <1>6, ZenonT(40) DEF NoWrites
<1>11. q.t.state = "FAILED" /\ q.t.state # "CLOSED"
  BY <1>4, <1>5, SMTT(30)
<1>12. Dead(q) /\ session_dead(q)
  BY <1>4, <1>5, <1>6, <1>8, <1>9, <1>10, <1>11, ZenonT(40) DEF Dead, session_dead
<1>13. Closed(q, closes) /\ DOMAIN closes = Levels
  BY DEF Closed
<1>14. IsSeq(q.t.transcript) /\ CellsOk(cut) /\ q.ready \subseteq Levels \X {"READ", "WRITE"}
  BY <1>4, <1>5, <1>6, NoCells, SMTT(30)
<1> QED BY <1>5, <1>12, <1>13, <1>14, ZenonT(40) DEF IInv

\* What the first steps of a handshake write leaves a fresh session fresh.
LEMMA FreshEdits ==
    ASSUME NEW h, Fresh(h)
    PROVE  /\ \A f \in HsFields : \A v : Fresh([h EXCEPT !.hs[f] = v])
           /\ \A v : Fresh([h EXCEPT !.t.quic_negotiated_version = v])
           /\ \A m : Fresh(Hear(h, m))
           /\ \A m, s : LET g == [h EXCEPT !.tx = m, !.step = s] IN Fresh(g) /\ g.step = s
           /\ Fresh([h EXCEPT !.t.transcript = << >>])
<1>1. IsSession(h) /\ IsSeq(h.t.transcript)
  BY DEF Fresh
<1>2. ASSUME NEW f \in HsFields, NEW v PROVE Fresh([h EXCEPT !.hs[f] = v])
  <2> DEFINE g == [h EXCEPT !.hs[f] = v]
  <2>1. /\ IsSession(g) /\ g.t = h.t /\ g.ready = h.ready /\ g.key_phase = h.key_phase
        /\ g.app_rx = h.app_rx
    BY <1>1 DEF IsSession, OwnFields
  <2> HIDE DEF g
  <2>2. Fresh(g)
    BY <2>1, ZenonT(40) DEF Fresh
  <2> QED BY <2>2 DEF g
<1>3. ASSUME NEW v PROVE Fresh([h EXCEPT !.t.quic_negotiated_version = v])
  <2> DEFINE g == [h EXCEPT !.t.quic_negotiated_version = v]
  <2>1. /\ IsSession(g) /\ g.t.transcript = h.t.transcript /\ g.t.state = h.t.state
        /\ g.t.buf = h.t.buf /\ g.ready = h.ready /\ g.key_phase = h.key_phase
        /\ g.app_rx = h.app_rx
    BY <1>1 DEF IsSession, OwnFields, TlsFields
  <2> HIDE DEF g
  <2>2. Fresh(g)
    BY <2>1, Zenon DEF Fresh
  <2> QED BY <2>2 DEF g
<1>4. ASSUME NEW tr, IsSeq(tr) PROVE Fresh([h EXCEPT !.t.transcript = tr])
  <2> DEFINE g == [h EXCEPT !.t.transcript = tr]
  <2>1. /\ IsSession(g) /\ g.t.transcript = tr /\ g.t.state = h.t.state
        /\ g.t.buf = h.t.buf /\ g.ready = h.ready /\ g.key_phase = h.key_phase
        /\ g.app_rx = h.app_rx
    BY <1>1 DEF IsSession, OwnFields, TlsFields
  <2> HIDE DEF g
  <2>2. Fresh(g)
    BY <1>4, <2>1, ZenonT(40) DEF Fresh
  <2> QED BY <2>2 DEF g
<1>5. ASSUME NEW m PROVE Fresh(Hear(h, m))
  <2> DEFINE tr == Append(h.t.transcript, m)
  <2>1. IsSeq(tr)
    BY <1>1, HeardMore
  <2>2. Hear(h, m) = [h EXCEPT !.t.transcript = tr]
    BY <1>1 DEF Hear, IsSession, OwnFields, TlsFields
  <2> HIDE DEF tr
  <2> QED BY <1>4, <2>1, <2>2, ZenonT(40)
<1>6. ASSUME NEW m, NEW s
      PROVE  LET g == [h EXCEPT !.tx = m, !.step = s] IN Fresh(g) /\ g.step = s
  <2> DEFINE g == [h EXCEPT !.tx = m, !.step = s]
  <2>1. /\ IsSession(g) /\ g.t = h.t /\ g.ready = h.ready /\ g.key_phase = h.key_phase
        /\ g.app_rx = h.app_rx /\ g.step = s
    BY <1>1 DEF IsSession, OwnFields
  <2> HIDE DEF g
  <2>2. Fresh(g)
    BY <2>1, Zenon DEF Fresh
  <2> QED BY <2>1, <2>2 DEF g
<1>7. Fresh([h EXCEPT !.t.transcript = << >>])
  BY <1>4, NoCells, ZenonT(40)
<1> QED BY <1>2, <1>3, <1>5, <1>6, <1>7, ZenonT(40)

\* Every configuration starts within the invariant.
LEMMA InitKeeps ==
    ASSUME FrameAssumption, Init
    PROVE  IInv
<1>1. PICK cfg \in Configs :
         q = IF cfg.role = "server" THEN srv_quic_init(cfg) ELSE quic_init(cfg, cfg.stored)
  BY DEF Init
<1>2. driving = FALSE /\ rest = << >> /\ cut = << >> /\ closes = [l \in Levels |-> 0]
  BY DEF Init
<1>3. /\ "alert" \in HsFields /\ "kex" \in HsFields /\ "early" \in HsFields
      /\ "AWAIT_SERVER_HELLO" \in HelloSteps /\ "AWAIT_CLIENT_HELLO" \in HelloSteps
  BY DEF HsFields, HelloSteps
<1>4. CASE \E h : q = quic_refuse_init(h)
  BY <1>2, <1>4, RefusedStarts, Zenon
<1>5. CASE Fresh(q) /\ q.step \in HelloSteps
  BY <1>2, <1>5, FreshStarts, Zenon
<1>6. CASE cfg.role = "server" /\ cfg.valid
  <2> DEFINE b == Blank(cfg)
             v == cfg.quic_original_version
             c == [b EXCEPT !.hs.alert = "decode_error"]
             d == [c EXCEPT !.t.quic_negotiated_version = v]
             x == b.tx
             e == [d EXCEPT !.tx = x, !.step = "AWAIT_CLIENT_HELLO"]
             f == [e EXCEPT !.hs.kex = {"x25519"}]
             g == [f EXCEPT !.t.transcript = << >>]
  <2>1. q = srv_begin([b EXCEPT !.hs.alert = "decode_error", !.step = "AWAIT_CLIENT_HELLO",
                                !.t.quic_negotiated_version = v])
    BY <1>1, <1>6, ZenonT(40) DEF srv_quic_init
  <2>2. IsSession(b) /\ Fresh(b)
    BY BlankShape, FreshBlank
  <2> HIDE DEF b, v
  <2>3. q = g /\ g.step = "AWAIT_CLIENT_HELLO"
    <3>1. [b EXCEPT !.hs.alert = "decode_error", !.step = "AWAIT_CLIENT_HELLO",
                    !.t.quic_negotiated_version = v] = e
      BY <2>2, ZenonT(40) DEF IsSession, OwnFields, TlsFields, HsFields
    <3>2. IsSession(e) /\ e.step = "AWAIT_CLIENT_HELLO"
      BY <2>2 DEF IsSession, OwnFields, TlsFields, HsFields
    <3> HIDE DEF e
    <3>3. srv_begin(e) = g /\ g.step = e.step
      BY <3>2 DEF srv_begin, IsSession, OwnFields, TlsFields, HsFields
    <3> HIDE DEF g
    <3> QED BY <2>1, <3>1, <3>2, <3>3, ZenonT(40)
  <2> HIDE DEF x
  <2>4. Fresh(c)
    BY <1>3, <2>2, FreshEdits, Zenon DEF c
  <2>5. Fresh(d)
    BY <2>4, FreshEdits, Zenon DEF d
  <2> HIDE DEF d
  <2>6. Fresh(e)
    BY <2>5, FreshEdits, ZenonT(40) DEF e
  <2> HIDE DEF e
  <2>7. Fresh(f)
    BY <1>3, <2>6, FreshEdits, ZenonT(40) DEF f
  <2> HIDE DEF f
  <2>8. Fresh(g)
    BY <2>7, FreshEdits, ZenonT(40) DEF g
  <2> QED BY <1>3, <1>5, <2>3, <2>8
<1>7. CASE cfg.role # "server" /\ cfg.valid /\ EpochInit(Blank(cfg), cfg.stored).ok
  <2> DEFINE b == EpochInit(Blank(cfg), cfg.stored).h
             v == cfg.quic_original_version
             c == [b EXCEPT !.hs.alert = "decode_error"]
             d == [c EXCEPT !.t.quic_negotiated_version = v]
             k == IF TwoGroups(d.t.cfg) THEN {"x25519", "mlkem"} ELSE {"x25519"}
             y == IF PskOffered(d) THEN "psk" ELSE "zero"
             e == [d EXCEPT !.hs.kex = k]
             f == [e EXCEPT !.hs.early = y]
             g == [f EXCEPT !.t.transcript = << >>]
             m == ClientHello(g)
             i == Hear(g, m)
             j == [i EXCEPT !.tx = << m >>, !.step = "AWAIT_SERVER_HELLO"]
  <2>1. q = LET begun == hsf_begin([b EXCEPT !.hs.alert = "decode_error",
                                             !.t.quic_negotiated_version = v])
            IN  [hsf_build_client_hello(begun) EXCEPT
                    !.tx = << ClientHello(begun) >>, !.step = "AWAIT_SERVER_HELLO"]
    BY <1>1, <1>7, ZenonT(40) DEF quic_init
  <2>2. Fresh(b)
    BY FreshBlank
  <2> HIDE DEF b, v
  <2>3. [b EXCEPT !.hs.alert = "decode_error", !.t.quic_negotiated_version = v] = d
    BY <2>2 DEF Fresh, IsSession, OwnFields, TlsFields, HsFields
  <2>4. Fresh(c)
    BY <1>3, <2>2, FreshEdits, ZenonT(40) DEF c
  <2> HIDE DEF c
  <2>5. Fresh(d)
    BY <2>4, FreshEdits, ZenonT(40) DEF d
  <2> HIDE DEF d
  <2>6. hsf_begin(d) = g
    <3>1. hsf_begin(d) = [d EXCEPT !.hs.kex = k, !.hs.early = y, !.t.transcript = << >>]
      BY DEF hsf_begin
    <3> HIDE DEF k, y
    <3> QED BY <3>1, <2>5 DEF Fresh, IsSession, OwnFields, TlsFields, HsFields
  <2> HIDE DEF k, y
  <2>7. Fresh(e)
    BY <1>3, <2>5, FreshEdits, ZenonT(40) DEF e
  <2> HIDE DEF e
  <2>8. Fresh(f)
    BY <1>3, <2>7, FreshEdits, ZenonT(40) DEF f
  <2> HIDE DEF f
  <2>9. Fresh(g)
    BY <2>8, FreshEdits, Zenon DEF g
  <2> HIDE DEF g
  <2>10. q = j
    BY <2>1, <2>3, <2>6, ZenonT(40) DEF hsf_build_client_hello
  <2> HIDE DEF m
  <2>11. Fresh(i)
    BY <2>9, FreshEdits, ZenonT(40) DEF i
  <2> HIDE DEF i
  <2>12. Fresh(j) /\ j.step = "AWAIT_SERVER_HELLO"
    BY <2>11, FreshEdits, ZenonT(40) DEF j
  <2> QED BY <1>3, <1>5, <2>10, <2>12
<1>8. CASE ~cfg.valid
  <2>1. q = quic_refuse_init(Blank(cfg))
    BY <1>1, <1>8, ZenonT(40) DEF srv_quic_init, quic_init
  <2> QED BY <1>4, <2>1, ZenonT(40)
<1>9. CASE cfg.role # "server" /\ cfg.valid /\ ~EpochInit(Blank(cfg), cfg.stored).ok
  <2>1. q = quic_refuse_init(EpochInit(Blank(cfg), cfg.stored).h)
    BY <1>1, <1>9, ZenonT(40) DEF quic_init
  <2> QED BY <1>4, <2>1, ZenonT(40)
<1> QED BY <1>6, <1>7, <1>8, <1>9

-----------------------------------------------------------------------------
(* Transcripts *)

\* A message heard is the last of the transcript, and what was heard stays.
LEMMA Heard ==
    ASSUME NEW tr, IsSeq(tr), NEW m
    PROVE  /\ IsSeq(Append(tr, m)) /\ Len(tr) \in Nat
           /\ Len(Append(tr, m)) = Len(tr) + 1
           /\ Append(tr, m)[Len(tr) + 1] = m
           /\ \A i \in 1..Len(tr) : Append(tr, m)[i] = tr[i]
<1>1. PICK S : tr \in Seq(S)
  BY DEF IsSeq
<1>2. tr \in Seq(S \cup {m})
  BY <1>1
<1>3. Append(tr, m) \in Seq(S \cup {m})
  BY <1>2
<1> QED BY <1>2, <1>3 DEF IsSeq

\* A prefix of the transcript is the same after a message more.
LEMMA HeardPrefix ==
    ASSUME NEW tr, IsSeq(tr), NEW m, NEW n \in 0..Len(tr)
    PROVE  Prefix(Append(tr, m), n) = Prefix(tr, n)
<1>1. PICK S : tr \in Seq(S)
  BY DEF IsSeq
<1>2. tr \in Seq(S \cup {m})
  BY <1>1
<1> QED BY <1>2 DEF Prefix

\* All of a transcript is a prefix of it.
LEMMA WholePrefix ==
    ASSUME NEW tr, IsSeq(tr)
    PROVE  Prefix(tr, Len(tr)) = tr
<1>1. PICK S : tr \in Seq(S)
  BY DEF IsSeq
<1> QED BY <1>1 DEF Prefix

\* What was heard before a message is the prefix the message covers.
LEMMA HeardCovers ==
    ASSUME NEW tr, IsSeq(tr), NEW m
    PROVE  Prefix(Append(tr, m), Len(tr)) = tr
<1>1. Len(tr) \in Nat
  BY Heard
<1> QED BY <1>1, HeardPrefix, WholePrefix

-----------------------------------------------------------------------------
(* The invariant of the story: what was heard and said in each step *)

\* a message as crypto_out hands it over
Out(level, m) == Made(CryptoFrames(level, Cells(m)), TRUE)

\* the hellos a client's transcript says it sent
HelloRecords(tr) ==
    IF tr[1].type = "message_hash" THEN << Out(0, tr[1].of[1]), Out(0, tr[3]) >>
    ELSE << Out(0, tr[1]) >>

\* the last of them is out, or staged
HelloTold(h) ==
    LET tr == h.t.transcript
        n  == Len(tr)
    IN  \/ h.tx = << >> /\ h.made = HelloRecords(tr)
        \/ /\ h.tx = << tr[n] >> /\ h.tx_level = 0
           /\ h.made = IF n = 1 THEN << >> ELSE << Out(0, tr[1].of[1]) >>

\* one hello was made, or the hash of one, the retry request and a second one
HelloSent(h) ==
    LET tr == h.t.transcript
        n  == Len(tr)
    IN  /\ n = IF h.step = "AWAIT_RETRY_HELLO" THEN 3 ELSE 1
        /\ tr[n].type = "client_hello" /\ tr[n].suites = h.t.cfg.suites
        /\ tr[n].shares = HelloShares(h) /\ tr[n].cookie = h.hs.cookie
        /\ PskOffered(h) => tr[n].tickets # << >> /\ h.hs.early = "psk"
        /\ n = 1 => h.hs.suite = "none" /\ h.hs.retry_group = "none"
        /\ n = 3 => /\ tr[1].type = "message_hash" /\ Len(tr[1].of) = 1
                    /\ tr[2].type = "server_hello" /\ tr[2].hrr
                    /\ tr[2].suite = h.hs.suite /\ h.hs.suite # "none"
                    /\ tr[2].cookie = h.hs.cookie
                    /\ tr[2].group = h.hs.retry_group
                    /\ tr[2].group \notin tr[1].of[1].shares
                    /\ h.hs.retry_group # "none" => TwoGroups(h.t.cfg)

\* the ServerHello was the at-th message, and the handshake keys are its keys
Greeted(h, at) ==
    LET tr  == h.t.transcript
        key == h.hs.s_hs
    IN  /\ at <= Len(tr) /\ LegalHellos(h.t.cfg, tr, at)
        /\ h.t.psk_selected = (tr[at].psk = "zero")
        /\ key.label = "s hs" /\ key.over = Prefix(tr, at) /\ key.group = tr[at].group
        /\ key.early = IF tr[at].psk = "zero" THEN "psk" ELSE "nopsk"
        /\ h.hs.c_hs.label = "c hs"

\* a leaf the session was shown as the n-th message
LeafShown(h, n) ==
    LET tr == h.t.transcript IN
    /\ tr[n].type = "certificate" /\ (h.t.cfg.trust # "raw" => tr[n].verdict = "none")
    /\ EpochChecked(h) => /\ tr[n].epoch_ok
                          /\ tr[n].epoch \in h.t.cfg.stored..(h.t.cfg.stored + EpochBound)

AwaitsHello == {"AWAIT_SERVER_HELLO", "AWAIT_RETRY_HELLO"}

\* what a client in each step has heard
ClientStory(h) ==
    LET tr == h.t.transcript IN
    /\ h.step \in AwaitsHello \cup FlightSteps \cup {"COMPLETE"} /\ h.t.cfg.stored \in Nat
    /\ EpochChecked(h) /\ h.step # "COMPLETE" => h.t.epoch = h.t.cfg.stored
    /\ h.step \in AwaitsHello => HelloSent(h) /\ HelloTold(h)
    /\ h.step \in FlightSteps => h.tx = << >> /\ h.made = HelloRecords(tr)
    /\ h.step = "AWAIT_ENCRYPTED_EXTENSIONS" =>
          \E at \in {2, 4} : Greeted(h, at) /\ Len(tr) = at
    /\ h.step = "AWAIT_CERTIFICATE" =>
          \E at \in {2, 4} : /\ Greeted(h, at) /\ Len(tr) = at + 1
                             /\ tr[at + 1].type = "encrypted_extensions"
                             /\ ~h.t.psk_selected
    /\ h.step = "AWAIT_CERTIFICATE_VERIFY" =>
          \E at \in {2, 4} : /\ Greeted(h, at) /\ Len(tr) = at + 2
                             /\ tr[at + 1].type = "encrypted_extensions"
                             /\ ~h.t.psk_selected /\ LeafShown(h, at + 2)
    /\ h.step = "AWAIT_FINISHED" =>
          \E at \in {2, 4} : /\ Greeted(h, at)
                             /\ Len(tr) = IF h.t.psk_selected THEN at + 1 ELSE at + 3
                             /\ tr[at + 1].type = "encrypted_extensions"
                             /\ ~h.t.psk_selected => LegalCertificate(h, tr, at + 2)
    /\ h.step = "COMPLETE" =>
          /\ LegalFlight(h)
          /\ IF h.t.state = "START"
             THEN /\ h.tx = << tr[Len(tr)] >> /\ h.tx_level = 1
                  /\ h.made = HelloRecords(tr)
             ELSE h.tx = << >> /\ h.made = Append(HelloRecords(tr), Out(1, tr[Len(tr)]))

\* nothing has left at the application level
Mute(h) ==
    IsSeq(h.made) /\ \A i \in 1..Len(h.made) : h.made[i].rec.outer # "application"

\* what a server in each step has heard and said
ServerStory(h) ==
    LET tr == h.t.transcript IN
    /\ h.step \in {"AWAIT_CLIENT_HELLO", "AWAIT_RETRY_HELLO", "AWAIT_CLIENT_FINISHED", "COMPLETE"}
    /\ h.tx = << >> /\ OverQuic(h) /\ h.t.cfg.chain \in Nat
    /\ h.step # "COMPLETE" => Mute(h)
    /\ h.step = "AWAIT_CLIENT_HELLO" => tr = << >>
    /\ h.step = "AWAIT_RETRY_HELLO" => Len(tr) = 2 /\ tr[1].type = "message_hash"
    /\ h.step = "AWAIT_CLIENT_FINISHED" =>
          /\ h.hs.c_hs.label = "c hs" /\ Covers(tr, h.hs.c_hs)
          /\ Len(h.hs.c_hs.over) = HelloAt(h.hs.c_hs.over)
    /\ h.step = "COMPLETE" => FinishedProved(h)

\* a session that goes on, by its role; nothing is read while a message is staged
Tells(h) == IF h.t.cfg.role = "server" THEN ServerStory(h) ELSE ClientStory(h)
Story ==
    ~session_dead(q) => Tells(q) /\ (q.tx # << >> => q.t.buf = << >>)

-----------------------------------------------------------------------------
(* What a message does to a session *)

\* two sessions that differ at most in the fields named
SameBut(h, g, tls, hs) ==
    /\ \A f \in TlsFields \ tls : g.t[f] = h.t[f]
    /\ \A f \in HsFields \ hs : g.hs[f] = h.hs[f]
    /\ \A f \in OwnFields \ {"t", "hs"} : g[f] = h[f]

\* A handler's refusal is a session.
LEMMA Refusal ==
    ASSUME NEW h, IsSession(h), NEW alert, NEW res, res = No(h, alert)
    PROVE  res.ok = FALSE /\ IsSession(res.h)
BY DEF No, IsSession, HsFields

\* A message heard goes to the transcript and nowhere else.
LEMMA HearFacts ==
    ASSUME NEW h, IsSession(h), NEW m
    PROVE  LET g == Hear(h, m) IN
           /\ IsSession(g) /\ SameBut(h, g, {"transcript"}, {}) /\ g.hs = h.hs
           /\ g.t.transcript = Append(h.t.transcript, m)
BY DEF Hear, IsSession, TlsFields, HsFields, SameBut

\* A hello says what the configuration and the retry make it say.
LEMMA HelloFacts ==
    ASSUME NEW h
    PROVE  LET ch == ClientHello(h) IN
           /\ ch.type = "client_hello" /\ ch.suites = h.t.cfg.suites
           /\ ch.shares = HelloShares(h) /\ ch.cookie = h.hs.cookie
           /\ PskOffered(h) => ch.tickets # << >>
<1> DEFINE head == HelloHead(h)
<1>1. /\ head.type = "client_hello" /\ head.suites = h.t.cfg.suites
      /\ head.shares = HelloShares(h) /\ head.cookie = h.hs.cookie
      /\ head.tickets = IF PskOffered(h) THEN << h.t.cfg.ticket >> ELSE << >>
      /\ {"type", "suites", "shares", "cookie", "tickets", "binders"} \subseteq DOMAIN head
  BY ZenonT(40) DEF HelloHead
<1>2. << h.t.cfg.ticket >> # << >>
  OBVIOUS
<1> HIDE DEF head
<1> QED BY <1>1, <1>2, ZenonT(40) DEF ClientHello, head

\* A flight is legal for what was heard under a configuration.
LEMMA SameFlight ==
    ASSUME NEW h, LegalFlight(h), NEW k, k.t.cfg = h.t.cfg, k.t.transcript = h.t.transcript
    PROVE  LegalFlight(k)
<1>1. \A tr, n : LegalCertificate(h, tr, n) => LegalCertificate(k, tr, n)
  BY SMTT(30) DEF LegalCertificate, EpochChecked
<1> QED BY <1>1, ZenonT(40) DEF LegalFlight

-----------------------------------------------------------------------------
(* What leaves the story alone *)

\* the fields the story is about are the same
SameTelling(h, g) ==
    /\ g.hs = h.hs /\ g.step = h.step /\ g.tx = h.tx /\ g.tx_level = h.tx_level
    /\ g.made = h.made /\ g.t.cfg = h.t.cfg /\ g.t.transcript = h.t.transcript
    /\ g.t.psk_selected = h.t.psk_selected /\ g.t.epoch = h.t.epoch /\ g.t.state = h.t.state

\* What a session tells is a matter of those fields.
LEMMA SameTale ==
    ASSUME NEW h, NEW g, Tells(h), SameTelling(h, g)
    PROVE  Tells(g)
<1>1. /\ g.hs = h.hs /\ g.step = h.step /\ g.tx = h.tx /\ g.tx_level = h.tx_level
      /\ g.made = h.made /\ g.t.cfg = h.t.cfg /\ g.t.transcript = h.t.transcript
      /\ g.t.psk_selected = h.t.psk_selected /\ g.t.epoch = h.t.epoch /\ g.t.state = h.t.state
  BY Zenon DEF SameTelling
<1>2. EpochChecked(g) <=> EpochChecked(h)
  BY <1>1, ZenonT(40) DEF EpochChecked
<1>3. CASE h.t.cfg.role = "server"
  <2>1. ServerStory(h)
    BY <1>3, ZenonT(40) DEF Tells
  <2>2. (Mute(g) <=> Mute(h)) /\ (FinishedProved(g) <=> FinishedProved(h))
    BY <1>1, ZenonT(40) DEF Mute, FinishedProved
  <2>3. OverQuic(g) <=> OverQuic(h)
    BY <1>1, ZenonT(40) DEF OverQuic
  <2>4. ServerStory(g)
    BY <2>1, <2>2, <2>3, <1>1, ZenonT(40) DEF ServerStory
  <2> QED BY <2>4, <1>1, <1>3, ZenonT(40) DEF Tells
<1>4. CASE h.t.cfg.role # "server"
  <2>1. ClientStory(h)
    BY <1>4, ZenonT(40) DEF Tells
  <2>2. HelloShares(g) = HelloShares(h) /\ (PskOffered(g) <=> PskOffered(h))
    BY <1>1, ZenonT(40) DEF HelloShares, PskOffered
  <2>3. HelloSent(h) => HelloSent(g)
    BY <1>1, <2>2, ZenonT(40) DEF HelloSent
  <2>4. HelloTold(h) => HelloTold(g)
    BY <1>1, ZenonT(40) DEF HelloTold
  <2>5. \A at : Greeted(h, at) => Greeted(g, at)
    BY <1>1, ZenonT(40) DEF Greeted
  <2>6. \A n : LeafShown(h, n) => LeafShown(g, n)
    BY <1>1, <1>2, ZenonT(40) DEF LeafShown
  <2>7. \A tr, n : LegalCertificate(h, tr, n) => LegalCertificate(g, tr, n)
    BY <1>1, <1>2, ZenonT(40) DEF LegalCertificate
  <2>8. LegalFlight(h) => LegalFlight(g)
    BY <1>1, SameFlight, ZenonT(40)
  <2>9. ClientStory(g)
    BY <2>1, <1>1, <1>2, <2>3, <2>4, <2>5, <2>6, <2>7, <2>8, ZenonT(40) DEF ClientStory
  <2> QED BY <2>9, <1>1, <1>4, ZenonT(40) DEF Tells
<1> QED BY <1>3, <1>4, ZenonT(40)

\* the fields of the transport the story is about
TaleFields == {"step", "tx", "tx_level", "made"}

\* A call that keeps those and what is read keeps the story.
LEMMA QuietStays ==
    ASSUME Story, NEW g, q' = g, g.hs = q.hs, \A f \in TaleFields : g[f] = q[f],
           \A f \in TlsFields \ {"rd_secret", "wr_secret", "quic_negotiated_version"} :
               g.t[f] = q.t[f]
    PROVE  Story'
<1>1. /\ g.t.cfg = q.t.cfg /\ g.t.transcript = q.t.transcript
      /\ g.t.psk_selected = q.t.psk_selected /\ g.t.epoch = q.t.epoch /\ g.t.state = q.t.state
      /\ g.t.buf = q.t.buf
  BY DEF TlsFields
<1>2. g.step = q.step /\ g.tx = q.tx /\ g.tx_level = q.tx_level /\ g.made = q.made
  BY DEF TaleFields
<1>3. SameTelling(q, g)
  BY <1>1, <1>2, ZenonT(40) DEF SameTelling
<1>4. session_dead(g) <=> session_dead(q)
  BY <1>1, ZenonT(40) DEF session_dead
<1>5. ~session_dead(g) => Tells(g) /\ (g.tx # << >> => g.t.buf = << >>)
  BY <1>1, <1>2, <1>3, <1>4, SameTale, ZenonT(40) DEF Story
<1> QED BY <1>5, Zenon DEF Story

\* A session that ended has no story to keep.
LEMMA EndsStory ==
    ASSUME NEW g, q' = g, session_dead(g)
    PROVE  Story'
BY Zenon DEF Story

\* A failure ends the session.
LEMMA FailEnds ==
    ASSUME NEW h, IsSession(h)
    PROVE  session_dead(quic_fail(h))
<1> DEFINE a == wipe_all_but_write_keys(h)
           b == wipe_write_keys_unless_ready(a, 0)
           c == wipe_write_keys_unless_ready(b, 1)
           d == wipe_write_keys_unless_ready(c, 2)
           g == quic_fail(h)
           alert == h.hs.alert
<1>1. IsSession(a)
  BY WipesRest, ZenonT(40)
<1> HIDE DEF a
<1>2. IsSession(b)
  BY <1>1, UnlessReady, ZenonT(40)
<1> HIDE DEF b
<1>3. IsSession(c)
  BY <1>2, UnlessReady, ZenonT(40)
<1> HIDE DEF c
<1>4. IsSession(d)
  BY <1>3, UnlessReady, ZenonT(40)
<1> HIDE DEF d
<1>5. g = [d EXCEPT !.alert = alert, !.t.alert_sent = alert, !.t.state = "FAILED"]
  BY Zenon DEF quic_fail, a, b, c, d
<1> HIDE DEF g, alert
<1>6. g.t.state = "FAILED"
  BY <1>4, <1>5, ZenonT(40) DEF IsSession, OwnFields, TlsFields
<1> QED BY <1>6, ZenonT(40) DEF session_dead, g

\* A refusal with an alert of its own is a session still.
LEMMA StillSession ==
    ASSUME NEW h, IsSession(h)
    PROVE  /\ IsSession(Violation(h)) /\ IsSession(Unexpected(h))
           /\ \A alert : IsSession([h EXCEPT !.hs.alert = alert])
           /\ IsSession(quic_refuse_unread(h))
<1>1. \A g : IsSession(g) => IsSession(Violation(g))
  BY DEF Violation, IsSession, OwnFields
<1>2. \A g, alert : IsSession(g) => IsSession([g EXCEPT !.hs.alert = alert])
  BY DEF IsSession, OwnFields, HsFields
<1>3. \A g : IsSession(g) => IsSession(Unexpected(g))
  BY <1>2, ZenonT(40) DEF Unexpected
<1> QED BY <1>1, <1>2, <1>3, ZenonT(40) DEF quic_refuse_unread

\* ch_quic_crypto_in takes bytes only when nothing is staged.
LEMMA CryptoInTells ==
    ASSUME IInv, Story, NEW level, NEW cells, crypto_in(level, cells)
    PROVE  Story'
<1>1. ~session_dead(q) /\ q.tx = << >> /\ Open(q) /\ Tells(q)
  BY Zenon DEF crypto_in, InAllowed, IInv, Open, Story
<1>2. CASE level = q.rx_level
  <2>1. PICK s : Feed(q, s)
    BY <1>2, ZenonT(40) DEF crypto_in
  <2> DEFINE buf == q.t.buf \o SubSeq(s, 1, Fits(q, s))
             g   == [q EXCEPT !.t.buf = buf]
  <2>2. q' = g
    BY <2>1, <1>1 DEF Feed, Open, IsSession, TlsFields
  <2> HIDE DEF buf
  <2>3. /\ g.hs = q.hs /\ \A f \in OwnFields : g[f] = q[f]
        /\ \A f \in TlsFields \ {"buf"} : g.t[f] = q.t[f]
    BY <1>1 DEF Open, IsSession, OwnFields, TlsFields
  <2> HIDE DEF g
  <2>4. SameTelling(q, g) /\ g.tx = << >>
    BY <1>1, <2>3 DEF SameTelling, OwnFields, TlsFields
  <2>5. Tells(g)
    BY <1>1, <2>4, SameTale, ZenonT(40)
  <2> QED BY <2>2, <2>4, <2>5, ZenonT(40) DEF Story
<1>3. CASE level # q.rx_level
  <2>1. q' = quic_fail(Unexpected(Violation(q)))
    BY <1>3, ZenonT(40) DEF crypto_in, quic_fail_level
  <2>2. IsSession(Unexpected(Violation(q)))
    BY <1>1, StillSession, ZenonT(40) DEF Open
  <2> QED BY <2>1, <2>2, FailEnds, EndsStory, ZenonT(40)
<1> QED BY <1>2, <1>3

\* A delivery, the end of one and one too large keep the story.
LEMMA DeliveryTells ==
    ASSUME IInv, Story, PeerCrypto \/ PeerStray \/ drive_done \/ drive_oversize
    PROVE  Story'
<1>1. CASE PeerCrypto \/ PeerStray
  BY <1>1, CryptoInTells, ZenonT(40) DEF PeerCrypto, PeerStray
<1>2. CASE drive_done
  BY <1>2, ZenonT(40) DEF drive_done, Story
<1>3. CASE drive_oversize
  <2>1. q' = quic_fail([q EXCEPT !.hs.alert = OversizeAlert(q)])
    BY <1>3, ZenonT(40) DEF drive_oversize, fail
  <2>2. IsSession([q EXCEPT !.hs.alert = OversizeAlert(q)])
    BY StillSession, ZenonT(40) DEF IInv
  <2> QED BY <2>1, <2>2, FailEnds, EndsStory, ZenonT(40)
<1> QED BY <1>1, <1>2, <1>3

\* The calls between two deliveries that hand nothing over keep the story.
LEMMA CallTells ==
    ASSUME IInv, Story,
           \/ \E level, version : \/ quic_seal(level, version) \/ seal_close(level, version)
                                  \/ quic_open(level, version)
           \/ \E level : discard(level)
           \/ \E version : switch_version(version)
           \/ initial_keys \/ key_update \/ drop_previous_keys \/ close
    PROVE  Story'
<1>0. IsSession(q) /\ q.ready \subseteq Levels \X Dirs
  BY DEF IInv, Dirs
<1>1. ASSUME NEW level, NEW version, quic_seal(level, version) PROVE Story'
  <2> DEFINE g == seal_at_level(q, level)
  <2>1. q' = g
    BY <1>1, ZenonT(40) DEF quic_seal, App
  <2>2. /\ g.t = q.t /\ g.hs = q.hs
        /\ \A f \in OwnFields \ {"initial_sealed", "handshake_tx", "app_tx"} : g[f] = q[f]
    BY <1>0, SealsAt, ZenonT(40)
  <2> HIDE DEF g
  <2>3. \A f \in TaleFields : g[f] = q[f]
    BY <2>2 DEF TaleFields, OwnFields
  <2> QED BY <2>1, <2>2, <2>3, QuietStays, ZenonT(40)
<1>2. ASSUME NEW level, NEW version, seal_close(level, version) PROVE Story'
  <2> DEFINE h == seal_at_level(q, level)
             g == quic_wipe_write_keys(h, level)
  <2>1. q' = g /\ q.t.state = "FAILED"
    BY <1>2, ZenonT(40) DEF seal_close, CanSealClose, App, quic_seal_close
  <2>2. IsSession(h) /\ h.t = q.t
    BY <1>0, SealsAt, ZenonT(40)
  <2> HIDE DEF h
  <2>3. g.t = h.t
    BY <2>2, WipesWrite, ZenonT(40)
  <2> HIDE DEF g
  <2>4. session_dead(g)
    BY <2>1, <2>2, <2>3, ZenonT(40) DEF session_dead
  <2> QED BY <2>1, <2>4, EndsStory, ZenonT(40)
<1>3. ASSUME NEW level, NEW version, quic_open(level, version) PROVE Story'
  <2> DEFINE n == q.open_failures + 1
             c == [q EXCEPT !.open_failures = n]
             h == [c EXCEPT !.hs.alert = "bad_record_mac"]
  <2>1. q' = open_failed(q)
    BY <1>3, ZenonT(40) DEF quic_open, App
  <2>2. c = [q EXCEPT !.open_failures = @ + 1]
    BY <1>0 DEF IsSession, OwnFields
  <2>3. q' = IF quic_integrity_limit_exceeded(c.open_failures) THEN quic_fail(h) ELSE c
    BY <2>1, <2>2, ZenonT(40) DEF open_failed
  <2> HIDE DEF n
  <2>4. /\ IsSession(c) /\ c.t = q.t /\ c.hs = q.hs
        /\ \A f \in OwnFields \ {"open_failures"} : c[f] = q[f]
    BY <1>0 DEF IsSession, OwnFields
  <2> HIDE DEF c
  <2>5. IsSession(h)
    BY <2>4, StillSession, ZenonT(40)
  <2> HIDE DEF h
  <2>6. CASE q' = quic_fail(h)
    BY <2>5, <2>6, FailEnds, EndsStory, ZenonT(40)
  <2>7. CASE q' = c
    <3>1. \A f \in TaleFields : c[f] = q[f]
      BY <2>4 DEF TaleFields, OwnFields
    <3> QED BY <2>4, <2>7, <3>1, QuietStays, ZenonT(40)
  <2> QED BY <2>3, <2>6, <2>7, ZenonT(40)
<1>4. ASSUME NEW level, discard(level) PROVE Story'
  <2> DEFINE g == quic_discard(q, level)
  <2>1. q' = g
    BY <1>4, ZenonT(40) DEF discard, App
  <2>2. /\ g.t = q.t /\ g.hs = q.hs
        /\ \A f \in OwnFields \ (WriteFields \cup ReadFields \cup {"ready"}) : g[f] = q[f]
    BY <1>0, Discards DEF g
  <2> HIDE DEF g
  <2>3. \A f \in TaleFields : g[f] = q[f]
    BY <2>2 DEF TaleFields, OwnFields, WriteFields, ReadFields
  <2> QED BY <2>1, <2>2, <2>3, QuietStays, ZenonT(40)
<1>5. ASSUME NEW version, switch_version(version) PROVE Story'
  <2> DEFINE g == [q EXCEPT !.t.quic_negotiated_version = version]
  <2>1. q' = g
    BY <1>5, ZenonT(40) DEF switch_version
  <2>2. /\ g.hs = q.hs /\ \A f \in OwnFields : g[f] = q[f]
        /\ \A f \in TlsFields \ {"quic_negotiated_version"} : g.t[f] = q.t[f]
    BY <1>0 DEF IsSession, OwnFields, TlsFields
  <2> HIDE DEF g
  <2>3. \A f \in TaleFields : g[f] = q[f]
    BY <2>2 DEF TaleFields, OwnFields
  <2> QED BY <2>1, <2>2, <2>3, QuietStays, ZenonT(40)
<1>6. ASSUME initial_keys PROVE Story'
  <2> DEFINE d == TRUE
             a == [q EXCEPT !.initial_dcid = d]
             g == quic_initial_keys(q)
  <2>1. q' = g
    BY <1>6, ZenonT(40) DEF initial_keys, App
  <2>2. /\ IsSession(a) /\ a.t = q.t /\ a.hs = q.hs
        /\ \A f \in OwnFields \ {"initial_dcid"} : a[f] = q[f]
    BY <1>0 DEF IsSession, OwnFields
  <2>3. g = Announce(a, 0, {"READ", "WRITE"})
    BY DEF quic_initial_keys
  <2> HIDE DEF a, g
  <2>4. /\ g.t = a.t /\ g.hs = a.hs /\ \A f \in OwnFields \ {"ready"} : g[f] = a[f]
    BY <2>2, <2>3 DEF Announce, IsSession, OwnFields
  <2>5. \A f \in TaleFields : g[f] = q[f]
    BY <2>2, <2>4 DEF TaleFields, OwnFields
  <2> QED BY <2>1, <2>2, <2>4, <2>5, QuietStays, ZenonT(40)
<1>7. ASSUME key_update PROVE Story'
  <2> DEFINE g == quic_key_update(q)
  <2>1. q' = g
    BY <1>7, ZenonT(40) DEF key_update, App
  <2>2. /\ g.hs = q.hs
        /\ \A f \in TlsFields \ {"rd_secret", "wr_secret"} : g.t[f] = q.t[f]
        /\ \A f \in OwnFields \ {"app_tx", "app_rx", "key_phase"} : g[f] = q[f]
    BY <1>0, UpdateFields, ZenonT(40)
  <2> HIDE DEF g
  <2>3. \A f \in TaleFields : g[f] = q[f]
    BY <2>2 DEF TaleFields, OwnFields
  <2> QED BY <2>1, <2>2, <2>3, QuietStays, ZenonT(40)
<1>8. ASSUME drop_previous_keys PROVE Story'
  <2> DEFINE rx == [q.app_rx EXCEPT !["PREVIOUS"] = NoKeys]
             g  == [q EXCEPT !.app_rx = rx]
  <2>1. q' = g
    BY <1>0, <1>8 DEF drop_previous_keys, quic_drop_previous_keys, App, IsSession, OwnFields
  <2> HIDE DEF rx
  <2>2. g.t = q.t /\ g.hs = q.hs /\ \A f \in OwnFields \ {"app_rx"} : g[f] = q[f]
    BY <1>0 DEF IsSession, OwnFields
  <2> HIDE DEF g
  <2>3. \A f \in TaleFields : g[f] = q[f]
    BY <2>2 DEF TaleFields, OwnFields
  <2> QED BY <2>1, <2>2, <2>3, QuietStays, ZenonT(40)
<1>9. ASSUME close PROVE Story'
  <2> DEFINE a == quic_wipe(q)
             g == [a EXCEPT !.t.state = "CLOSED"]
  <2>1. q' = g
    BY <1>9, ZenonT(40) DEF close, quic_close, App
  <2>2. IsSession(a)
    BY <1>0, WipesAll, ZenonT(40)
  <2> HIDE DEF a
  <2>3. g.t.state = "CLOSED"
    BY <2>2 DEF IsSession, TlsFields
  <2> HIDE DEF g
  <2>4. session_dead(g)
    BY <2>3, ZenonT(40) DEF session_dead
  <2> QED BY <2>1, <2>4, EndsStory, ZenonT(40)
<1> QED BY <1>1, <1>2, <1>3, <1>4, <1>5, <1>6, <1>7, <1>8, <1>9, ZenonT(40)

\* A second element after a first.
LEMMA TwoInOrder ==
    ASSUME NEW x, NEW y
    PROVE  Append(<< x >>, y) = << x, y >>
<1> DEFINE S == {x, y}
           s == Append(<< x >>, y)
           t == << x, y >>
<1>1. << x >> \in Seq(S) /\ y \in S /\ t \in Seq(S)
  OBVIOUS
<1>2. s \in Seq(S)
  BY <1>1
<1> HIDE DEF S
<1>3. Len(s) = 2 /\ Len(t) = 2 /\ s[1] = x /\ s[2] = y /\ t[1] = x /\ t[2] = y
  OBVIOUS
<1>4. s = [i \in 1..Len(s) |-> s[i]] /\ t = [i \in 1..Len(t) |-> t[i]]
  BY <1>1, <1>2
<1> HIDE DEF s, t
<1>5. \A i \in 1..2 : s[i] = t[i]
  BY <1>3
<1>6. s = t
  BY <1>3, <1>4, <1>5
<1> QED BY <1>6 DEF s, t

\* What crypto_out hands over is the message the story says is staged.
LEMMA OutTells ==
    ASSUME IInv, Story, NEW level, crypto_out(level)
    PROVE  Story'
<1> DEFINE made == Append(q.made, Out(level, q.tx[1]))
           st   == IF q.step = "COMPLETE" /\ q.t.state = "START" THEN "CONNECTED" ELSE q.t.state
           a    == [q EXCEPT !.made = made, !.tx = << >>]
           g    == [a EXCEPT !.t.state = st]
           tr   == q.t.transcript
<1>1. /\ ~session_dead(q) /\ Open(q) /\ Tells(q) /\ q.tx # << >> /\ level = q.tx_level
  BY Zenon DEF crypto_out, IInv, Open, Story
<1>2. q' = g
  BY <1>1, ZenonT(40) DEF crypto_out, Open, IsSession, Out
<1>3. q.t.cfg.role # "server" /\ ClientStory(q)
  <2>1. ~ServerStory(q)
    BY <1>1, ZenonT(40) DEF ServerStory
  <2> QED BY <2>1, <1>1, ZenonT(40) DEF Tells
<1> HIDE DEF made, st
<1>4. /\ IsSession(a) /\ a.t = q.t /\ a.hs = q.hs /\ a.made = made /\ a.tx = << >>
      /\ \A f \in OwnFields \ {"made", "tx"} : a[f] = q[f]
  BY <1>1, ZenonT(40) DEF Open, IsSession, OwnFields
<1> HIDE DEF a
<1>5. /\ IsSession(g) /\ g.hs = a.hs /\ g.t.state = st
      /\ \A f \in OwnFields : g[f] = a[f]
      /\ \A f \in TlsFields \ {"state"} : g.t[f] = a.t[f]
  BY <1>4 DEF IsSession, OwnFields, TlsFields
<1> HIDE DEF g
<1>6. /\ g.hs = q.hs /\ g.made = made /\ g.tx = << >> /\ g.step = q.step
      /\ g.t.cfg = q.t.cfg /\ g.t.transcript = tr /\ g.t.epoch = q.t.epoch /\ g.t.state = st
      /\ g.t.psk_selected = q.t.psk_selected
  BY <1>4, <1>5 DEF OwnFields, TlsFields
<1> HIDE DEF tr
<1>7. /\ q.step \in AwaitsHello \cup FlightSteps \cup {"COMPLETE"} /\ q.t.cfg.stored \in Nat
      /\ EpochChecked(q) /\ q.step # "COMPLETE" => q.t.epoch = q.t.cfg.stored
      /\ q.step \in AwaitsHello => HelloSent(q) /\ HelloTold(q)
      /\ q.step \notin FlightSteps
      /\ q.step = "COMPLETE" =>
            /\ LegalFlight(q) /\ q.t.state = "START" /\ q.tx = << tr[Len(tr)] >>
            /\ q.tx_level = 1 /\ q.made = HelloRecords(tr)
  BY <1>1, <1>3, ZenonT(40) DEF ClientStory, tr
<1>8. EpochChecked(g) <=> EpochChecked(q)
  BY <1>6, ZenonT(40) DEF EpochChecked
<1>9. ClientStory(g)
  <2>1. CASE q.step \in AwaitsHello
    <3>1. q.step # "COMPLETE" /\ q.step \notin FlightSteps
      BY <2>1 DEF AwaitsHello, FlightSteps
    <3>2. HelloSent(g)
      <4>1. HelloShares(g) = HelloShares(q) /\ (PskOffered(g) <=> PskOffered(q))
        BY <1>6, ZenonT(40) DEF HelloShares, PskOffered
      <4> QED BY <2>1, <1>6, <1>7, <4>1, ZenonT(40) DEF HelloSent, tr
    <3>3. HelloTold(g)
      <4> DEFINE n == Len(tr)
                 m == tr[n]
      <4>1. /\ n \in {1, 3} /\ tr[n].type = "client_hello"
            /\ n = 3 => tr[1].type = "message_hash"
        BY <2>1, <1>7, ZenonT(40) DEF HelloSent, tr
      <4>2. /\ q.tx = << m >> /\ q.tx_level = 0
            /\ q.made = IF n = 1 THEN << >> ELSE << Out(0, tr[1].of[1]) >>
        BY <2>1, <1>1, <1>7, ZenonT(40) DEF HelloTold, tr
      <4> HIDE DEF m
      <4>3. q.tx[1] = m
        BY <4>2
      <4>4. made = Append(q.made, Out(0, m))
        BY <1>1, <4>2, <4>3, ZenonT(40) DEF made
      <4> HIDE DEF n
      <4>5. CASE n = 1
        <5>1. m = tr[1] /\ tr[1].type # "message_hash"
          BY <4>1, <4>5 DEF m
        <5>2. HelloRecords(tr) = << Out(0, m) >>
          BY <5>1, ZenonT(40) DEF HelloRecords
        <5>3. made = << Out(0, m) >>
          BY <4>2, <4>4, <4>5
        <5> QED BY <5>2, <5>3, <1>6, ZenonT(40) DEF HelloTold
      <4>6. CASE n = 3
        <5> DEFINE o == Out(0, tr[1].of[1])
        <5>1. m = tr[3] /\ tr[1].type = "message_hash"
          BY <4>1, <4>6 DEF m
        <5>2. HelloRecords(tr) = << o, Out(0, m) >>
          BY <5>1, ZenonT(40) DEF HelloRecords
        <5> HIDE DEF o
        <5>3. q.made = << o >>
          BY <4>2, <4>6 DEF o
        <5>4. made = << o, Out(0, m) >>
          BY <4>4, <5>3, TwoInOrder, ZenonT(40)
        <5> QED BY <5>2, <5>4, <1>6, ZenonT(40) DEF HelloTold
      <4> QED BY <4>1, <4>5, <4>6
    <3> QED BY <3>1, <3>2, <3>3, <1>6, <1>7, <1>8, <2>1, ZenonT(40) DEF ClientStory, FlightSteps
  <2>2. CASE q.step = "COMPLETE"
    <3>1. q.step \notin AwaitsHello /\ q.step \notin FlightSteps
      BY <2>2 DEF AwaitsHello, FlightSteps
    <3>2. st = "CONNECTED" /\ LegalFlight(g)
      BY <2>2, <1>6, <1>7, SameFlight DEF st, tr
    <3>3. q.tx[1] = tr[Len(tr)]
      BY <2>2, <1>7
    <3>4. made = Append(HelloRecords(tr), Out(1, tr[Len(tr)]))
      BY <3>3, <2>2, <1>1, <1>7, ZenonT(40) DEF made
    <3>5. g.t.state # "START"
      BY <3>2, <1>6
    <3> QED BY <3>1, <3>2, <3>4, <3>5, <1>6, <1>7, <2>2 DEF ClientStory, FlightSteps
  <2> QED BY <1>7, <2>1, <2>2, ZenonT(40)
<1> QED BY <1>2, <1>3, <1>6, <1>9, ZenonT(40) DEF Story, Tells

-----------------------------------------------------------------------------
(* How a turn tells the story on *)

\* A turn keeps the story when the session it leaves tells it.  Nothing waits
\* behind a message that made the session stage one.
LEMMA AdvanceTells ==
    ASSUME NEW res, Advance(res), IsSession(res.h), res.ok \in BOOLEAN, res.ok => Tells(res.h)
    PROVE  Story'
<1> DEFINE h == [res.h EXCEPT !.room = 0]
           moved == h.rx_level # q.rx_level \/ h.tx # << >>
           u == quic_refuse_unread(h)
<1>1. IF ~res.ok THEN fail(h)
      ELSE IF moved /\ Left(h, rest) THEN fail(u) ELSE Feed(h, rest)
  BY ZenonT(40) DEF Advance
<1>2. /\ IsSession(h) /\ h.t = res.h.t /\ h.hs = res.h.hs
      /\ \A f \in OwnFields \ {"room"} : h[f] = res.h[f]
  BY DEF IsSession, OwnFields
<1> HIDE DEF h
<1>3. IsSession(u)
  BY <1>2, StillSession, ZenonT(40)
<1>4. CASE ~res.ok \/ (moved /\ Left(h, rest))
  <2>1. q' = quic_fail(h) \/ q' = quic_fail(u)
    BY <1>1, <1>4, ZenonT(40) DEF fail
  <2> QED BY <2>1, <1>2, <1>3, FailEnds, EndsStory, ZenonT(40)
<1>5. CASE res.ok /\ ~(moved /\ Left(h, rest))
  <2> DEFINE part == SubSeq(rest, 1, Fits(h, rest))
             buf  == h.t.buf \o part
             g    == [h EXCEPT !.t.buf = buf]
  <2>1. q' = g
    BY <1>1, <1>2, <1>5, ZenonT(40) DEF Feed, IsSession, TlsFields
  <2>2. h.tx # << >> => buf = << >>
    <3> SUFFICES ASSUME h.tx # << >> PROVE buf = << >>
      OBVIOUS
    <3>1. h.t.buf = << >> /\ rest = << >>
      BY <1>5, ZenonT(40) DEF Left
    <3> DEFINE n == Fits(h, rest)
    <3>2. Len(rest) = 0 /\ Len(h.t.buf) = 0
      BY <3>1
    <3>3. n <= 0 /\ n \in Int
      BY <3>2, FrameAssumption DEF Fits, Fewer, FrameAssumption
    <3> HIDE DEF n
    <3>4. SubSeq(<< >>, 1, n) = << >>
      BY <3>3
    <3> QED BY <3>1, <3>4 DEF n
  <2> HIDE DEF buf
  <2>3. /\ g.hs = h.hs /\ g.t.buf = buf /\ \A f \in OwnFields : g[f] = h[f]
        /\ \A f \in TlsFields \ {"buf"} : g.t[f] = h.t[f]
    BY <1>2 DEF IsSession, OwnFields, TlsFields
  <2> HIDE DEF g
  <2>4. SameTelling(res.h, g) /\ g.tx = h.tx
    BY <1>2, <2>3 DEF SameTelling, OwnFields, TlsFields
  <2>5. Tells(g)
    BY <1>5, <2>4, SameTale, ZenonT(40)
  <2> QED BY <2>1, <2>2, <2>3, <2>4, <2>5, ZenonT(40) DEF Story
<1> QED BY <1>4, <1>5, ZenonT(40)

\* Nothing is staged when a message is read.
LEMMA TurnTells ==
    ASSUME Turn, Story
    PROVE  LET k == Taken(q) IN
           /\ ~session_dead(q) /\ Alive(q) /\ Tells(q) /\ q.tx = << >>
           /\ IsSession(q) /\ IsSession(k) /\ IsSeq(q.t.transcript)
           /\ SameBut(q, k, {"buf"}, {}) /\ k.hs = q.hs
           /\ SameTelling(q, k) /\ Tells(k) /\ Alive(k)
<1> DEFINE k == Taken(q)
<1>1. /\ ~session_dead(q) /\ Alive(q) /\ IsSession(q) /\ IsSession(k) /\ Alive(k)
      /\ k.hs = q.hs /\ \A f \in OwnFields : k[f] = q[f]
      /\ \A f \in TlsFields \ {"buf"} : k.t[f] = q.t[f]
  BY TakesMessage, ZenonT(40) DEF Open
<1>2. IsSeq(q.t.transcript)
  BY Zenon DEF Turn, IInv
<1>3. q.t.buf # << >>
  BY Zenon DEF Turn, Whole
<1>4. Tells(q) /\ q.tx = << >>
  BY <1>1, <1>3, ZenonT(40) DEF Story
<1> HIDE DEF k
<1>5. SameBut(q, k, {"buf"}, {})
  BY <1>1 DEF SameBut
<1>6. SameTelling(q, k)
  BY <1>1 DEF SameTelling, OwnFields, TlsFields
<1>7. Tells(k)
  BY <1>4, <1>6, SameTale, ZenonT(40)
<1> QED BY <1>1, <1>2, <1>4, <1>5, <1>6, <1>7, ZenonT(40) DEF k

\* a handler's answer that keeps the story
Told(res) == IsSession(res.h) /\ res.ok \in BOOLEAN /\ (res.ok => Tells(res.h))

\* A refusal keeps it.
LEMMA RefusalTold ==
    ASSUME NEW h, IsSession(h), NEW alert
    PROVE  Told(No(h, alert)) /\ Told(No(Violation(h), alert))
<1>1. IsSession(Violation(h))
  BY StillSession, ZenonT(40)
<1>2. \A g : IsSession(g) => Told(No(g, alert))
  <2> TAKE g
  <2> SUFFICES ASSUME IsSession(g) PROVE Told(No(g, alert))
    OBVIOUS
  <2> DEFINE res == No(g, alert)
  <2>1. res.ok = FALSE /\ IsSession(res.h)
    BY Refusal, ZenonT(40)
  <2> HIDE DEF res
  <2> QED BY <2>1, ZenonT(40) DEF Told, res
<1> QED BY <1>1, <1>2, ZenonT(40)

\* What comes after the handshake.
LEMMA AfterTells ==
    ASSUME Turn, Story, step_complete \/ advance_complete
    PROVE  Story'
<1> DEFINE h == Taken(q)
<1>1. Tells(h) /\ IsSession(h) /\ IsSession(q)
  BY TurnTells, ZenonT(40)
<1> HIDE DEF h
<1>2. CASE step_complete
  <2>1. PICK res : Advance(res) /\ res \in {Ok(h), No(h, "decode_error"),
            No(Violation(h), "illegal_parameter"), No(Violation(h), "unexpected_message"),
            No(h, "unexpected_message")}
    BY <1>2, AfterAnswers, ZenonT(40) DEF h
  <2>2. Told(Ok(h))
    <3>1. Ok(h).ok = TRUE /\ Ok(h).h = h
      BY DEF Ok
    <3> QED BY <1>1, <3>1, ZenonT(40) DEF Told
  <2>3. Told(res)
    BY <1>1, <2>1, <2>2, RefusalTold, ZenonT(40)
  <2> QED BY <2>1, <2>3, AdvanceTells, ZenonT(40) DEF Told
<1>3. CASE advance_complete
  <2> DEFINE res == No(q, "unexpected_message")
  <2>1. Advance(res)
    BY <1>3, ZenonT(40) DEF advance_complete
  <2>2. Told(res)
    BY <1>1, RefusalTold, ZenonT(40)
  <2> HIDE DEF res
  <2> QED BY <2>1, <2>2, AdvanceTells, ZenonT(40) DEF Told
<1> QED BY <1>2, <1>3

-----------------------------------------------------------------------------
(* The story of the first state *)

\* A function on the first n numbers is a sequence of n.
LEMMA FunctionList ==
    ASSUME NEW n \in Nat, NEW S, NEW F \in [1..n -> S]
    PROVE  F \in Seq(S) /\ Len(F) = n
OBVIOUS

\* A record put behind one record, or behind two, makes the list of them.
LEMMA Listed ==
    ASSUME NEW x, NEW y, NEW w
    PROVE  /\ \A F \in [1..2 -> {x, w}] : F[1] = x /\ F[2] = w => F = Append(<< x >>, w)
           /\ \A F \in [1..3 -> {x, y, w}] :
                 F[1] = x /\ F[2] = y /\ F[3] = w => F = Append(<< x, y >>, w)
<1>1. ASSUME NEW F \in [1..2 -> {x, w}], F[1] = x, F[2] = w
      PROVE  F = Append(<< x >>, w)
  <2> DEFINE M == Append(<< x >>, w)
             S == {x, w}
  <2>1. M \in Seq(S) /\ Len(M) = 2 /\ M[1] = x /\ M[2] = w
    OBVIOUS
  <2>2. F \in Seq(S) /\ Len(F) = 2
    <3>1. F \in [1..2 -> S] /\ 2 \in Nat
      BY <1>1
    <3> HIDE DEF M, S
    <3> QED BY <3>1, FunctionList, ZenonT(40)
  <2> HIDE DEF M, S
  <2>3. M = F
    BY <1>1, <2>1, <2>2
  <2> QED BY <2>3 DEF M
<1>2. ASSUME NEW F \in [1..3 -> {x, y, w}], F[1] = x, F[2] = y, F[3] = w
      PROVE  F = Append(<< x, y >>, w)
  <2> DEFINE M == Append(<< x, y >>, w)
             S == {x, y, w}
  <2>1. M \in Seq(S) /\ Len(M) = 3 /\ M[1] = x /\ M[2] = y /\ M[3] = w
    OBVIOUS
  <2>2. F \in Seq(S) /\ Len(F) = 3
    <3>1. F \in [1..3 -> S] /\ 3 \in Nat
      BY <1>2
    <3> HIDE DEF M, S
    <3> QED BY <3>1, FunctionList, Zenon
  <2> HIDE DEF M, S
  <2>3. M = F
    BY <1>2, <2>1, <2>2
  <2> QED BY <2>3 DEF M
<1> QED BY <1>1, <1>2, Zenon

\* A client that has handed over its hellos and its Finished has handed over
\* every message of its own.
LEMMA AllHandedOver ==
    ASSUME NEW h,
           h.made = Append(HelloRecords(h.t.transcript),
                           Out(1, h.t.transcript[Len(h.t.transcript)]))
    PROVE  HandedOver(h)
<1> DEFINE tr  == h.t.transcript
           z   == tr[Len(tr)]
           own == OwnMessages(tr)
           Rec(i) == Made(CryptoFrames(IF i = Len(own) THEN 1 ELSE 0, Cells(own[i])), TRUE)
<1>1. SUFFICES h.made = [i \in 1..Len(own) |-> Rec(i)]
  BY Zenon DEF HandedOver
<1>2. CASE tr[1].type = "message_hash"
  <2> DEFINE a == tr[1].of[1]
             b == tr[3]
  <2>1. own = << a, b >> \o << z >>
    BY <1>2, Zenon DEF OwnMessages
  <2>2. h.made = Append(<< Out(0, a), Out(0, b) >>, Out(1, z))
    BY <1>2, Zenon DEF HelloRecords
  <2> HIDE DEF a, b, z, own
  <2>3. Len(own) = 3 /\ own[1] = a /\ own[2] = b /\ own[3] = z
    BY <2>1
  <2>4. Rec(1) = Out(0, a) /\ Rec(2) = Out(0, b) /\ Rec(3) = Out(1, z)
    <3>1. 1 # Len(own) /\ 2 # Len(own) /\ 3 = Len(own)
      BY <2>3
    <3> QED BY <2>3, <3>1, ZenonT(40) DEF Out
  <2> HIDE DEF Rec
  <2> DEFINE F == [i \in 1..3 |-> Rec(i)]
  <2>5. F \in [1..3 -> {Out(0, a), Out(0, b), Out(1, z)}] /\ F[1] = Rec(1) /\ F[2] = Rec(2) /\ F[3] = Rec(3)
    <3>1. F \in [1..3 -> {Rec(1), Rec(2), Rec(3)}] /\ F[1] = Rec(1) /\ F[2] = Rec(2) /\ F[3] = Rec(3)
      OBVIOUS
    <3> QED BY <2>4, <3>1, ZenonT(40)
  <2> HIDE DEF F
  <2>6. h.made = F
    BY <2>2, <2>4, <2>5, Listed, ZenonT(40)
  <2> QED BY <2>3, <2>6, Zenon DEF F
<1>3. CASE tr[1].type # "message_hash"
  <2> DEFINE a == tr[1]
  <2>1. own = << a >> \o << z >>
    BY <1>3, ZenonT(40) DEF OwnMessages
  <2>2. h.made = Append(<< Out(0, a) >>, Out(1, z))
    BY <1>3, Zenon DEF HelloRecords
  <2> HIDE DEF a, z, own
  <2>3. Len(own) = 2 /\ own[1] = a /\ own[2] = z
    BY <2>1
  <2>4. Rec(1) = Out(0, a) /\ Rec(2) = Out(1, z)
    <3>1. 1 # Len(own) /\ 2 = Len(own)
      BY <2>3
    <3> QED BY <2>3, <3>1, ZenonT(40) DEF Out
  <2> HIDE DEF Rec
  <2> DEFINE F == [i \in 1..2 |-> Rec(i)]
  <2>5. F \in [1..2 -> {Out(0, a), Out(1, z)}] /\ F[1] = Rec(1) /\ F[2] = Rec(2)
    <3>1. F \in [1..2 -> {Rec(1), Rec(2)}] /\ F[1] = Rec(1) /\ F[2] = Rec(2)
      OBVIOUS
    <3> QED BY <2>4, <3>1, ZenonT(40)
  <2> HIDE DEF F
  <2>6. h.made = F
    BY <2>2, <2>4, <2>5, Listed, ZenonT(40)
  <2> QED BY <2>3, <2>6, ZenonT(40) DEF F
<1> QED BY <1>2, <1>3, Zenon

\* What tlsi_epoch_init leaves of a zeroed session that it accepts.
LEMMA EpochInitFacts ==
    ASSUME NEW cfg, NEW stored, NEW res, res = EpochInit(Blank(cfg), stored)
    PROVE  /\ IsSession(res.h) /\ res.ok \in BOOLEAN
           /\ SameBut(Blank(cfg), res.h, {"epoch", "epoch_seen", "epoch_status"}, {})
           /\ res.h.hs = NoHs
           /\ res.ok /\ EpochChecked(Blank(cfg)) => res.h.t.epoch = stored
<1> DEFINE b      == Blank(cfg)
           loaded == [b EXCEPT !.t.epoch = stored]
           ticket == [loaded EXCEPT !.t.epoch_seen = cfg.ticket_epoch]
           Judged(s) == [ticket EXCEPT !.t.epoch_status = s]
           Kept(g) == /\ IsSession(g)
                      /\ SameBut(b, g, {"epoch", "epoch_seen", "epoch_status"}, {})
                      /\ g.hs = NoHs
<1>1. IsSession(b) /\ b.hs = NoHs /\ b.t.cfg = cfg
  <2>1. IsSession(b)
    BY BlankShape
  <2> QED BY <2>1, Zenon DEF Blank, NoTls
<1> HIDE DEF b
<1>2. Kept(b)
  BY <1>1 DEF SameBut
<1>3. Kept(loaded) /\ loaded.t.epoch = stored
  BY <1>1 DEF IsSession, TlsFields, SameBut
<1> HIDE DEF loaded
<1>4. Kept(ticket) /\ ticket.t.epoch = stored
  BY <1>3 DEF IsSession, TlsFields, SameBut
<1> HIDE DEF ticket
<1>5. \A s : Kept(Judged(s)) /\ Judged(s).t.epoch = stored
  BY <1>4, SMTT(30) DEF IsSession, TlsFields, SameBut
<1>6. \/ res = Ok(b) /\ ~EpochChecked(b)
      \/ res = [ok |-> FALSE, h |-> b]
      \/ res = Ok(loaded) \/ res = [ok |-> FALSE, h |-> loaded]
      \/ \E s : res = [ok |-> FALSE, h |-> Judged(s)] \/ res = Ok(Judged(s))
  BY <1>1, ZenonT(40) DEF EpochInit, b, loaded, ticket
<1> HIDE DEF Judged, Kept
<1>7. /\ res.ok \in BOOLEAN /\ Kept(res.h)
      /\ res.ok /\ EpochChecked(b) => res.h.t.epoch = stored
  <2>1. CASE res = Ok(b) /\ ~EpochChecked(b)
    <3>1. res.ok = TRUE /\ res.h = b
      BY <2>1 DEF Ok
    <3> QED BY <1>2, <2>1, <3>1, ZenonT(40)
  <2>2. CASE res = [ok |-> FALSE, h |-> b]
    <3>1. res.ok = FALSE /\ res.h = b
      BY <2>2
    <3> QED BY <1>2, <3>1, ZenonT(40)
  <2>3. CASE res = Ok(loaded)
    <3>1. res.ok = TRUE /\ res.h = loaded
      BY <2>3 DEF Ok
    <3> QED BY <1>3, <3>1, ZenonT(40)
  <2>4. CASE res = [ok |-> FALSE, h |-> loaded]
    <3>1. res.ok = FALSE /\ res.h = loaded
      BY <2>4
    <3> QED BY <1>3, <3>1, ZenonT(40)
  <2>5. CASE \E s : res = [ok |-> FALSE, h |-> Judged(s)] \/ res = Ok(Judged(s))
    <3>1. PICK s : res = [ok |-> FALSE, h |-> Judged(s)] \/ res = Ok(Judged(s))
      BY <2>5
    <3>2. CASE res = [ok |-> FALSE, h |-> Judged(s)]
      <4>1. res.ok = FALSE /\ res.h = Judged(s)
        BY <3>2
      <4> QED BY <1>5, <4>1, ZenonT(40)
    <3>3. CASE res = Ok(Judged(s))
      <4>1. res.ok = TRUE /\ res.h = Judged(s)
        BY <3>3 DEF Ok
      <4> QED BY <1>5, <4>1, ZenonT(40)
    <3> QED BY <3>1, <3>2, <3>3
  <2> QED BY <1>6, <2>1, <2>2, <2>3, <2>4, <2>5
<1> QED BY <1>7, SMTT(30) DEF Kept, b

\* what ch_quic_init makes of a session it accepts
Begun(h, v) ==
    LET begun == hsf_begin([h EXCEPT !.hs.alert = "decode_error",
                                     !.t.quic_negotiated_version = v])
    IN  [hsf_build_client_hello(begun) EXCEPT
            !.tx = << ClientHello(begun) >>, !.step = "AWAIT_SERVER_HELLO"]

\* The first hello was made and is staged, and nothing has left yet.
LEMMA BegunTells ==
    ASSUME NEW cfg, cfg.role # "server", cfg.stored \in Nat, NEW h, IsSession(h), h.hs = NoHs,
           SameBut(Blank(cfg), h, {"epoch", "epoch_seen", "epoch_status"}, {}),
           EpochChecked(Blank(cfg)) => h.t.epoch = cfg.stored, NEW v, NEW g, g = Begun(h, v)
    PROVE  Tells(g) /\ g.t.buf = << >>
<1> DEFINE a   == [h EXCEPT !.hs.alert = "decode_error", !.t.quic_negotiated_version = v]
           b   == hsf_begin(a)
           hi  == ClientHello(b)
           out == Hear(b, hi)
<1>1. h.t.cfg = cfg /\ h.t.buf = << >> /\ h.made = << >> /\ h.tx_level = 0
  <2>1. Blank(cfg).t.cfg = cfg /\ Blank(cfg).t.buf = << >> /\ Blank(cfg).made = << >>
        /\ Blank(cfg).tx_level = 0
    BY Zenon DEF Blank, NoTls
  <2> QED BY <2>1, ZenonT(40) DEF SameBut, TlsFields, OwnFields
<1>2. /\ IsSession(a) /\ a.t.cfg = h.t.cfg /\ a.t.buf = h.t.buf /\ a.t.epoch = h.t.epoch
      /\ a.made = h.made /\ a.tx_level = h.tx_level
      /\ a.hs.suite = "none" /\ a.hs.retry_group = "none"
  BY DEF IsSession, HsFields, NoHs, TlsFields, OwnFields
<1> HIDE DEF a
<1>3. /\ IsSession(b) /\ b.t.transcript = << >> /\ b.made = a.made /\ b.tx_level = a.tx_level
      /\ b.t.cfg = a.t.cfg /\ b.t.buf = a.t.buf /\ b.t.epoch = a.t.epoch
      /\ b.hs.suite = a.hs.suite /\ b.hs.retry_group = a.hs.retry_group
      /\ b.hs.early = IF PskOffered(a) THEN "psk" ELSE "zero"
  <2> DEFINE k == IF TwoGroups(a.t.cfg) THEN {"x25519", "mlkem"} ELSE {"x25519"}
             y == IF PskOffered(a) THEN "psk" ELSE "zero"
  <2>1. b = [a EXCEPT !.hs.kex = k, !.hs.early = y, !.t.transcript = << >>]
    BY DEF hsf_begin
  <2> HIDE DEF k, y, b
  <2>2. /\ IsSession(b) /\ b.t.transcript = << >> /\ b.made = a.made /\ b.tx_level = a.tx_level
        /\ b.t.cfg = a.t.cfg /\ b.t.buf = a.t.buf /\ b.t.epoch = a.t.epoch
        /\ b.hs.suite = a.hs.suite /\ b.hs.retry_group = a.hs.retry_group
        /\ b.hs.early = y
    BY <1>2, <2>1, Zenon DEF IsSession, HsFields, TlsFields, OwnFields
  <2> QED BY <2>2, Zenon DEF y
<1>4. g = [out EXCEPT !.tx = << hi >>, !.step = "AWAIT_SERVER_HELLO"]
  BY Zenon DEF Begun, hsf_build_client_hello, a
<1> HIDE DEF b
<1>5. /\ IsSession(out) /\ SameBut(b, out, {"transcript"}, {}) /\ out.hs = b.hs
      /\ out.t.transcript = Append(b.t.transcript, hi)
  BY <1>3, HearFacts, Zenon
<1>6. /\ out.t.cfg = b.t.cfg /\ out.t.buf = b.t.buf /\ out.t.epoch = b.t.epoch
      /\ out.made = b.made /\ out.tx_level = b.tx_level
  BY <1>5, Zenon DEF SameBut, TlsFields, OwnFields
<1>7. /\ hi.type = "client_hello" /\ hi.suites = b.t.cfg.suites
      /\ hi.shares = HelloShares(b) /\ hi.cookie = b.hs.cookie
      /\ PskOffered(b) => hi.tickets # << >>
  BY HelloFacts
<1> HIDE DEF out, hi
<1>8. /\ IsSession(g) /\ g.t = out.t /\ g.hs = b.hs /\ g.step = "AWAIT_SERVER_HELLO"
      /\ g.tx = << hi >> /\ g.made = out.made /\ g.tx_level = out.tx_level
  BY <1>4, <1>5 DEF IsSession, OwnFields
<1>9. /\ g.t.cfg = cfg /\ b.t.cfg = cfg /\ a.t.cfg = cfg /\ g.made = << >> /\ g.tx_level = 0
      /\ g.t.buf = << >> /\ g.t.epoch = h.t.epoch
  BY <1>1, <1>2, <1>3, <1>6, <1>8, ZenonT(40)
<1> DEFINE tr == g.t.transcript
<1>10. Len(tr) = 1 /\ tr[1] = hi
  <2>1. tr = Append(<< >>, hi)
    BY <1>3, <1>5, <1>8, ZenonT(40)
  <2> HIDE DEF tr
  <2> QED BY <2>1
<1>11. HelloSent(g)
  <2>1. /\ HelloShares(g) = HelloShares(b) /\ (PskOffered(g) <=> PskOffered(b))
        /\ (PskOffered(g) <=> PskOffered(a))
    BY <1>8, <1>9, ZenonT(40) DEF HelloShares, PskOffered
  <2>2. g.hs.suite = "none" /\ g.hs.retry_group = "none" /\ (PskOffered(g) => g.hs.early = "psk")
    BY <1>2, <1>3, <1>8, <2>1
  <2>3. /\ hi.suites = g.t.cfg.suites /\ hi.cookie = g.hs.cookie /\ hi.type = "client_hello"
        /\ hi.shares = HelloShares(g) /\ (PskOffered(g) => hi.tickets # << >>)
    BY <1>7, <1>8, <1>9, <2>1, ZenonT(40)
  <2> DEFINE n == Len(tr)
  <2>4. n = 1 /\ n # 3 /\ tr[n] = hi /\ n = IF g.step = "AWAIT_RETRY_HELLO" THEN 3 ELSE 1
    BY <1>8, <1>10
  <2> HIDE DEF tr, n
  <2> QED BY <2>2, <2>3, <2>4, ZenonT(40) DEF HelloSent, tr, n
<1>12. HelloTold(g)
  <2>1. Len(tr) = 1 /\ g.tx = << tr[Len(tr)] >>
    BY <1>8, <1>10, Zenon
  <2> QED BY <1>9, <2>1, Zenon DEF HelloTold
<1>13. EpochChecked(g) => g.t.epoch = g.t.cfg.stored
  <2>1. Blank(cfg).t.cfg = cfg
    BY Zenon DEF Blank, NoTls
  <2> QED BY <1>9, <2>1, ZenonT(40) DEF EpochChecked
<1>14. ClientStory(g)
  <2>1. /\ g.step \in AwaitsHello /\ g.step \notin FlightSteps /\ g.step # "COMPLETE"
        /\ g.step # "AWAIT_ENCRYPTED_EXTENSIONS" /\ g.step # "AWAIT_CERTIFICATE"
        /\ g.step # "AWAIT_CERTIFICATE_VERIFY" /\ g.step # "AWAIT_FINISHED"
    BY <1>8 DEF AwaitsHello, FlightSteps
  <2>2. g.step \in AwaitsHello \cup FlightSteps \cup {"COMPLETE"} /\ g.t.cfg.stored \in Nat
    BY <1>9, <2>1
  <2> QED BY <1>11, <1>12, <1>13, <2>1, <2>2, ZenonT(40) DEF ClientStory
<1> QED BY <1>9, <1>14, Zenon DEF Tells

\* srv_begin clears the transcript and keeps what this module tells of.
LEMMA BeginFacts ==
    ASSUME NEW c, IsSession(c)
    PROVE  LET g == srv_begin(c) IN
           /\ IsSession(g) /\ g.t.cfg = c.t.cfg /\ g.t.buf = c.t.buf /\ g.tx = c.tx
           /\ g.made = c.made /\ g.step = c.step /\ g.t.transcript = << >>
BY DEF srv_begin, IsSession, OwnFields, TlsFields, HsFields

\* A server starts with nothing heard and nothing said.
LEMMA ServerOpens ==
    ASSUME NEW cfg, cfg.role = "server", cfg.quic, cfg.chain \in Nat, NEW v, NEW g,
           g = srv_begin([Blank(cfg) EXCEPT !.hs.alert = "decode_error",
                              !.step = "AWAIT_CLIENT_HELLO", !.t.quic_negotiated_version = v])
    PROVE  Tells(g) /\ g.t.buf = << >>
<1> DEFINE b == Blank(cfg)
           c == [b EXCEPT !.hs.alert = "decode_error", !.step = "AWAIT_CLIENT_HELLO",
                          !.t.quic_negotiated_version = v]
<1>1. /\ IsSession(b) /\ b.t.cfg = cfg /\ b.t.buf = << >> /\ b.tx = << >> /\ b.made = << >>
  BY BlankShape DEF Blank, NoTls
<1> HIDE DEF b
<1>2. /\ IsSession(c) /\ c.t.cfg = cfg /\ c.t.buf = << >> /\ c.tx = << >> /\ c.made = << >>
      /\ c.step = "AWAIT_CLIENT_HELLO"
  BY <1>1 DEF IsSession, OwnFields, TlsFields, HsFields
<1>3. g = srv_begin(c)
  BY Zenon DEF b
<1> HIDE DEF c
<1>4. /\ IsSession(g) /\ g.t.cfg = cfg /\ g.t.buf = << >> /\ g.tx = << >> /\ g.made = << >>
      /\ g.step = "AWAIT_CLIENT_HELLO" /\ g.t.transcript = << >>
  <2> DEFINE k == srv_begin(c)
  <2>1. /\ IsSession(k) /\ k.t.cfg = c.t.cfg /\ k.t.buf = c.t.buf /\ k.tx = c.tx
        /\ k.made = c.made /\ k.step = c.step /\ k.t.transcript = << >>
    BY <1>2, BeginFacts
  <2>2. g = k
    BY <1>3, Zenon
  <2> HIDE DEF k
  <2> QED BY <1>2, <2>1, <2>2, ZenonT(40)
<1>5. Mute(g)
  <2>1. Len(<< >>) = 0
    OBVIOUS
  <2> QED BY <1>4, <2>1, NoCells DEF Mute
<1>6. /\ g.step \in {"AWAIT_CLIENT_HELLO", "AWAIT_RETRY_HELLO", "AWAIT_CLIENT_FINISHED", "COMPLETE"}
      /\ g.step # "AWAIT_RETRY_HELLO" /\ g.step # "AWAIT_CLIENT_FINISHED" /\ g.step # "COMPLETE"
  BY <1>4
<1>7. ServerStory(g)
  BY <1>4, <1>5, <1>6, ZenonT(40) DEF ServerStory, OverQuic
<1> QED BY <1>4, <1>7, ZenonT(40) DEF Tells

\* Every configuration starts a story, or is refused.
LEMMA InitTells ==
    ASSUME Init
    PROVE  Story
<1>1. PICK cfg \in Configs :
         q = IF cfg.role = "server" THEN srv_quic_init(cfg) ELSE quic_init(cfg, cfg.stored)
  BY DEF Init
<1>2. cfg.stored \in Nat /\ (cfg.role = "server" => cfg.quic /\ cfg.chain \in Nat)
  BY EndpointAssumption DEF EndpointAssumption
<1> DEFINE res == EpochInit(Blank(cfg), cfg.stored)
           v   == cfg.quic_original_version
<1>3. CASE \E h : q = quic_refuse_init(h)
  <2>1. PICK h : q = quic_refuse_init(h)
    BY <1>3
  <2> DEFINE b == Blank(h.t.cfg)
  <2>2. IsSession(b)
    BY BlankShape
  <2>3. q = [b EXCEPT !.t.state = "FAILED", !.t.epoch = h.t.epoch,
                      !.t.epoch_seen = h.t.epoch_seen, !.t.epoch_status = h.t.epoch_status]
    BY <2>1, Zenon DEF quic_refuse_init
  <2> HIDE DEF b
  <2>4. q.t.state = "FAILED"
    BY <2>2, <2>3, Zenon DEF IsSession, TlsFields, OwnFields
  <2> QED BY <2>4 DEF session_dead, Story
<1>4. CASE cfg.role = "server" /\ cfg.valid
  <2>1. q = srv_begin([Blank(cfg) EXCEPT !.hs.alert = "decode_error",
                           !.step = "AWAIT_CLIENT_HELLO", !.t.quic_negotiated_version = v])
    BY <1>1, <1>4, Zenon DEF srv_quic_init
  <2> HIDE DEF v
  <2>2. Tells(q) /\ q.t.buf = << >>
    BY <1>2, <1>4, <2>1, ServerOpens, Zenon
  <2> QED BY <2>2, Zenon DEF Story
<1>5. CASE cfg.role # "server" /\ cfg.valid /\ res.ok
  <2>1. q = Begun(res.h, v)
    BY <1>1, <1>5, Zenon DEF quic_init, Begun
  <2>2. /\ IsSession(res.h) /\ res.h.hs = NoHs
        /\ SameBut(Blank(cfg), res.h, {"epoch", "epoch_seen", "epoch_status"}, {})
        /\ res.ok /\ EpochChecked(Blank(cfg)) => res.h.t.epoch = cfg.stored
    BY EpochInitFacts, Zenon
  <2> HIDE DEF v, res
  <2>3. Tells(q) /\ q.t.buf = << >>
    BY <1>2, <1>5, <2>1, <2>2, BegunTells, ZenonT(40)
  <2> QED BY <2>3, Zenon DEF Story
<1>6. CASE ~cfg.valid
  <2>1. q = quic_refuse_init(Blank(cfg))
    BY <1>1, <1>6, Zenon DEF srv_quic_init, quic_init
  <2> QED BY <1>3, <2>1, Zenon
<1>7. CASE cfg.role # "server" /\ cfg.valid /\ ~res.ok
  <2>1. q = quic_refuse_init(res.h)
    BY <1>1, <1>7, Zenon DEF quic_init
  <2> QED BY <1>3, <2>1, Zenon
<1> QED BY <1>4, <1>5, <1>6, <1>7

=============================================================================
