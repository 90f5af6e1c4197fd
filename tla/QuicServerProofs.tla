-------------------------- MODULE QuicServerProofs --------------------------
(***************************************************************************)
(* The handshake of a QUIC server, and the theorems on an endpoint in      *)
(* either role: every step of it keeps IInv and tells Story on, so a set   *)
(* bit names keys the session holds, a failure leaves no secret but those  *)
(* of the write bits, no level's bytes are taken for another's, and a      *)
(* connected endpoint proved its peer and handed over all it owed.         *)
(***************************************************************************)
EXTENDS QuicClientProofs

-----------------------------------------------------------------------------
(* The steps of a server *)

\* The HelloRetryRequest goes out, or the turn is refused.
LEMMA RetryTurns ==
    ASSUME NEW k, Alive(k), k.step \in HelloSteps, NEW h, Early(k, h), NEW m, NEW sel
    PROVE  Turned(k, Goto(srv_send_hello_retry_request([h EXCEPT !.hs.level = 0], m, sel),
                          "AWAIT_RETRY_HELLO"))
<1> DEFINE cookie == srv_cookie_mint(sel, m)
           retry  == ServerHello(sel, TRUE, cookie)
           h0     == [h EXCEPT !.hs.level = 0]
           h1     == [h0 EXCEPT !.hs.cookie = cookie, !.t.hrr_sent = TRUE]
           again  == restart_transcript(h1, retry)
           a      == srv_out_plain(again, retry)
           n      == [a.h EXCEPT !.step = "AWAIT_RETRY_HELLO"]
           res    == IF a.ok THEN Ok(n) ELSE a
<1> HIDE DEF cookie, retry
<1>1. Early(k, h1)
  <2>1. IsSession(h0) /\ h0.t = h.t /\ \A f \in KeptOwn : h0[f] = h[f]
    BY DEF Early, Open, IsSession, OwnFields, HsFields, KeptOwn
  <2> HIDE DEF h0
  <2>2. /\ IsSession(h1) /\ \A f \in KeptOwn : h1[f] = h0[f]
        /\ h1.t.state = h0.t.state /\ h1.t.buf = h0.t.buf /\ h1.t.cfg = h0.t.cfg
        /\ h1.t.transcript = h0.t.transcript
    BY <2>1, Zenon DEF IsSession, OwnFields, HsFields, TlsFields, KeptOwn
  <2> HIDE DEF h1
  <2> QED BY <2>1, <2>2, ZenonT(40) DEF Early, Open
<1> HIDE DEF h1
<1>2. Early(k, again)
  <2> DEFINE hash == [type |-> "message_hash", of |-> h1.t.transcript]
  <2>1. IsSession(h1) /\ DOMAIN h1.t = TlsFields
    BY <1>1 DEF Early, Open, IsSession
  <2>2. again.t.transcript = << hash, retry >>
    BY <2>1 DEF restart_transcript, IsSession, TlsFields
  <2>3. /\ IsSession(again) /\ \A f \in KeptOwn : again[f] = h1[f]
        /\ again.t.state = h1.t.state /\ again.t.buf = h1.t.buf /\ again.t.cfg = h1.t.cfg
    BY <2>1 DEF restart_transcript, IsSession, OwnFields, TlsFields, KeptOwn
  <2> HIDE DEF hash, again
  <2>4. << hash, retry >> \in Seq({hash, retry})
    OBVIOUS
  <2> QED BY <1>1, <2>2, <2>3, <2>4, ZenonT(40) DEF Early, Open, IsSeq
<1> HIDE DEF again
<1>3. Answers(again, a)
  BY <1>2, SendsOut, ZenonT(40) DEF Early
<1> HIDE DEF a
<1>4. Early(k, a.h) /\ (~a.ok => Turned(k, a))
  BY <1>2, <1>3, AnswersOpen, EarlyThen, EarlyRefusal, ZenonT(40) DEF Answers
<1>5. /\ IsSession(n) /\ n.t = a.h.t /\ n.step = "AWAIT_RETRY_HELLO"
      /\ \A f \in KeyFields : n[f] = a.h[f]
  BY <1>4, SMTT(30) DEF Early, Open, IsSession, OwnFields, KeyFields, ReadFields, WriteFields
<1> HIDE DEF n
<1>6. Open(n) /\ n.t.state = k.t.state /\ n.t.buf = k.t.buf
  BY <1>4, <1>5 DEF Open, Early
<1>7. \A f \in KeyFields : n[f] = k[f]
  <2>1. \A f \in KeyFields : a.h[f] = k[f]
    BY <1>4, QuietFields, ZenonT(40) DEF Early
  <2> QED BY <2>1, <1>5
<1>8. /\ WriteBits(n) /\ ReadBits(n) /\ n.key_phase = 0 /\ k.t.state = "START"
      /\ n.ready \subseteq {0} \X {"READ", "WRITE"} /\ n.ready \subseteq Levels \X Dirs
      /\ DOMAIN n.app_rx = KeySets
  BY <1>7, HelloBits, ZenonT(40)
<1>9. Alive(n)
  BY <1>5, <1>6, <1>8 DEF Alive, HelloSteps
<1>10. Turned(k, res)
  <2>1. CASE a.ok
    <3>1. res.ok = TRUE /\ res.h = n
      BY <2>1 DEF Ok
    <3> HIDE DEF res
    <3> QED BY <3>1, <1>6, <1>8, <1>9, ZenonT(40) DEF Turned
  <2>2. CASE ~a.ok
    BY <2>2, <1>4, ZenonT(40)
  <2> QED BY <2>1, <2>2
<1>11. Goto(srv_send_hello_retry_request(h0, m, sel), "AWAIT_RETRY_HELLO") = res
  BY Zenon DEF Goto, srv_send_hello_retry_request, cookie, retry, h1, again, a, n
<1> QED BY <1>10, <1>11, ZenonT(40)

\* How much the sink takes is no part of what is kept.
LEMMA EarlyRoom ==
    ASSUME NEW k, Open(k), NEW room
    PROVE  LET g == [k EXCEPT !.room = room] IN
           Early(k, g) /\ Quiet(k, g) /\ Grows(k, g) /\ Open(g)
<1> DEFINE g == [k EXCEPT !.room = room]
<1>1. IsSession(g) /\ g.t = k.t /\ g.hs = k.hs /\ \A f \in KeptOwn : g[f] = k[f]
  BY DEF Open, IsSession, OwnFields, KeptOwn
<1> HIDE DEF g
<1>2. Quiet(k, g) /\ Grows(k, g) /\ Open(g)
  BY <1>1, Touches
<1> QED BY <1>1, <1>2, ZenonT(40) DEF Early, g

\* An answer before the keys leaves an early session, or ends the turn.
LEMMA EarlyAnswers ==
    ASSUME NEW k, Alive(k), k.step \in HelloSteps, NEW h, Early(k, h),
           NEW res, Answers(h, res)
    PROVE  Early(k, res.h) /\ res.ok \in BOOLEAN /\ (~res.ok => Turned(k, res))
BY AnswersOpen, EarlyThen, EarlyRefusal, ZenonT(40) DEF Answers

\* The hello must carry transport parameters.
LEMMA TakesParams ==
    ASSUME NEW h, Open(h), NEW m
    PROVE  Answers(h, take_transport_params(h, m))
<1>1. Answers(h, No(h, "missing_extension"))
  BY Refuses
<1>2. Answers(h, Ok(h))
  BY StaysQuiet, Accepts, ZenonT(40) DEF Open
<1> QED BY <1>1, <1>2, ZenonT(40) DEF take_transport_params

\* The version the caller chose.
LEMMA ChoosesVersion ==
    ASSUME NEW k, Alive(k), k.step \in HelloSteps, NEW h, Early(k, h), NEW version
    PROVE  LET res == choose_version(h, version) IN
           Early(k, res.h) /\ res.ok \in BOOLEAN /\ (~res.ok => Turned(k, res))
<1> DEFINE g   == [h EXCEPT !.t.quic_negotiated_version = version]
           res == choose_version(h, version)
<1>1. Open(h)
  BY Zenon DEF Early
<1>2. res = Ok(h) \/ res = Ok(g) \/ res = No(h, "internal_error")
  BY Zenon DEF choose_version
<1>3. Early(k, g)
  <2>1. /\ IsSession(g) /\ \A f \in KeptOwn : g[f] = h[f]
        /\ g.t.state = h.t.state /\ g.t.buf = h.t.buf /\ g.t.cfg = h.t.cfg
        /\ g.t.transcript = h.t.transcript
    BY <1>1 DEF Open, IsSession, OwnFields, TlsFields, KeptOwn
  <2> HIDE DEF g
  <2> QED BY <2>1, ZenonT(40) DEF Early, Open
<1> HIDE DEF g, res
<1>4. CASE res = No(h, "internal_error")
  <2>1. Answers(h, res)
    BY <1>1, <1>4, Refuses
  <2> QED BY <2>1, EarlyAnswers, ZenonT(40) DEF res
<1>5. CASE res = Ok(h) \/ res = Ok(g)
  <2>1. res.ok = TRUE /\ (res.h = h \/ res.h = g)
    BY <1>5 DEF Ok
  <2> QED BY <2>1, <1>3, ZenonT(40) DEF res
<1> QED BY <1>2, <1>4, <1>5

\* step_client_hello keeps the invariant.
LEMMA ClientHelloKeeps ==
    ASSUME IInv, NEW room, NEW signs, NEW version, step_client_hello(room, signs, version)
    PROVE  IInv'
<1> DEFINE k  == Taken(q)
           m  == NextMsg(q)
           h0 == [k EXCEPT !.room = room]
           a1 == srv_read_client_hello(h0, m)
           a2 == take_transport_params(a1.h, m)
           a3 == choose_version(a2.h, version)
           read == IF a1.ok THEN IF a2.ok THEN a3 ELSE a2 ELSE a1
           ch  == srv_select(read.h, m)
           res == IF ~read.ok THEN read ELSE IF ~ch.ok THEN ch
                  ELSE IF ~ch.sel.need_retry THEN server_flight(ch.h, m, ch.sel, signs)
                  ELSE Goto(srv_send_hello_retry_request([ch.h EXCEPT !.hs.level = 0], m, ch.sel),
                            "AWAIT_RETRY_HELLO")
<1>1. Turn /\ q.step \in HelloSteps /\ q.t.cfg.role = "server"
  BY DEF step_client_hello, At, Turn, HelloSteps, IInv
<1>2. Advance(res)
  BY ZenonT(40) DEF step_client_hello, Then
<1>3. /\ Open(k) /\ Alive(k) /\ k.step = q.step /\ k.t.cfg = q.t.cfg
  BY <1>1, TakesMessage, ZenonT(40) DEF OwnFields, TlsFields
<1>4. k.step \in HelloSteps /\ k.t.cfg.role = "server"
  BY <1>1, <1>3
<1> HIDE DEF k, m
<1>5. Early(k, h0)
  BY <1>3, EarlyRoom
<1> HIDE DEF h0
<1>6. Answers(h0, a1)
  BY <1>5, ReadsClientHello, ZenonT(40) DEF Early
<1> HIDE DEF a1
<1>7. Early(k, a1.h) /\ a1.ok \in BOOLEAN /\ (~a1.ok => Turned(k, a1))
  BY <1>3, <1>4, <1>5, <1>6, EarlyAnswers, ZenonT(40)
<1>8. Answers(a1.h, a2)
  BY <1>7, TakesParams, ZenonT(40) DEF Early
<1> HIDE DEF a2
<1>9. Early(k, a2.h) /\ a2.ok \in BOOLEAN /\ (~a2.ok => Turned(k, a2))
  BY <1>3, <1>4, <1>7, <1>8, EarlyAnswers, ZenonT(40)
<1>10. Early(k, a3.h) /\ a3.ok \in BOOLEAN /\ (~a3.ok => Turned(k, a3))
  BY <1>3, <1>4, <1>9, ChoosesVersion, ZenonT(40)
<1> HIDE DEF a3
<1>11. Early(k, read.h) /\ read.ok \in BOOLEAN /\ (~read.ok => Turned(k, read))
  <2>1. read = a1 \/ read = a2 \/ read = a3
    BY <1>7, <1>9, ZenonT(40)
  <2> HIDE DEF read
  <2> QED BY <2>1, <1>7, <1>9, <1>10, ZenonT(40)
<1> HIDE DEF read
<1>12. Answers(read.h, ch)
  BY <1>11, Selects, ZenonT(40) DEF Early
<1> HIDE DEF ch
<1>13. Early(k, ch.h) /\ ch.ok \in BOOLEAN /\ (~ch.ok => Turned(k, ch))
  BY <1>3, <1>4, <1>11, <1>12, EarlyAnswers, Zenon
<1>14. Turned(k, server_flight(ch.h, m, ch.sel, signs))
  BY <1>3, <1>4, <1>13, ServerFlightTurns, ZenonT(40)
<1>15. Turned(k, Goto(srv_send_hello_retry_request([ch.h EXCEPT !.hs.level = 0], m, ch.sel),
                      "AWAIT_RETRY_HELLO"))
  BY <1>3, <1>4, <1>13, RetryTurns, ZenonT(40)
<1>16. Turned(k, res)
  BY <1>11, <1>13, <1>14, <1>15, ZenonT(40)
<1> HIDE DEF res
<1> QED BY <1>1, <1>2, <1>16, TurnKeeps, ZenonT(40) DEF k

\* step_retry_hello keeps the invariant.
LEMMA RetryHelloKeeps ==
    ASSUME IInv, NEW room, NEW signs, step_retry_hello(room, signs)
    PROVE  IInv'
<1> DEFINE k  == Taken(q)
           m  == NextMsg(q)
           h0 == [k EXCEPT !.room = room]
           read == srv_read_client_hello(h0, m)
           ch  == srv_check_retry_hello(read.h, m)
           res == IF ~read.ok THEN read ELSE IF ~ch.ok THEN ch
                  ELSE server_flight(ch.h, m, ch.sel, signs)
<1>1. Turn /\ q.step \in HelloSteps /\ q.t.cfg.role = "server"
  BY DEF step_retry_hello, At, Turn, HelloSteps, IInv
<1>2. Advance(res)
  BY ZenonT(40) DEF step_retry_hello
<1>3. /\ Open(k) /\ Alive(k) /\ k.step = q.step /\ k.t.cfg = q.t.cfg
  BY <1>1, TakesMessage DEF OwnFields, TlsFields
<1>4. k.step \in HelloSteps /\ k.t.cfg.role = "server"
  BY <1>1, <1>3
<1> HIDE DEF k, m
<1>5. Early(k, h0)
  BY <1>3, EarlyRoom
<1> HIDE DEF h0
<1>6. Answers(h0, read)
  BY <1>5, ReadsClientHello, ZenonT(40) DEF Early
<1> HIDE DEF read
<1>7. Early(k, read.h) /\ read.ok \in BOOLEAN /\ (~read.ok => Turned(k, read))
  BY <1>3, <1>4, <1>5, <1>6, EarlyAnswers, ZenonT(40)
<1>8. Answers(read.h, ch)
  BY <1>7, ChecksRetry, ZenonT(40) DEF Early
<1> HIDE DEF ch
<1>9. Early(k, ch.h) /\ ch.ok \in BOOLEAN /\ (~ch.ok => Turned(k, ch))
  BY <1>3, <1>4, <1>7, <1>8, EarlyAnswers, ZenonT(40)
<1>10. Turned(k, server_flight(ch.h, m, ch.sel, signs))
  BY <1>3, <1>4, <1>9, ServerFlightTurns, ZenonT(40)
<1>11. Turned(k, res)
  BY <1>7, <1>9, <1>10, ZenonT(40)
<1> HIDE DEF res
<1> QED BY <1>1, <1>2, <1>11, TurnKeeps, ZenonT(40) DEF k

\* The client's Finished is read.
LEMMA ReadsClientFinished ==
    ASSUME NEW h, Open(h), NEW m
    PROVE  Answers(h, srv_read_client_finished(h, m))
<1> DEFINE res == srv_read_client_finished(h, m)
<1>1. \/ res = No(h, "unexpected_message") \/ res = No(h, "decrypt_error")
      \/ res = Ok(Hear(h, m))
  BY Zenon DEF srv_read_client_finished
<1>2. Answers(h, No(h, "unexpected_message")) /\ Answers(h, No(h, "decrypt_error"))
  BY Refuses
<1>3. Answers(h, Ok(Hear(h, m)))
  <2>1. Quiet(h, Hear(h, m)) /\ Grows(h, Hear(h, m))
    BY Hears
  <2> QED BY <2>1, Accepts, ZenonT(40)
<1> HIDE DEF res
<1> QED BY <1>1, <1>2, <1>3, ZenonT(40) DEF res

\* The bits of a session whose keys all stay, one bit more among them.
LEMMA BitsJoin ==
    ASSUME NEW h, WriteBits(h), ReadBits(h), AppKeys(h),
           NEW g, g.t = h.t, \A f \in KeyFields \ {"ready"} : g[f] = h[f],
           NEW b, g.ready = h.ready \cup b, b \subseteq {2} \X {"READ"}
    PROVE  WriteBits(g) /\ ReadBits(g) /\ AppKeys(g)
<1> DEFINE k == [g EXCEPT !.ready = h.ready]
<1>1. /\ g.initial_dcid = h.initial_dcid /\ g.key_phase = h.key_phase
      /\ g.handshake_tx = h.handshake_tx /\ g.handshake_hp_tx = h.handshake_hp_tx
      /\ g.handshake_rx = h.handshake_rx /\ g.handshake_hp_rx = h.handshake_hp_rx
      /\ g.app_tx = h.app_tx /\ g.app_hp_tx = h.app_hp_tx
      /\ g.app_rx = h.app_rx /\ g.app_hp_rx = h.app_hp_rx
  BY DEF KeyFields, ReadFields, WriteFields
<1>2. \A x, label : Named(g, x, label) <=> Named(h, x, label)
  BY Zenon DEF Named
<1>3. \A mine, what : Whose(g, mine, what) = Whose(h, mine, what)
  BY Zenon DEF Whose
<1>4. (AppReads(h) => AppReads(g)) /\ (AppWrites(h) => AppWrites(g))
  BY <1>1, <1>2, <1>3, ZenonT(40) DEF AppReads, AppWrites
<1>5. \A level \in {0, 1} : \A dir : Ready(g, level, dir) => Ready(h, level, dir)
  BY DEF Ready
<1>6. HandshakeWrites(g) <=> HandshakeWrites(h)
  BY <1>1, <1>2, <1>3, ZenonT(40) DEF HandshakeWrites
<1>7. HandshakeReads(g) <=> HandshakeReads(h)
  BY <1>1, <1>2, <1>3, ZenonT(40) DEF HandshakeReads
<1>8. \A dir : (Ready(g, 0, dir) => Ready(h, 0, dir)) /\ (Ready(g, 1, dir) => Ready(h, 1, dir))
  BY <1>5
<1>9. Ready(g, 2, "WRITE") <=> Ready(h, 2, "WRITE")
  BY DEF Ready
<1>10. AppKeys(g)
  <2>1. Emptied(g) <=> Emptied(h)
    BY <1>9, Zenon DEF Emptied
  <2> QED BY <2>1, <1>4, Zenon DEF AppKeys
<1> QED BY <1>1, <1>4, <1>6, <1>7, <1>8, <1>9, <1>10, ZenonT(40) DEF WriteBits, ReadBits

\* The server completes: the read direction is announced and the ticket goes out.
LEMMA CompletedTurns ==
    ASSUME NEW k, NEW h, Open(h), WriteBits(h), ReadBits(h), AppKeys(h),
           h.ready \subseteq Levels \X Dirs, h.t.buf = << >>, k.t.buf = << >>
    PROVE  Turned(k, Completed(h))
<1> DEFINE rd == IF OverQuic(h) THEN h.t.rd ELSE [key |-> h.t.rd_secret, seq |-> 0]
           c0 == [h EXCEPT !.t.rd = rd, !.t.buf = << >>, !.t.state = "CONNECTED"]
           c  == srv_complete(h)
           d  == Announce(c, 2, {"READ"})
           n  == [d EXCEPT !.rx_level = 2, !.step = "COMPLETE", !.hs.level = 2]
           b  == srv_send_new_session_ticket(n)
           e  == [b.h EXCEPT !.hs = NoHs]
           res == IF b.ok THEN Ok(e) ELSE b
<1>1. c = c0
  BY DEF srv_complete, Open, IsSession, TlsFields
<1> HIDE DEF rd
<1>2. /\ IsSession(c) /\ c.hs = h.hs /\ \A f \in OwnFields : c[f] = h[f]
      /\ c.t.state = "CONNECTED" /\ c.t.buf = << >>
      /\ c.t.transcript = h.t.transcript /\ c.t.rd_secret = h.t.rd_secret
      /\ c.t.wr_secret = h.t.wr_secret /\ c.t.cfg = h.t.cfg
      /\ c.t.quic_negotiated_version = h.t.quic_negotiated_version
  <2> HIDE DEF c
  <2> QED BY <1>1, Zenon DEF Open, IsSession, OwnFields, TlsFields
<1> HIDE DEF c
<1>3. SameKeys(h, c)
  <2>1. \A f \in KeyFields : c[f] = h[f]
    BY <1>2 DEF OwnFields, KeyFields, ReadFields, WriteFields
  <2> QED BY <2>1, <1>2, ZenonT(40) DEF SameKeys, SameStory
<1>4. WriteBits(c) /\ ReadBits(c) /\ AppKeys(c)
  BY <1>3, KeysStay, ZenonT(40)
<1>5. /\ IsSession(d) /\ d.t = c.t /\ d.hs = c.hs /\ d.ready = c.ready \cup ({2} \X {"READ"})
      /\ \A f \in OwnFields \ {"ready"} : d[f] = c[f]
  BY <1>2 DEF Announce, IsSession, OwnFields
<1> HIDE DEF d
<1>6. /\ IsSession(n) /\ n.t = d.t /\ n.step = "COMPLETE" /\ n.ready = d.ready
      /\ \A f \in OwnFields \ {"rx_level", "step"} : n[f] = d[f]
  BY <1>5, ZenonT(40) DEF IsSession, OwnFields, HsFields
<1> HIDE DEF n
<1>7. /\ n.t = c.t /\ n.ready = c.ready \cup ({2} \X {"READ"})
      /\ \A f \in KeyFields \ {"ready"} : n[f] = c[f]
  BY <1>5, <1>6 DEF OwnFields, KeyFields, ReadFields, WriteFields
<1>8. WriteBits(n) /\ ReadBits(n) /\ AppKeys(n)
  <2> DEFINE s == {2} \X {"READ"}
  <2>1. s \subseteq {2} \X {"READ"}
    OBVIOUS
  <2> HIDE DEF s
  <2> QED BY <2>1, <1>4, <1>7, BitsJoin, ZenonT(40) DEF s
<1>9. n.ready \subseteq Levels \X Dirs /\ Ready(n, 2, "READ")
  <2>1. c.ready = h.ready
    BY <1>2 DEF OwnFields
  <2>2. 2 \in Levels /\ "READ" \in Dirs
    BY DEF Levels, Dirs
  <2> QED BY <2>1, <2>2, <1>7 DEF Ready
<1>10. Open(n) /\ n.t.state = "CONNECTED" /\ n.t.buf = << >>
  BY <1>2, <1>6, <1>7 DEF Open
<1>11. Answers(n, b)
  <2>1. \A m : Answers(n, srv_out_sealed(n, m))
    BY <1>10, SendsOut
  <2>2. Answers(n, Ok(n))
    BY <1>10, StaysQuiet, Accepts, ZenonT(40) DEF Open
  <2> QED BY <2>1, <2>2, ZenonT(40) DEF srv_send_new_session_ticket
<1> HIDE DEF b
<1>12. Quiet(n, b.h) /\ Open(b.h) /\ b.ok \in BOOLEAN /\ SameKeys(n, b.h)
  BY <1>11, AnswersOpen, QuietKeys, ZenonT(40) DEF Answers
<1>13. /\ b.h.t.state = "CONNECTED" /\ b.h.t.buf = << >> /\ b.h.step = "COMPLETE"
       /\ b.h.ready = n.ready
  BY <1>6, <1>10, <1>12 DEF Quiet, KeptTls, KeptOwn, OwnFields
<1>14. WriteBits(b.h) /\ ReadBits(b.h)
  BY <1>8, <1>12, KeysStay, ZenonT(40)
<1>15. /\ IsSession(e) /\ e.t = b.h.t /\ e.hs = NoHs /\ e.step = b.h.step
       /\ e.ready = b.h.ready /\ \A f \in KeyFields : e[f] = b.h[f]
  BY <1>12, BlankShape DEF Open, IsSession, OwnFields, KeyFields, ReadFields, WriteFields
<1> HIDE DEF e
<1>16. SameKeys(b.h, e) /\ Open(e)
  BY <1>12, <1>15, EditKeys, ZenonT(40)
<1>17. WriteBits(e) /\ ReadBits(e)
  BY <1>14, <1>16, KeysStay, ZenonT(40)
<1>18. Ready(e, 2, "READ")
  BY <1>9, <1>13, <1>15, ZenonT(40) DEF Ready
<1>19. Alive(e) /\ e.t.buf = k.t.buf /\ e.ready \subseteq Levels \X Dirs
  BY <1>9, <1>13, <1>15, <1>17, <1>18, SMTT(30) DEF Alive
<1>20. Turned(k, res)
  <2>1. CASE b.ok
    <3>1. res.ok = TRUE /\ res.h = e
      BY <2>1 DEF Ok
    <3> HIDE DEF res
    <3> QED BY <3>1, <1>16, <1>17, <1>19, ZenonT(40) DEF Turned
  <2>2. CASE ~b.ok
    <3>1. Turned(k, b)
      BY <2>2, <1>8, <1>9, <1>10, <1>11, Declines, ZenonT(40)
    <3> QED BY <2>2, <3>1, ZenonT(40)
  <2> QED BY <2>1, <2>2
<1> QED BY <1>20, ZenonT(40) DEF Completed, Then, c, d, n, b, e

\* step_client_finished keeps the invariant.
LEMMA ClientFinishedKeeps ==
    ASSUME IInv, NEW room, step_client_finished(room)
    PROVE  IInv'
<1> DEFINE k   == Taken(q)
           m   == NextMsg(q)
           h0  == [k EXCEPT !.room = room]
           a   == srv_read_client_finished(h0, m)
           g   == a.h
           bad == [ok |-> FALSE, h |-> quic_refuse_unread(g)]
           res == IF a.ok THEN IF g.t.buf = << >> THEN Completed(g) ELSE bad ELSE a
<1>1. Turn /\ q.step = "AWAIT_CLIENT_FINISHED"
  BY Zenon DEF step_client_finished, At, Turn, IInv
<1>2. Advance(res)
  BY ZenonT(40) DEF step_client_finished, Then
<1>3. /\ Open(k) /\ Alive(k) /\ k.step = q.step /\ k.ready \subseteq Levels \X Dirs
  BY <1>1, TakesMessage, ZenonT(40) DEF OwnFields
<1>4. WriteBits(k) /\ ReadBits(k) /\ AppKeys(k)
  BY <1>1, <1>3 DEF Alive, HelloSteps, FlightSteps
<1> HIDE DEF k, m
<1>5. Quiet(k, h0) /\ Grows(k, h0) /\ Open(h0)
  BY <1>3, EarlyRoom
<1> HIDE DEF h0
<1>6. Answers(h0, a)
  BY <1>5, ReadsClientFinished, ZenonT(40)
<1> HIDE DEF a
<1>7. Quiet(k, g) /\ Grows(k, g) /\ Open(g) /\ a.ok \in BOOLEAN /\ (~a.ok => g.hs.alert # "none")
  BY <1>5, <1>6, AnswersOpen, QuietThen, GrowsThen, ZenonT(40) DEF Answers
<1> HIDE DEF g
<1>8. SameKeys(k, g) /\ g.ready = k.ready /\ g.t.buf = k.t.buf
  <2>1. SameKeys(k, g)
    BY <1>7, QuietKeys, ZenonT(40)
  <2>2. g.ready = k.ready /\ g.t.buf = k.t.buf
    BY <1>7, SMTT(30) DEF Quiet, KeptOwn, OwnFields, KeptTls
  <2> QED BY <2>1, <2>2
<1>9. /\ WriteBits(g) /\ ReadBits(g) /\ AppKeys(g)
      /\ g.ready \subseteq Levels \X Dirs
  BY <1>3, <1>4, <1>8, KeysStay
<1>10. CASE ~a.ok
  <2>1. Turned(k, a)
    BY <1>7, <1>9, <1>10, ZenonT(40) DEF Turned, g
  <2> QED BY <1>1, <1>2, <1>10, <2>1, TurnKeeps, ZenonT(40) DEF k
<1>11. CASE a.ok /\ g.t.buf = << >>
  <2>1. k.t.buf = << >>
    BY <1>8, <1>11
  <2>2. Turned(k, Completed(g))
    BY <2>1, <1>7, <1>9, <1>11, CompletedTurns, ZenonT(40)
  <2>3. res = Completed(g)
    BY <1>11, Zenon
  <2> HIDE DEF res
  <2> QED BY <1>1, <1>2, <2>2, <2>3, TurnKeeps, ZenonT(40) DEF k
<1>12. CASE a.ok /\ g.t.buf # << >>
  <2>1. bad = No(g, "unexpected_message") \/ bad = No(Violation(g), "unexpected_message")
    BY ZenonT(40) DEF quic_refuse_unread, Unexpected, No
  <2>2. Turned(k, No(g, "unexpected_message")) /\ Turned(k, No(Violation(g), "unexpected_message"))
    BY <1>7, <1>9, RefusalTurns
  <2>3. res = bad
    BY <1>12, ZenonT(40)
  <2> HIDE DEF res, bad
  <2> QED BY <1>1, <1>2, <2>1, <2>2, <2>3, TurnKeeps, ZenonT(40) DEF k
<1> QED BY <1>7, <1>10, <1>11, <1>12, ZenonT(40)

-----------------------------------------------------------------------------
(* What follows for the keys *)

\* Every call and every delivery keeps the invariant.
LEMMA NextKeeps ==
    ASSUME FrameAssumption, IInv, [Next]_vars
    PROVE  IInv'
<1>1. CASE PeerCrypto \/ PeerStray
  BY <1>1, PeerKeeps
<1>2. CASE drive_done
  BY <1>2, DoneKeeps
<1>3. CASE drive_oversize
  BY <1>3, OversizeKeeps
<1>4. CASE step_server_hello
  BY <1>4, HelloKeeps
<1>5. CASE step_encrypted_extensions \/ step_certificate \/ step_certificate_verify
  BY <1>5, FlightKeeps
<1>6. CASE \E failed \in BOOLEAN : step_finished(failed)
  BY <1>6, FinishedKeeps
<1>7. CASE step_complete \/ advance_complete
  BY <1>7, AfterKeeps
<1>8. CASE \E room \in Rooms, signs \in BOOLEAN, version \in 0..3 :
               step_client_hello(room, signs, version)
  BY <1>8, ClientHelloKeeps
<1>9. CASE \E room \in Rooms, signs \in BOOLEAN : step_retry_hello(room, signs)
  BY <1>9, RetryHelloKeeps
<1>10. CASE \E room \in Rooms : step_client_finished(room)
  BY <1>10, ClientFinishedKeeps
<1>11. CASE \E level \in Levels : crypto_out(level)
  BY <1>11, OutKeeps
<1>12. CASE \E level \in Levels : discard(level)
  BY <1>12, DiscardKeeps
<1>13. CASE \E level \in Levels, version \in Versions : quic_seal(level, version)
  BY <1>13, SealKeeps
<1>14. CASE \E level \in Levels, version \in Versions : seal_close(level, version)
  BY <1>14, CloseSealKeeps, SMTT(30)
<1>15. CASE \E level \in Levels, version \in Versions : quic_open(level, version)
  BY <1>15, OpenKeeps
<1>16. CASE \E version \in Versions : switch_version(version)
  BY <1>16, SwitchKeeps
<1>17. CASE initial_keys
  BY <1>17, InitialKeep
<1>18. CASE key_update
  BY <1>18, UpdateKeeps
<1>19. CASE drop_previous_keys
  BY <1>19, DropKeeps
<1>20. CASE close
  BY <1>20, CloseKeeps
<1>21. CASE UNCHANGED vars
  <2>1. q' = q /\ driving' = driving /\ rest' = rest /\ cut' = cut /\ closes' = closes
    BY <1>21 DEF vars
  <2> QED BY <2>1 DEF IInv
<1> QED
  BY <1>1, <1>2, <1>3, <1>4, <1>5, <1>6, <1>7, <1>8, <1>9, <1>10, <1>11, <1>12, <1>13, <1>14,
     <1>15, <1>16, <1>17, <1>18, <1>19, <1>20, <1>21, ZenonT(40) DEF Next

\* The endpoint never leaves the invariant, whatever is delivered and called.
THEOREM EndpointInvariant == Spec => []IInv
<1>1. Init => IInv
  BY FrameAssumption, InitKeeps
<1>2. IInv /\ [Next]_vars => IInv'
  BY FrameAssumption, NextKeeps
<1> QED BY <1>1, <1>2, PTL DEF Spec

\* What waits of a delivery came at the level the session reads, so that no byte
\* ch_quic_crypto_in was given is read as a byte of another level.
THEOREM LevelsStayUnmixed == Spec => []LevelsUnmixed
<1>1. IInv => LevelsUnmixed
  <2> SUFFICES ASSUME IInv PROVE LevelsUnmixed
    OBVIOUS
  <2>1. ~driving => rest = << >>
    BY DEF IInv
  <2>2. ASSUME ~session_dead(q)
        PROVE  \A i \in 1..Len(q.t.buf \o rest) : (q.t.buf \o rest)[i].level = q.rx_level
    <3>1. LevelOk(q.t.buf, q.rx_level) /\ LevelOk(rest, q.rx_level)
      BY <2>2 DEF IInv, Waits
    <3>2. LevelOk(q.t.buf \o rest, q.rx_level)
      BY <3>1, Joined, ZenonT(40)
    <3> QED BY <3>2, ZenonT(40) DEF LevelOk
  <2> QED BY <2>1, <2>2 DEF LevelsUnmixed
<1> QED BY <1>1, EndpointInvariant, PTL

\* A failure names its alert, leaves no secret and no byte behind, and lets out at
\* most one CONNECTION_CLOSE at each level (quic_fail, ch_quic_seal_close).
THEOREM FailuresAreClean == Spec => []FailsCleanly
<1>1. IInv => FailsCleanly
  <2> SUFFICES ASSUME IInv PROVE FailsCleanly
    OBVIOUS
  <2>1. \A level \in Levels : closes[level] <= 1
    BY SMTT(30) DEF IInv, Closed
  <2>2. ASSUME session_dead(q)
        PROVE  ~driving /\ rest = << >> /\ Dead(q)
    BY <2>2 DEF IInv
  <2>3. q.t.state = "FAILED" => session_dead(q)
    BY DEF session_dead
  <2> QED BY <2>1, <2>2, <2>3, ZenonT(40) DEF FailsCleanly, Dead
<1> QED BY <1>1, EndpointInvariant, PTL

\* A set bit of levels_ready stands for keys of the right side, of this handshake
\* and of the version settled on, whatever the caller discards and when, but for
\* the Application read bit of a server whose write bit there is gone; an ended
\* session has no other key.
THEOREM HeldBitsNameKeys == Spec => []BitsNameHeldKeys
<1>1. IInv => BitsNameHeldKeys
  <2> DEFINE spared == IF IsServer /\ ~Ready(q, 2, "WRITE") THEN {2} ELSE {}
  <2> SUFFICES ASSUME IInv PROVE BitsNameKeysBut(spared)
    BY Zenon DEF BitsNameHeldKeys
  <2>1. WriteBits(q)
    BY ZenonT(40) DEF IInv, Alive, Dead
  <2>2. ASSUME ~session_dead(q) PROVE ReadBits(q)
    BY <2>2, ZenonT(40) DEF IInv, Alive
  <2>3. ASSUME session_dead(q) PROVE NoReads(q) /\ NoWrites(q)
    BY <2>3, ZenonT(40) DEF IInv, Dead
  <2>4. ASSUME NEW mine, NEW what PROVE Whose(q, mine, what) = Label(mine, what)
    BY Zenon DEF Whose, Label, IsServer
  <2>5. ASSUME NEW keys, NEW mine, NEW what, Named(q, keys, Whose(q, mine, what))
        PROVE  KeyOf(keys, mine, what)
    BY <2>4, <2>5, ZenonT(40) DEF Named, KeyOf, Covers
  <2>6. ASSUME NEW level \in Levels, Ready(q, level, "WRITE") PROVE WritesAt(level)
    <3>1. CASE level = 0
      BY <2>1, <2>6, <3>1 DEF WriteBits, WritesAt
    <3>2. CASE level = 1
      <4>1. HandshakeWrites(q)
        BY <2>1, <2>6, <3>2, ZenonT(40) DEF WriteBits
      <4>2. KeyOf(q.handshake_tx, TRUE, "hs") /\ q.handshake_hp_tx = q.handshake_tx.secret
        BY <4>1, <2>5, ZenonT(40) DEF HandshakeWrites
      <4>3. level # 0 /\ (level = 1 => level # 2) /\ (level = 2 => level # 1)
        BY <3>2
      <4> QED BY <3>2, <4>2, <4>3, ZenonT(40) DEF WritesAt
    <3>3. CASE level = 2
      <4>1. AppWrites(q)
        BY <2>1, <2>6, <3>3, ZenonT(40) DEF WriteBits
      <4>2. KeyOf(q.app_tx, TRUE, "ap") /\ q.app_hp_tx = [q.app_tx.secret EXCEPT !.ku = 0]
        BY <4>1, <2>5, ZenonT(40) DEF AppWrites
      <4>3. level # 0 /\ (level = 1 => level # 2) /\ (level = 2 => level # 1)
        BY <3>3
      <4> QED BY <3>3, <4>2, <4>3, ZenonT(40) DEF WritesAt
    <3> QED BY <3>1, <3>2, <3>3 DEF Levels
  <2>7. ASSUME NEW level \in Levels \ spared, Ready(q, level, "READ") PROVE ReadsAt(level)
    <3>1. ReadBits(q)
      BY <2>2, <2>3, <2>7, ZenonT(40) DEF NoReads
    <3>2. CASE level = 0
      BY <2>7, <3>1, <3>2 DEF ReadBits, ReadsAt
    <3>3. CASE level = 1
      <4>1. HandshakeReads(q)
        BY <2>7, <3>1, <3>3, ZenonT(40) DEF ReadBits
      <4>2. KeyOf(q.handshake_rx, FALSE, "hs") /\ q.handshake_hp_rx = q.handshake_rx.secret
        BY <4>1, <2>5, ZenonT(40) DEF HandshakeReads
      <4>3. level # 0 /\ (level = 1 => level # 2) /\ (level = 2 => level # 1)
        BY <3>3
      <4> QED BY <3>3, <4>2, <4>3, ZenonT(40) DEF ReadsAt
    <3>4. CASE level = 2
      <4>1. AppReads(q)
        <5>1. AppKeys(q)
          BY <2>7, <3>1, <3>4, ZenonT(40) DEF ReadBits
        <5>2. ~Emptied(q)
          BY <2>7, <3>4 DEF Emptied, IsServer
        <5> QED BY <5>1, <5>2, Zenon DEF AppKeys
      <4> DEFINE rx == q.app_rx
      <4>2. /\ KeyOf(rx["CURRENT"], FALSE, "ap")
            /\ rx["CURRENT"].secret.ku = q.app_tx.secret.ku
            /\ q.key_phase = q.app_tx.secret.ku % 2
            /\ rx["NEXT"] = quic_keys_update(rx["CURRENT"].secret, rx["CURRENT"].version)
            /\ rx["NEXT"].secret = q.t.rd_secret /\ q.app_tx.secret = q.t.wr_secret
        BY <4>1, <2>5, ZenonT(40) DEF AppReads
      <4>3. level # 0 /\ (level = 1 => level # 2) /\ (level = 2 => level # 1)
        BY <3>4
      <4> QED BY <3>4, <4>2, <4>3, ZenonT(40) DEF ReadsAt
    <3> QED BY <3>2, <3>3, <3>4 DEF Levels
  <2>8. ASSUME NEW level \in Levels, session_dead(q), ~Ready(q, level, "WRITE")
        PROVE  NoWriteKeys(level)
    <3>1. NoWrites(q)
      BY <2>3, <2>8
    <3>2. CASE level = 0
      BY <2>8, <3>1, <3>2 DEF NoWrites, NoWriteKeys
    <3>3. CASE level = 1
      <4>1. level # 0 /\ level # 2
        BY <3>3
      <4> QED BY <2>8, <3>1, <3>3, <4>1, ZenonT(40) DEF NoWrites, NoWriteKeys
    <3>4. CASE level = 2
      <4>1. level # 0 /\ level # 1
        BY <3>4
      <4> QED BY <2>8, <3>1, <3>4, <4>1, ZenonT(40) DEF NoWrites, NoWriteKeys
    <3> QED BY <3>2, <3>3, <3>4 DEF Levels
  <2>9. session_dead(q) => NoReadKeys
    BY <2>3, ZenonT(40) DEF NoReads, NoReadKeys
  <2>10. q.t.state = "CLOSED" => q.ready = {}
    <3>1. q.t.state = "CLOSED" => session_dead(q)
      BY DEF session_dead
    <3> QED BY <3>1 DEF IInv, Dead
  <2> HIDE DEF spared
  <2> QED BY <2>6, <2>7, <2>8, <2>9, <2>10, ZenonT(40) DEF BitsNameKeysBut
<1> QED BY <1>1, EndpointInvariant, PTL

-----------------------------------------------------------------------------
(* What a server says *)

\* What the sink took all of is behind what was said before.
LEMMA PushSaid ==
    ASSUME NEW h, Open(h), IsSeq(h.made), NEW recs, Len(recs) \in Nat, Push(h, recs).ok
    PROVE  LET g == Push(h, recs).h IN
           /\ g.t = h.t /\ IsSeq(g.made) /\ Len(h.made) \in Nat
           /\ Len(g.made) = Len(h.made) + Len(recs)
           /\ \A i \in 1..Len(h.made) : g.made[i] = h.made[i]
           /\ \A i \in 1..Len(recs) : g.made[Len(h.made) + i].rec = recs[i]
<1> DEFINE res   == Push(h, recs)
           n     == Len(recs)
           taken == Fewer(n, h.room)
           built == Fewer(n, taken + 1)
           room  == h.room - taken
           new   == [i \in 1..built |-> Made(recs[i], i <= taken)]
           made  == h.made \o new
           out   == [h EXCEPT !.room = room, !.made = made]
<1>1. res = IF taken = n THEN Ok(out) ELSE No(out, "internal_error")
  <2>1. out = [h EXCEPT !.room = @ - taken,
                        !.made = @ \o [i \in 1..built |-> Made(recs[i], i <= taken)]]
    BY DEF Open, IsSession, OwnFields
  <2> QED BY <2>1, ZenonT(40) DEF Push
<1> HIDE DEF taken, room
<1>2. taken = n
  <2> HIDE DEF out, n
  <2>1. No(out, "internal_error").ok = FALSE
    BY DEF No
  <2> QED BY <2>1, <1>1
<1>3. res.h = out
  <2> HIDE DEF out
  <2> QED BY <1>1, <1>2 DEF Ok
<1>4. n \in Nat
  OBVIOUS
<1> HIDE DEF n
<1>5. built = n
  BY <1>2, <1>4 DEF Fewer
<1> HIDE DEF built
<1> DEFINE S == {Made(recs[i], i <= taken) : i \in 1..n}
<1>6. new \in Seq(S) /\ Len(new) = n /\ \A i \in 1..n : new[i].rec = recs[i]
  BY <1>4, <1>5 DEF Made
<1>7. PICK T : h.made \in Seq(T)
  BY DEF IsSeq
<1> HIDE DEF new, S
<1>8. h.made \in Seq(S \cup T) /\ new \in Seq(S \cup T)
  BY <1>6, <1>7
<1>9. /\ made \in Seq(S \cup T) /\ Len(h.made) \in Nat /\ Len(made) = Len(h.made) + n
      /\ \A i \in 1..Len(h.made) : made[i] = h.made[i]
      /\ \A i \in 1..n : made[Len(h.made) + i] = new[i]
  <2> DEFINE a == h.made
             U == S \cup T
             L == Len(a)
  <2>1. a \in Seq(U) /\ new \in Seq(U)
    BY <1>8
  <2> HIDE DEF a, U
  <2>2. /\ a \o new \in Seq(U) /\ L \in Nat /\ Len(a \o new) = L + n
        /\ \A i \in 1..(L + n) : (a \o new)[i] = IF i <= L THEN a[i] ELSE new[i - L]
    <3>1. /\ a \o new \in Seq(U) /\ L \in Nat /\ Len(a \o new) = L + Len(new)
          /\ \A i \in 1..(L + Len(new)) :
                 (a \o new)[i] = IF i <= L THEN a[i] ELSE new[i - L]
      <4>1. L \in Nat
        BY <2>1
      <4> QED BY <4>1, <2>1 DEF L
    <3> QED BY <3>1, <1>6, ZenonT(40)
  <2> HIDE DEF L
  <2>3. /\ \A i \in 1..L : (a \o new)[i] = a[i]
        /\ \A i \in 1..n : (a \o new)[L + i] = new[i]
    BY <2>2, <1>4
  <2> QED BY <2>2, <2>3, ZenonT(40) DEF L, a, U
<1> HIDE DEF made
<1>10. out.made = made /\ out.t = h.t
  BY DEF Open, IsSession, OwnFields
<1> HIDE DEF out, res
<1> QED BY <1>3, <1>6, <1>9, <1>10 DEF IsSeq, res, n

\* Nothing leaves at the application level below it.
LEMMA PushMute ==
    ASSUME NEW h, Open(h), Mute(h), NEW recs, Len(recs) \in Nat, Push(h, recs).ok,
           \A i \in 1..Len(recs) : recs[i].outer # "application"
    PROVE  Mute(Push(h, recs).h) /\ Push(h, recs).h.t = h.t
<1> DEFINE g == Push(h, recs).h
           L == Len(h.made)
           n == Len(recs)
<1>1. IsSeq(h.made)
  BY DEF Mute
<1>2. /\ g.t = h.t /\ IsSeq(g.made) /\ L \in Nat /\ Len(g.made) = L + n
      /\ \A i \in 1..L : g.made[i] = h.made[i]
      /\ \A i \in 1..n : g.made[L + i].rec = recs[i]
  BY <1>1, PushSaid
<1>3. \A i \in 1..L : h.made[i].rec.outer # "application"
  BY DEF Mute
<1>4. n \in Nat /\ \A i \in 1..n : recs[i].outer # "application"
  OBVIOUS
<1> HIDE DEF g, L, n
<1>5. ASSUME NEW i \in 1..(L + n) PROVE g.made[i].rec.outer # "application"
  <2>1. CASE i \in 1..L
    BY <2>1, <1>2, <1>3
  <2>2. CASE i \notin 1..L
    <3> DEFINE j == i - L
    <3>1. j \in 1..n /\ i = L + j
      BY <2>2, <1>2, <1>4
    <3> HIDE DEF j
    <3> QED BY <3>1, <1>2, <1>4, ZenonT(40)
  <2> QED BY <2>1, <2>2
<1> QED BY <1>2, <1>5 DEF Mute, g

\* One message behind them may be at any level.
LEMMA PushLast ==
    ASSUME NEW h, Open(h), Mute(h), NEW recs, Len(recs) = 1, Push(h, recs).ok
    PROVE  LET g == Push(h, recs).h IN
           /\ g.t = h.t
           /\ \A i \in 1..Len(g.made) : g.made[i].rec.outer = "application" => i = Len(g.made)
<1> DEFINE g == Push(h, recs).h
           L == Len(h.made)
<1>1. IsSeq(h.made)
  BY DEF Mute
<1>2. /\ g.t = h.t /\ IsSeq(g.made) /\ L \in Nat /\ Len(g.made) = L + 1
      /\ \A i \in 1..L : g.made[i] = h.made[i]
  BY <1>1, PushSaid
<1>3. \A i \in 1..L : h.made[i].rec.outer # "application"
  BY DEF Mute
<1> HIDE DEF g, L
<1>4. ASSUME NEW i \in 1..(L + 1), g.made[i].rec.outer = "application" PROVE i = L + 1
  BY <1>2, <1>3, <1>4
<1> QED BY <1>2, <1>4 DEF g

\* A message of the handshake leaves below the application level.
LEMMA OutMute ==
    ASSUME NEW h, Open(h), Mute(h), OverQuic(h), h.hs.level \in {0, 1}, NEW m, m.size \in Nat
    PROVE  /\ srv_out_plain(h, m).ok =>
                 Mute(srv_out_plain(h, m).h) /\ srv_out_plain(h, m).h.t = h.t
           /\ srv_out_sealed(h, m).ok => Mute(srv_out_sealed(h, m).h)
<1>1. \A cells : CryptoFrames(h.hs.level, cells).outer # "application"
  BY DEF CryptoFrames, PlainRecord, LevelNames
<1>2. srv_out_plain(h, m) = Push(h, << CryptoFrames(h.hs.level, Cells(m)) >>)
  BY ZenonT(40) DEF srv_out_plain
<1>3. srv_out_plain(h, m).ok =>
          Mute(srv_out_plain(h, m).h) /\ srv_out_plain(h, m).h.t = h.t
  <2> DEFINE r == CryptoFrames(h.hs.level, Cells(m))
             recs == << r >>
  <2>1. r.outer # "application"
    BY <1>1
  <2> HIDE DEF r
  <2>2. Len(recs) \in Nat /\ \A i \in 1..Len(recs) : recs[i].outer # "application"
    BY <2>1
  <2>3. srv_out_plain(h, m) = Push(h, recs)
    BY <1>2 DEF r
  <2> HIDE DEF recs
  <2> QED BY <2>2, <2>3, PushMute
<1>4. srv_out_sealed(h, m).ok => Mute(srv_out_sealed(h, m).h)
  <2> DEFINE count == (m.size + TxCells - 1) \div TxCells
             Piece(i) == SubSeq(Cells(m), (i - 1) * TxCells + 1, Fewer(i * TxCells, m.size))
             recs == [i \in 1..count |-> CryptoFrames(h.hs.level, Piece(i))]
  <2>1. srv_out_sealed(h, m) = Push(h, recs)
    <3>1. srv_out_limit(h) = TxCells
      BY ZenonT(40) DEF srv_out_limit
    <3> QED BY <3>1 DEF srv_out_sealed
  <2>2. count \in Nat
    BY TxAssumption DEF TxAssumption
  <2> HIDE DEF count, Piece
  <2>3. Len(recs) = count /\ \A i \in 1..count : recs[i].outer # "application"
    BY <1>1, <2>2
  <2> HIDE DEF recs
  <2> QED BY <2>1, <2>2, <2>3, PushMute
<1> QED BY <1>3, <1>4

\* a server that has said nothing at the application level
Speaker(g) ==
    /\ Open(g) /\ Mute(g) /\ OverQuic(g) /\ g.t.cfg.role = "server" /\ g.t.cfg.chain \in Nat
    /\ g.tx = << >>

\* Such a server is one by few of its fields.
LEMMA SpeaksOn ==
    ASSUME NEW h, Speaker(h), NEW g, Open(g), Mute(g), g.t.cfg = h.t.cfg, g.tx = h.tx
    PROVE  Speaker(g)
BY ZenonT(40) DEF Speaker, OverQuic

\* What a session said is in one field.
LEMMA MuteStays ==
    ASSUME NEW h, Mute(h), NEW g, g.made = h.made
    PROVE  Mute(g)
BY ZenonT(40) DEF Mute

\* Two fields of a session that handlers keep.
LEMMA QuietSpeaker ==
    ASSUME NEW h, NEW g, Quiet(h, g)
    PROVE  /\ g.t.cfg = h.t.cfg /\ g.tx = h.tx /\ g.step = h.step /\ g.app_rx = h.app_rx
           /\ g.hs.level = h.hs.level /\ g.hs.c_hs = h.hs.c_hs
BY DEF Quiet, KeptOwn, OwnFields, KeptTls, KeptHs

\* A message of the handshake goes out below the application level.
LEMMA SendSpeaks ==
    ASSUME NEW h, Speaker(h), h.hs.level \in {0, 1}, NEW m, m.size \in Nat
    PROVE  /\ Send(h, m).ok => Speaker(Send(h, m).h)
           /\ LET b == srv_out_plain(Hear(h, m), m) IN
              b.ok => Speaker(b.h) /\ b.h.t.transcript = Append(h.t.transcript, m)
<1> DEFINE g == Hear(h, m)
           a == srv_out_sealed(g, m)
           b == srv_out_plain(g, m)
<1>1. Open(h) /\ Mute(h) /\ IsSession(h)
  BY ZenonT(40) DEF Speaker, Open
<1>2. Answers(h, a) /\ Answers(h, b)
  BY <1>1, Sends, ZenonT(40) DEF Send
<1>3. Quiet(h, g) /\ Open(g) /\ g.t.transcript = Append(h.t.transcript, m)
  BY <1>1, Hears, ZenonT(40) DEF Open, Quiet, Grows
<1>4. g.made = h.made
  <2>1. SameBut(h, g, {"transcript"}, {})
    BY <1>1, HearFacts, ZenonT(40)
  <2> HIDE DEF g
  <2> QED BY <2>1 DEF SameBut, OwnFields
<1> HIDE DEF g
<1>5. Mute(g) /\ g.t.cfg = h.t.cfg /\ g.tx = h.tx /\ g.hs.level \in {0, 1}
  BY <1>1, <1>3, <1>4, MuteStays, QuietSpeaker
<1>6. OverQuic(g)
  BY <1>5, ZenonT(40) DEF OverQuic, Speaker
<1>7. (a.ok => Mute(a.h)) /\ (b.ok => Mute(b.h) /\ b.h.t = g.t)
  BY <1>3, <1>5, <1>6, OutMute, ZenonT(40)
<1> HIDE DEF a, b
<1>8. Open(a.h) /\ Open(b.h) /\ Quiet(h, a.h) /\ Quiet(h, b.h)
  BY <1>2, AnswersOpen, ZenonT(40) DEF Answers
<1>9. /\ a.h.t.cfg = h.t.cfg /\ a.h.tx = h.tx /\ b.h.t.cfg = h.t.cfg /\ b.h.tx = h.tx
  BY <1>8, QuietSpeaker, ZenonT(40)
<1>10. (a.ok => Speaker(a.h)) /\ (b.ok => Speaker(b.h))
  BY <1>7, <1>8, <1>9, SpeaksOn, ZenonT(40)
<1>11. b.ok => b.h.t.transcript = Append(h.t.transcript, m)
  BY <1>3, <1>7, ZenonT(40)
<1> QED BY <1>10, <1>11, ZenonT(40) DEF Send, a, b, g

-----------------------------------------------------------------------------
(* The server's hellos *)

\* the session says no more than before, and has heard no more
Hushed(h, g) == g.made = h.made /\ g.t.transcript = h.t.transcript

\* A ClientHello that is read is the last message heard.
LEMMA HelloRead ==
    ASSUME NEW h, Open(h), NEW m, srv_read_client_hello(h, m).ok
    PROVE  LET g == srv_read_client_hello(h, m).h IN
           /\ m.type = "client_hello" /\ g.made = h.made
           /\ g.t.transcript = Append(h.t.transcript, m)
<1> DEFINE alert == srv_parse_client_hello(m)
           sni   == m.sni /\ h.t.cfg.sni_buf
           g     == [h EXCEPT !.hs.alert = "decode_error", !.t.sni = sni]
           heard == Hear(g, m)
           res   == srv_read_client_hello(h, m)
<1>1. res = IF m.type # "client_hello" THEN No(h, "unexpected_message")
            ELSE IF alert # "none" THEN No(h, alert)
            ELSE IF h.t.cfg.require_server_name /\ ~heard.t.sni
                 THEN No(heard, "missing_extension") ELSE Ok(heard)
  BY ZenonT(40) DEF srv_read_client_hello
<1>2. \A x, y : No(x, y).ok = FALSE
  BY DEF No
<1>3. m.type = "client_hello" /\ res = Ok(heard)
  <2> HIDE DEF alert, heard, res
  <2>1. res.ok
    BY DEF res
  <2>2. \A x, y : res # No(x, y)
    BY <2>1, <1>2
  <2> QED BY <2>2, <1>1, ZenonT(40)
<1>4. res.h = heard
  <2> HIDE DEF heard, res
  <2> QED BY <1>3 DEF Ok
<1>5. IsSession(g) /\ g.made = h.made /\ g.t.transcript = h.t.transcript
  <2> HIDE DEF sni
  <2> QED BY DEF Open, IsSession, OwnFields, TlsFields, HsFields
<1> HIDE DEF g
<1>6. SameBut(g, heard, {"transcript"}, {}) /\ heard.t.transcript = Append(g.t.transcript, m)
  BY <1>5, HearFacts, ZenonT(40)
<1> HIDE DEF heard, res
<1>7. heard.made = g.made
  BY <1>6 DEF SameBut, OwnFields
<1> QED BY <1>3, <1>4, <1>5, <1>6, <1>7, ZenonT(40) DEF res

\* The choice of an authentication is silent.
LEMMA AuthHushed ==
    ASSUME NEW h, Open(h), NEW m, NEW sel, srv_select_auth(h, m, sel).ok
    PROVE  Hushed(h, srv_select_auth(h, m, sel).h)
<1> DEFINE i   == IF tickets_on(h.t.cfg) /\ ticket_offered(m) THEN find_ticket(h, m, sel) ELSE 0
           au  == m.tickets[i].auth
           g   == [h EXCEPT !.hs.early = "psk", !.hs.ticket_auth = au]
           s   == [sel EXCEPT !.psk_selected = TRUE, !.sigalg = "none", !.index = i]
           al  == IF "sigalgs" \in m.has THEN "handshake_failure" ELSE "missing_extension"
           Ans(r, x) == [ok |-> r.ok, h |-> r.h, sel |-> x]
           res == srv_select_auth(h, m, sel)
<1>1. \/ res = Ans(No(h, "decrypt_error"), sel) \/ res = Ans(Ok(g), s)
      \/ res = Ans(Ok(h), sel) \/ res = Ans(No(h, al), sel)
  <2>1. res = IF i # 0 /\ ~binder_matches(h, m, i) THEN Ans(No(h, "decrypt_error"), sel)
              ELSE IF i # 0 THEN Ans(Ok(g), s)
              ELSE IF sel.sigalg # "none" THEN Ans(Ok(h), sel) ELSE Ans(No(h, al), sel)
    BY DEF srv_select_auth
  <2> HIDE DEF i, g, s, al, Ans, res
  <2> QED BY <2>1, ZenonT(40)
<1>2. Hushed(h, g) /\ Hushed(h, h)
  <2> HIDE DEF au
  <2> QED BY DEF Hushed, Open, IsSession, OwnFields
<1> HIDE DEF g, s, al
<1>3. /\ Ans(Ok(g), s).h = g /\ Ans(Ok(h), sel).h = h
      /\ Ans(No(h, "decrypt_error"), sel).ok = FALSE /\ Ans(No(h, al), sel).ok = FALSE
  BY DEF Ok, No
<1> HIDE DEF Ans, res
<1>4. res.ok
  BY DEF res
<1> QED BY <1>1, <1>2, <1>3, <1>4 DEF res

\* An alert to start from is silent.
LEMMA AlertHushed ==
    ASSUME NEW h, Open(h), NEW alert
    PROVE  Hushed(h, [h EXCEPT !.hs.alert = alert])
BY DEF Hushed, Open, IsSession, OwnFields

\* Silence goes on.
LEMMA HushedThen ==
    ASSUME NEW a, NEW b, NEW c, Hushed(a, b), Hushed(b, c)
    PROVE  Hushed(a, c)
BY ZenonT(40) DEF Hushed

\* So is the selection from the first hello.
LEMMA SelectHushed ==
    ASSUME NEW h, Open(h), NEW m, srv_select(h, m).ok
    PROVE  Hushed(h, srv_select(h, m).h)
<1> DEFINE cfg   == h.t.cfg
           suite == FirstOffered(cfg.suites, m.suites)
           group == srv_kex_group(m)
           sel   == [NoSelection EXCEPT !.suite = suite, !.group = group,
                                        !.sigalg = srv_select_sigalg(cfg, m),
                                        !.need_retry = ~srv_kex_shared(m, group)]
           g     == [h EXCEPT !.hs.alert = "handshake_failure"]
           Ref(alert) == [ok |-> FALSE, h |-> No(g, alert).h, sel |-> sel]
           go    == [ok |-> TRUE, h |-> g, sel |-> sel]
           res   == srv_select(h, m)
<1>1. \/ res = Ref("handshake_failure") \/ res = Ref("no_application_protocol")
      \/ res = go \/ res = srv_select_auth(g, m, sel)
  <2>1. res = IF suite = "none" \/ group = "none" THEN Ref("handshake_failure")
              ELSE IF sel.sigalg = "none" /\ "psk" \notin m.has THEN Ref("handshake_failure")
              ELSE IF alpn_mismatch(cfg, m) THEN Ref("no_application_protocol")
              ELSE IF sel.need_retry THEN go ELSE srv_select_auth(g, m, sel)
    BY DEF srv_select
  <2> HIDE DEF suite, group, sel, g, Ref, go, res
  <2> QED BY <2>1, ZenonT(40)
<1>2. Open(g) /\ Hushed(h, g)
  <2>1. "handshake_failure" # "none"
    OBVIOUS
  <2> QED BY <2>1, Alerted, AlertHushed, ZenonT(40)
<1> HIDE DEF g, sel
<1>3. go.h = g /\ Ref("handshake_failure").ok = FALSE /\ Ref("no_application_protocol").ok = FALSE
  OBVIOUS
<1> HIDE DEF go, Ref, res
<1>4. res.ok
  BY DEF res
<1>5. CASE res = srv_select_auth(g, m, sel)
  <2>1. Hushed(g, res.h)
    BY <1>2, <1>4, <1>5, AuthHushed, ZenonT(40)
  <2> QED BY <2>1, <1>2, HushedThen, ZenonT(40) DEF res
<1>6. CASE res # srv_select_auth(g, m, sel)
  <2>1. res = go
    BY <1>1, <1>3, <1>4, <1>6
  <2> QED BY <2>1, <1>2, <1>3, ZenonT(40) DEF res
<1> QED BY <1>5, <1>6

\* And from the second.
LEMMA RetryHushed ==
    ASSUME NEW h, Open(h), NEW m, srv_check_retry_hello(h, m).ok
    PROVE  Hushed(h, srv_check_retry_hello(h, m).h)
<1> DEFINE g   == [h EXCEPT !.hs.alert = "illegal_parameter"]
           Ref(alert) == [ok |-> FALSE, h |-> No(g, alert).h, sel |-> NoSelection]
           c   == m.cookie[1]
           sel == [NoSelection EXCEPT !.suite = c.suite, !.group = c.group,
                                      !.sigalg = srv_select_sigalg(h.t.cfg, m)]
           res == srv_check_retry_hello(h, m)
<1>1. \/ res = Ref("illegal_parameter") \/ res = Ref("handshake_failure")
      \/ res = srv_select_auth(g, m, sel)
  <2>1. res = IF m.cookie = << >> \/ m.early_data THEN Ref("illegal_parameter")
              ELSE IF ~CookieHolds(h.t.cfg, m, c) THEN Ref("illegal_parameter")
              ELSE IF ~srv_kex_shared(m, c.group) THEN Ref("handshake_failure")
              ELSE srv_select_auth(g, m, sel)
    BY DEF srv_check_retry_hello
  <2> HIDE DEF c, sel, g, Ref, res
  <2> QED BY <2>1, ZenonT(40)
<1>2. Open(g) /\ Hushed(h, g)
  <2>1. "illegal_parameter" # "none"
    OBVIOUS
  <2> QED BY <2>1, Alerted, AlertHushed, ZenonT(40)
<1> HIDE DEF g, sel
<1>3. Ref("illegal_parameter").ok = FALSE /\ Ref("handshake_failure").ok = FALSE
  OBVIOUS
<1> HIDE DEF Ref, res
<1>4. res.ok
  BY DEF res
<1>5. res = srv_select_auth(g, m, sel)
  BY <1>1, <1>3, <1>4
<1>6. Hushed(g, res.h)
  BY <1>2, <1>4, <1>5, AuthHushed, ZenonT(40)
<1> QED BY <1>6, <1>2, HushedThen, Zenon DEF res

\* The transport parameters and the version go unheard and unsaid.
LEMMA VersionHushed ==
    ASSUME NEW h, Open(h), NEW m, NEW version
    PROVE  /\ take_transport_params(h, m).ok => take_transport_params(h, m).h = h
           /\ choose_version(h, version).ok => Hushed(h, choose_version(h, version).h)
<1> DEFINE g   == [h EXCEPT !.t.quic_negotiated_version = version]
           res == choose_version(h, version)
<1>1. \A x, y : No(x, y).ok = FALSE /\ Ok(x).h = x
  BY DEF No, Ok
<1>2. take_transport_params(h, m).ok => take_transport_params(h, m).h = h
  BY <1>1 DEF take_transport_params
<1>3. Hushed(h, g) /\ Hushed(h, h)
  BY DEF Hushed, Open, IsSession, OwnFields, TlsFields
<1>4. res = Ok(h) \/ res = Ok(g) \/ res = No(h, "internal_error")
  BY ZenonT(40) DEF choose_version
<1> HIDE DEF g, res
<1>5. res.ok => Hushed(h, res.h)
  BY <1>1, <1>3, <1>4
<1> QED BY <1>2, <1>5 DEF res

\* So are the selection that is stored and the secrets that are derived.
LEMMA DerivedHushed ==
    ASSUME NEW h, Open(h), NEW m, NEW sel
    PROVE  /\ Hushed(h, srv_store_selection(h, m, sel))
           /\ srv_derive_handshake_secrets(h, m, sel).ok =>
                 srv_derive_handshake_secrets(h, m, sel).h.made = h.made
<1>1. Hushed(h, srv_store_selection(h, m, sel))
  <2> DEFINE al == alpn_selected(h.t.cfg, m)
             li == IF m.limit # 0 THEN Fewer(h.t.peer_limit, m.limit) ELSE h.t.peer_limit
             g  == [h EXCEPT !.t.suite = sel.suite, !.t.group = sel.group, !.t.sigalg = sel.sigalg,
                             !.t.psk_selected = sel.psk_selected, !.t.alpn_selected = al,
                             !.t.peer_limit = li]
  <2>1. srv_store_selection(h, m, sel) = g
    BY DEF srv_store_selection, Open, IsSession, TlsFields
  <2> HIDE DEF al, li
  <2>2. Hushed(h, g)
    BY ZenonT(40) DEF Hushed, Open, IsSession, OwnFields, TlsFields
  <2> QED BY <2>1, <2>2
<1>2. srv_derive_handshake_secrets(h, m, sel).ok =>
          srv_derive_handshake_secrets(h, m, sel).h.made = h.made
  <2> DEFINE spent == [h EXCEPT !.hs.kex = {}]
             early == IF sel.psk_selected THEN spent ELSE [spent EXCEPT !.hs.early = "nopsk"]
             a     == Secret(early, "hs")
             b     == Secret(early, "c hs")
             c     == Secret(early, "s hs")
             done  == [early EXCEPT !.hs.early = "zero", !.hs.handshake_secret = a,
                                    !.hs.c_hs = b, !.hs.s_hs = c]
             keyed == Keyed(done, b, c)
             res   == srv_derive_handshake_secrets(h, m, sel)
  <2>1. res = IF m.bad = "secret" THEN No(spent, "illegal_parameter") ELSE Ok(keyed)
    BY Zenon DEF srv_derive_handshake_secrets
  <2>2. IsSession(spent) /\ spent.made = h.made
    BY DEF Open, IsSession, OwnFields, HsFields
  <2>3. IsSession(early) /\ early.made = h.made
    <3>1. early = spent \/ early = [spent EXCEPT !.hs.early = "nopsk"]
      OBVIOUS
    <3> HIDE DEF spent, early
    <3> QED BY <3>1, <2>2 DEF IsSession, OwnFields, HsFields
  <2> HIDE DEF spent, early, a, b, c
  <2>4. IsSession(done) /\ done.made = early.made
    BY <2>3 DEF IsSession, OwnFields, HsFields
  <2> HIDE DEF done
  <2>5. keyed.made = done.made
    <3> DEFINE x == [key |-> b, seq |-> 0]
               y == [key |-> c, seq |-> 0]
               w == [done EXCEPT !.t.rd = x, !.t.wr = y, !.hs.encrypted = TRUE, !.t.keys = TRUE]
    <3>1. keyed = done \/ keyed = w
      BY ZenonT(40) DEF Keyed
    <3> HIDE DEF x, y
    <3>2. w.made = done.made
      BY <2>4 DEF IsSession, OwnFields
    <3> HIDE DEF w, keyed
    <3> QED BY <3>1, <3>2
  <2> HIDE DEF keyed, res
  <2>6. \A x, y : No(x, y).ok = FALSE /\ Ok(x).h = x
    BY DEF No, Ok
  <2>7. res.ok => res.h.made = h.made
    BY <2>1, <2>3, <2>4, <2>5, <2>6
  <2> QED BY <2>7 DEF res
<1> QED BY <1>1, <1>2

-----------------------------------------------------------------------------
(* The server's flight *)

\* the client's handshake secret, over the hellos
HelloSecret(s) == s.label = "c hs" /\ Len(s.over) = HelloAt(s.over)

\* a server in its flight under the handshake keys
FlightSpeaker(g) ==
    /\ Speaker(g) /\ g.hs.level = 1 /\ DOMAIN g.app_rx = KeySets
    /\ HelloSecret(g.hs.c_hs) /\ Covers(g.t.transcript, g.hs.c_hs)

\* An answer leaves the keys of the flight.
LEMMA FlightOn ==
    ASSUME NEW h, FlightSpeaker(h), NEW res, Answers(h, res), res.ok => Speaker(res.h), res.ok
    PROVE  FlightSpeaker(res.h)
<1> DEFINE g == res.h
<1>1. Quiet(h, g) /\ Grows(h, g)
  BY ZenonT(40) DEF Answers
<1> HIDE DEF g
<1>2. g.hs.level = h.hs.level /\ g.hs.c_hs = h.hs.c_hs /\ g.app_rx = h.app_rx
  BY <1>1, QuietSpeaker, ZenonT(40)
<1>3. Covers(g.t.transcript, h.hs.c_hs)
  BY <1>1, ZenonT(40) DEF Grows, FlightSpeaker
<1>4. FlightSpeaker(g)
  BY <1>2, <1>3, ZenonT(40) DEF FlightSpeaker, g
<1> QED BY <1>4, ZenonT(40) DEF g

\* Each message of the flight is below the application level.
LEMMA FlightSaid ==
    ASSUME NEW h, FlightSpeaker(h), NEW m, m.size \in Nat
    PROVE  Send(h, m).ok => FlightSpeaker(Send(h, m).h)
<1>1. Speaker(h) /\ Open(h) /\ h.hs.level \in {0, 1}
  BY DEF FlightSpeaker, Speaker
<1>2. Answers(h, Send(h, m)) /\ (Send(h, m).ok => Speaker(Send(h, m).h))
  BY <1>1, Sends, SendSpeaks, ZenonT(40)
<1> QED BY <1>2, FlightOn, ZenonT(40)

\* So are those before the Finished.
LEMMA FlightSpeaks ==
    ASSUME NEW h, FlightSpeaker(h), NEW signs
    PROVE  /\ LET a == srv_send_encrypted_extensions(h) IN a.ok => FlightSpeaker(a.h)
           /\ LET a == srv_send_certificate(h) IN a.ok => FlightSpeaker(a.h)
           /\ LET a == srv_send_certificate_verify(h, signs) IN a.ok => FlightSpeaker(a.h)
<1> DEFINE ee == [type |-> "encrypted_extensions", size |-> 1, malformed |-> FALSE,
                  exts |-> (IF h.t.alpn_selected = "none" THEN << >>
                            ELSE << [ext |-> "alpn", body |-> "ok"] >>)
                           \o (IF OverQuic(h)
                               THEN << [ext |-> "transport_params", body |-> "ok"] >>
                               ELSE << >>)]
           ce == [type |-> "certificate", size |-> h.t.cfg.chain, malformed |-> "none",
                  verdict |-> "none", epoch |-> h.t.cfg.epoch, epoch_ok |-> TRUE]
           cv == [type |-> "certificate_verify", size |-> 1, malformed |-> FALSE,
                  scheme |-> "leaf", signer |-> "leaf", over |-> h.t.transcript]
<1>1. srv_send_encrypted_extensions(h) = Send(h, ee) /\ srv_send_certificate(h) = Send(h, ce)
  BY ZenonT(40) DEF srv_send_encrypted_extensions, srv_send_certificate
<1>2. srv_send_certificate_verify(h, signs) = IF ~signs THEN No(h, "internal_error") ELSE Send(h, cv)
  BY ZenonT(40) DEF srv_send_certificate_verify
<1>3. ee.size = 1 /\ ce.size = h.t.cfg.chain /\ cv.size = 1
  OBVIOUS
<1> HIDE DEF ee, ce, cv
<1>4. h.t.cfg.chain \in Nat /\ 1 \in Nat
  BY DEF FlightSpeaker, Speaker
<1>5. ee.size \in Nat /\ ce.size \in Nat /\ cv.size \in Nat
  BY <1>3, <1>4
<1>6. \A x \in {ee, ce, cv} : Send(h, x).ok => FlightSpeaker(Send(h, x).h)
  <2> TAKE x \in {ee, ce, cv}
  <2>1. x.size \in Nat
    BY <1>5
  <2> QED BY <2>1, FlightSaid, ZenonT(40)
<1>7. No(h, "internal_error").ok = FALSE
  BY DEF No
<1> DEFINE r == srv_send_certificate_verify(h, signs)
<1>8. r.ok => FlightSpeaker(r.h)
  <2> HIDE DEF r
  <2>1. r = No(h, "internal_error") \/ r = Send(h, cv)
    BY <1>2, ZenonT(40) DEF r
  <2>2. CASE r = No(h, "internal_error")
    BY <2>2, <1>7
  <2>3. CASE r = Send(h, cv)
    BY <2>3, <1>6
  <2> QED BY <2>1, <2>2, <2>3
<1>9. /\ Send(h, ee).ok => FlightSpeaker(Send(h, ee).h)
      /\ Send(h, ce).ok => FlightSpeaker(Send(h, ce).h)
  BY <1>6
<1> QED BY <1>1, <1>8, <1>9, ZenonT(40) DEF r

\* a server behind its Finished
Awaits(res) == res.ok => res.h.t.cfg.role = "server" /\ ServerStory(res.h)

\* Its Finished is the last of the flight.
LEMMA ServerEnds ==
    ASSUME NEW h, FlightSpeaker(h)
    PROVE  Awaits(Then(srv_send_finished(h), LAMBDA g :
               Ok([install_application_keys(g, {"WRITE"}) EXCEPT
                      !.rx_level = 1, !.step = "AWAIT_CLIENT_FINISHED"])))
<1> DEFINE fin == FinishedMessage(HashOf(h.t.suite), h.hs.s_hs, h.t.transcript)
           a   == Send(h, fin)
           g   == a.h
           ms  == Derived(g, "master")
           rd  == Derived(g, "c ap")
           wr  == Derived(g, "s ap")
           dir == IF OverQuic(h) THEN g.t.wr ELSE [key |-> wr, seq |-> 0]
           f   == [g EXCEPT !.hs.master = ms, !.t.rd_secret = rd, !.t.wr_secret = wr, !.t.wr = dir]
           i   == install_application_keys(f, {"WRITE"})
           n   == [i EXCEPT !.rx_level = 1, !.step = "AWAIT_CLIENT_FINISHED"]
           res == Then(srv_send_finished(h), LAMBDA x :
                       Ok([install_application_keys(x, {"WRITE"}) EXCEPT
                              !.rx_level = 1, !.step = "AWAIT_CLIENT_FINISHED"]))
<1>1. a.ok => FlightSpeaker(g)
  <2>1. fin.size \in Nat
    BY DEF FinishedMessage
  <2> QED BY <2>1, FlightSaid, ZenonT(40)
<1>2. IsSession(g) /\ a.ok \in BOOLEAN
  <2>1. Open(h)
    BY ZenonT(40) DEF FlightSpeaker, Speaker
  <2>2. Answers(h, a)
    BY <2>1, Sends, ZenonT(40)
  <2> QED BY <2>2, ZenonT(40) DEF Answers, Quiet
<1> HIDE DEF fin, a, g
<1>3. srv_send_finished(h) = IF a.ok THEN Ok(f) ELSE a
  <2>1. f = [g EXCEPT !.hs.master = ms, !.t.rd_secret = rd, !.t.wr_secret = wr,
                      !.t.wr = IF OverQuic(h) THEN @ ELSE [key |-> wr, seq |-> 0]]
    BY <1>2 DEF IsSession, TlsFields
  <2> QED BY <2>1 DEF srv_send_finished, Then, a, fin, g
<1>4. a.ok => res.h = n
  <2>1. a.ok => srv_send_finished(h).ok = TRUE /\ srv_send_finished(h).h = f
    BY <1>3 DEF Ok
  <2> HIDE DEF f
  <2> QED BY <2>1, ZenonT(40) DEF Then, Ok
<1>5. ~a.ok => res = a
  BY <1>3 DEF Then
<1> HIDE DEF ms, rd, wr, dir, res
<1>6. CASE ~a.ok
  BY <1>5, <1>6, ZenonT(40) DEF Awaits, res
<1>7. CASE a.ok
  <2>1. /\ FlightSpeaker(g) /\ Speaker(g)
    BY <1>1, <1>7, ZenonT(40) DEF FlightSpeaker
  <2>2. /\ IsSession(f) /\ f.app_rx = g.app_rx /\ f.made = g.made /\ f.tx = g.tx
        /\ f.t.cfg = g.t.cfg /\ f.t.transcript = g.t.transcript /\ f.hs.c_hs = g.hs.c_hs
    BY <1>2, ZenonT(40) DEF IsSession, OwnFields, TlsFields, HsFields
  <2> HIDE DEF f
  <2>3. /\ IsSession(i) /\ i.hs = f.hs /\ \A x \in TlsFields \ {"rd_secret"} : i.t[x] = f.t[x]
        /\ \A x \in OwnFields \ {"ready", "app_tx", "app_hp_tx", "app_rx", "app_hp_rx"} :
              i[x] = f[x]
    <3>1. DOMAIN f.app_rx = KeySets
      BY <2>1, <2>2, ZenonT(40) DEF FlightSpeaker
    <3>2. i = install_application_keys(f, {"WRITE"})
      OBVIOUS
    <3> HIDE DEF i
    <3> QED BY <3>1, <3>2, <2>2, InstallsApplication
  <2> HIDE DEF i
  <2>4. /\ n.step = "AWAIT_CLIENT_FINISHED" /\ n.t = i.t /\ n.hs = i.hs /\ n.tx = i.tx
        /\ n.made = i.made
    BY <2>3 DEF IsSession, OwnFields
  <2> HIDE DEF n
  <2>5. /\ n.t.cfg = g.t.cfg /\ n.t.transcript = g.t.transcript /\ n.hs.c_hs = g.hs.c_hs
        /\ n.tx = g.tx /\ n.made = g.made
    BY <2>2, <2>3, <2>4 DEF TlsFields, OwnFields
  <2>6. Mute(n) /\ OverQuic(n) /\ n.t.cfg.chain \in Nat /\ n.tx = << >> /\ n.t.cfg.role = "server"
    BY <2>1, <2>5, ZenonT(40) DEF Speaker, Mute, OverQuic
  <2>7. /\ n.hs.c_hs.label = "c hs" /\ Covers(n.t.transcript, n.hs.c_hs)
        /\ Len(n.hs.c_hs.over) = HelloAt(n.hs.c_hs.over)
    BY <2>1, <2>5, ZenonT(40) DEF FlightSpeaker, HelloSecret
  <2>8. /\ n.step # "COMPLETE" /\ n.step # "AWAIT_CLIENT_HELLO" /\ n.step # "AWAIT_RETRY_HELLO"
        /\ n.step \in {"AWAIT_CLIENT_HELLO", "AWAIT_RETRY_HELLO", "AWAIT_CLIENT_FINISHED",
                       "COMPLETE"}
    BY <2>4
  <2>9. ServerStory(n)
    BY <2>6, <2>7, <2>8, ZenonT(40) DEF ServerStory
  <2> QED BY <2>6, <2>9, <1>4, <1>7, ZenonT(40) DEF Awaits, res
<1> QED BY <1>2, <1>6, <1>7

\* The flight under the handshake keys.
LEMMA RestAwaits ==
    ASSUME NEW h, FlightSpeaker(h), NEW psk, NEW signs
    PROVE  Awaits(Rest(h, psk, signs))
<1> DEFINE End(x) == Then(srv_send_finished(x), LAMBDA h6 :
                          Ok([install_application_keys(h6, {"WRITE"}) EXCEPT
                                 !.rx_level = 1, !.step = "AWAIT_CLIENT_FINISHED"]))
           a1 == srv_send_encrypted_extensions(h)
           c1 == srv_send_certificate(a1.h)
           a2 == IF psk THEN Ok(a1.h)
                 ELSE IF c1.ok THEN srv_send_certificate_verify(c1.h, signs) ELSE c1
           res == IF a1.ok THEN IF a2.ok THEN End(a2.h) ELSE a2 ELSE a1
<1>1. a1.ok => FlightSpeaker(a1.h)
  BY FlightSpeaks, ZenonT(40)
<1> HIDE DEF a1
<1>2. a1.ok /\ c1.ok => FlightSpeaker(c1.h)
  BY <1>1, FlightSpeaks, ZenonT(40)
<1> HIDE DEF c1
<1>3. a1.ok /\ a2.ok => FlightSpeaker(a2.h)
  <2> SUFFICES ASSUME a1.ok, a2.ok PROVE FlightSpeaker(a2.h)
    OBVIOUS
  <2>1. CASE psk
    <3>1. a2.h = a1.h
      BY <2>1 DEF Ok
    <3> QED BY <3>1, <1>1, ZenonT(40)
  <2>2. CASE ~psk /\ ~c1.ok
    BY <2>2, ZenonT(40)
  <2>3. CASE ~psk /\ c1.ok
    <3>1. a2 = srv_send_certificate_verify(c1.h, signs)
      BY <2>3, ZenonT(40)
    <3> HIDE DEF a2
    <3> QED BY <3>1, <2>3, <1>2, FlightSpeaks, ZenonT(40)
  <2> QED BY <2>1, <2>2, <2>3
<1> HIDE DEF a2
<1>4. a1.ok /\ a2.ok => Awaits(End(a2.h))
  BY <1>3, ServerEnds, ZenonT(40)
<1> HIDE DEF End
<1>5. Awaits(res)
  BY <1>4, ZenonT(40) DEF Awaits
<1> QED BY <1>5, ZenonT(40) DEF Rest, Then, End, a1, c1, a2

\* the hellos up to the one that is answered
Hellos(tr) == IsSeq(tr) /\ Len(tr) + 1 = HelloAt(tr)

\* The answer completes them.
LEMMA HellosAnswered ==
    ASSUME NEW tr, Hellos(tr), NEW hello
    PROVE  Len(Append(tr, hello)) = HelloAt(Append(tr, hello))
<1> DEFINE n == Append(tr, hello)
           L == Len(tr)
<1>1. IsSeq(tr) /\ L + 1 = HelloAt(tr)
  BY DEF Hellos
<1>2. L \in Nat /\ Len(n) = L + 1 /\ \A i \in 1..L : n[i] = tr[i]
  BY <1>1, Heard
<1>3. HelloAt(tr) \in {2, 4}
  BY DEF HelloAt
<1> HIDE DEF n, L
<1>4. 1 \in 1..L
  BY <1>1, <1>2, <1>3
<1>5. n[1] = tr[1]
  BY <1>2, <1>4
<1>6. HelloAt(n) = HelloAt(tr)
  BY <1>5, ZenonT(40) DEF HelloAt
<1> QED BY <1>1, <1>2, <1>6 DEF n

\* The handshake keys are over the hellos.
LEMMA KeyedSpeaks ==
    ASSUME NEW g, Speaker(g), DOMAIN g.app_rx = KeySets, HelloSecret(g.hs.c_hs),
           g.hs.c_hs.over = g.t.transcript
    PROVE  FlightSpeaker([install_handshake_keys(g, g.hs.c_hs, g.hs.s_hs) EXCEPT !.hs.level = 1])
<1> DEFINE c == g.hs.c_hs
           s == g.hs.s_hs
           i == install_handshake_keys(g, c, s)
           n == [i EXCEPT !.hs.level = 1]
<1>1. Open(g) /\ Mute(g) /\ IsSession(g) /\ IsSeq(g.t.transcript)
  BY Zenon DEF Speaker, Open
<1>2. Covers(g.t.transcript, c)
  BY <1>1, CoversAll, ZenonT(40)
<1> HIDE DEF s
<1>3. /\ IsSession(i) /\ i.t = g.t /\ i.hs = g.hs
      /\ \A f \in OwnFields \ {"ready", "handshake_rx", "handshake_hp_rx",
                               "handshake_tx", "handshake_hp_tx"} : i[f] = g[f]
  <2>1. i = install_handshake_keys(g, c, s)
    OBVIOUS
  <2> HIDE DEF i, c
  <2> QED BY <2>1, <1>1, InstallsHandshake
<1> HIDE DEF i
<1>4. /\ IsSession(n) /\ n.t = i.t /\ n.hs.c_hs = i.hs.c_hs /\ n.hs.level = 1
      /\ n.made = i.made /\ n.tx = i.tx /\ n.app_rx = i.app_rx
  BY <1>3 DEF IsSession, OwnFields, HsFields
<1> HIDE DEF n
<1>5. /\ n.t = g.t /\ n.hs.c_hs = c /\ n.made = g.made /\ n.tx = g.tx /\ n.app_rx = g.app_rx
  BY <1>3, <1>4 DEF OwnFields
<1>6. Open(n) /\ Mute(n)
  BY <1>1, <1>4, <1>5, MuteStays, ZenonT(40) DEF Open
<1>7. Speaker(n)
  BY <1>5, <1>6, SpeaksOn, ZenonT(40)
<1>8. FlightSpeaker(n)
  BY <1>2, <1>4, <1>5, <1>7, ZenonT(40) DEF FlightSpeaker
<1> QED BY <1>8 DEF n, i, c, s

\* All the server owes once a hello is accepted.
LEMMA ServerFlightAwaits ==
    ASSUME NEW h, Speaker(h), DOMAIN h.app_rx = KeySets, Hellos(h.t.transcript),
           NEW m, NEW sel, NEW signs
    PROVE  Awaits(server_flight(h, m, sel, signs))
<1> DEFINE h0 == [h EXCEPT !.hs.level = 0]
           hi == ServerHello(sel, FALSE, << >>)
           a1 == srv_send_server_hello(h0, m, sel)
           h1 == a1.h
           s1 == srv_store_selection(h1, m, sel)
           a2 == srv_derive_handshake_secrets(s1, m, sel)
           h2 == a2.h
           kd == [install_handshake_keys(h2, h2.hs.c_hs, h2.hs.s_hs) EXCEPT !.hs.level = 1]
           res == IF a1.ok THEN IF a2.ok THEN Rest(kd, sel.psk_selected, signs) ELSE a2 ELSE a1
           tr == Append(h.t.transcript, hi)
<1>1. Speaker(h0) /\ h0.hs.level \in {0, 1} /\ h0.t = h.t /\ h0.app_rx = h.app_rx
  <2>1. IsSession(h) /\ Open(h) /\ Mute(h)
    BY Zenon DEF Speaker, Open
  <2>2. /\ IsSession(h0) /\ h0.t = h.t /\ h0.made = h.made /\ h0.tx = h.tx
        /\ h0.hs.level \in {0, 1} /\ h0.app_rx = h.app_rx
    BY <2>1 DEF IsSession, OwnFields, HsFields
  <2> HIDE DEF h0
  <2>3. Open(h0) /\ Mute(h0) /\ h0.t.cfg = h.t.cfg
    BY <2>1, <2>2, MuteStays, ZenonT(40) DEF Open
  <2> QED BY <2>2, <2>3, SpeaksOn, ZenonT(40)
<1> HIDE DEF h0
<1>2. Open(h0) /\ Answers(h0, a1)
  BY <1>1, SendsServerHello, ZenonT(40) DEF Speaker
<1>3. a1.ok => Speaker(h1) /\ h1.t.transcript = tr
  <2>1. hi.size \in Nat
    BY DEF ServerHello
  <2> HIDE DEF hi
  <2>2. a1 = No(h0, "illegal_parameter") \/ a1 = srv_out_plain(Hear(h0, hi), hi)
    BY Zenon DEF srv_send_server_hello, hi
  <2>3. No(h0, "illegal_parameter").ok = FALSE
    BY DEF No
  <2> HIDE DEF a1
  <2>4. CASE a1 = No(h0, "illegal_parameter")
    BY <2>3, <2>4
  <2>5. CASE a1 = srv_out_plain(Hear(h0, hi), hi)
    BY <2>1, <2>5, <1>1, SendSpeaks, ZenonT(40)
  <2> QED BY <2>2, <2>4, <2>5
<1> HIDE DEF a1, h1, hi
<1>4. Open(h1) /\ h1.app_rx = h.app_rx
  <2>1. Open(h1) /\ Quiet(h0, h1)
    BY <1>2, AnswersOpen, ZenonT(40) DEF Answers, h1
  <2> QED BY <2>1, <1>1, QuietSpeaker, ZenonT(40)
<1>5. Open(s1) /\ Quiet(h1, s1) /\ Hushed(h1, s1)
  BY <1>4, Stores, DerivedHushed, ZenonT(40)
<1> HIDE DEF s1
<1>6. /\ a2.ok \in BOOLEAN /\ IsSession(h2) /\ h2.t.transcript = s1.t.transcript
      /\ \A f \in KeptTls : h2.t[f] = s1.t[f]
      /\ \A f \in KeptOwn : h2[f] = s1[f]
      /\ a2.ok => h2.hs.c_hs.label = "c hs" /\ h2.hs.c_hs.over = s1.t.transcript
      /\ a2.ok => h2.made = s1.made
  <2>1. a2.ok => h2.made = s1.made
    BY <1>5, DerivedHushed, ZenonT(40)
  <2>2. /\ a2.ok \in BOOLEAN /\ IsSession(h2) /\ h2.t.transcript = s1.t.transcript
        /\ \A f \in KeptTls : h2.t[f] = s1.t[f]
        /\ \A f \in KeptOwn : h2[f] = s1[f]
        /\ ~a2.ok => h2.hs.alert # "none"
        /\ a2.ok =>
              /\ IsSecret(h2.hs.handshake_secret) /\ h2.hs.handshake_secret.ku = 0
              /\ IsSecret(h2.hs.c_hs) /\ h2.hs.c_hs.label = "c hs"
              /\ h2.hs.c_hs.over = s1.t.transcript
              /\ IsSecret(h2.hs.s_hs) /\ h2.hs.s_hs.label = "s hs"
              /\ h2.hs.s_hs.over = s1.t.transcript
    BY <1>5, DerivesServer, ZenonT(40)
  <2> QED BY <2>1, <2>2, ZenonT(40)
<1> HIDE DEF a2, h2
<1>7. ASSUME a1.ok, a2.ok PROVE FlightSpeaker(kd)
  <2>1. Speaker(h1) /\ h1.t.transcript = tr
    BY <1>3, <1>7, ZenonT(40)
  <2>2. s1.t.cfg = h1.t.cfg /\ s1.tx = h1.tx /\ s1.app_rx = h1.app_rx
    BY <1>5, QuietSpeaker, ZenonT(40)
  <2>3. Mute(s1) /\ s1.t.transcript = tr
    BY <1>5, <2>1, MuteStays, ZenonT(40) DEF Hushed, Speaker
  <2>4. Speaker(s1)
    BY <1>5, <2>1, <2>2, <2>3, SpeaksOn, ZenonT(40)
  <2>5. h2.t.cfg = s1.t.cfg /\ h2.tx = s1.tx /\ h2.app_rx = s1.app_rx
    BY <1>6, Zenon DEF KeptTls, KeptOwn, OwnFields
  <2>6. Mute(h2) /\ Open(h2) /\ h2.t.transcript = tr
    BY <1>5, <1>6, <1>7, <2>3, MuteStays, ZenonT(40) DEF Open
  <2>7. Speaker(h2) /\ DOMAIN h2.app_rx = KeySets
    BY <1>4, <2>2, <2>4, <2>5, <2>6, SpeaksOn, ZenonT(40)
  <2>8. HelloSecret(h2.hs.c_hs) /\ h2.hs.c_hs.over = h2.t.transcript
    <3>1. Len(tr) = HelloAt(tr)
      BY HellosAnswered, ZenonT(40)
    <3> HIDE DEF tr
    <3> QED BY <3>1, <1>6, <1>7, <2>3, <2>6, ZenonT(40) DEF HelloSecret
  <2> QED BY <2>7, <2>8, KeyedSpeaks, ZenonT(40)
<1> HIDE DEF kd, tr
<1>8. Awaits(res)
  <2>1. a1.ok /\ a2.ok => Awaits(Rest(kd, sel.psk_selected, signs))
    BY <1>7, RestAwaits, ZenonT(40)
  <2> QED BY <2>1, ZenonT(40) DEF Awaits
<1> QED BY <1>8, ZenonT(40) DEF server_flight, Then, Rest, kd, a1, h1, a2, h2, s1, h0

\* The HelloRetryRequest is behind the hash of the first hello.
LEMMA RequestAwaits ==
    ASSUME NEW h, Speaker(h), NEW m, NEW sel
    PROVE  Awaits(Goto(srv_send_hello_retry_request([h EXCEPT !.hs.level = 0], m, sel),
                       "AWAIT_RETRY_HELLO"))
<1> DEFINE cookie == srv_cookie_mint(sel, m)
           retry  == ServerHello(sel, TRUE, cookie)
           h0     == [h EXCEPT !.hs.level = 0]
           h1     == [h0 EXCEPT !.hs.cookie = cookie, !.t.hrr_sent = TRUE]
           hash   == [type |-> "message_hash", of |-> h1.t.transcript]
           again  == restart_transcript(h1, retry)
           a      == srv_out_plain(again, retry)
           n      == [a.h EXCEPT !.step = "AWAIT_RETRY_HELLO"]
           res    == IF a.ok THEN Ok(n) ELSE a
<1>1. retry.size \in Nat
  BY DEF ServerHello
<1> HIDE DEF cookie, retry
<1>2. IsSession(h) /\ Open(h) /\ Mute(h)
  BY Zenon DEF Speaker, Open
<1>3. IsSession(h0) /\ h0.t = h.t /\ h0.made = h.made /\ h0.tx = h.tx /\ h0.hs.level = 0
  BY <1>2 DEF IsSession, OwnFields, HsFields
<1> HIDE DEF h0
<1>4. /\ IsSession(h1) /\ h1.t.cfg = h0.t.cfg /\ h1.made = h0.made /\ h1.tx = h0.tx
      /\ h1.hs.level = h0.hs.level
  BY <1>3 DEF IsSession, OwnFields, HsFields, TlsFields
<1> HIDE DEF h1
<1>5. /\ IsSession(again) /\ again.t.cfg = h1.t.cfg /\ again.made = h1.made /\ again.tx = h1.tx
      /\ again.hs.level = h1.hs.level /\ again.t.transcript = << hash, retry >>
  BY <1>4 DEF restart_transcript, IsSession, OwnFields, TlsFields
<1>6. hash.type = "message_hash" /\ << hash, retry >> \in Seq({hash, retry})
  OBVIOUS
<1> HIDE DEF hash, again
<1>7. Open(again) /\ Mute(again) /\ again.t.cfg = h.t.cfg /\ again.tx = h.tx /\ again.hs.level = 0
  BY <1>2, <1>3, <1>4, <1>5, <1>6, MuteStays, ZenonT(40) DEF Open, IsSeq
<1>8. Speaker(again) /\ OverQuic(again) /\ again.hs.level \in {0, 1}
  BY <1>7, SpeaksOn DEF Speaker
<1>9. (a.ok => Mute(a.h) /\ a.h.t = again.t) /\ Answers(again, a)
  BY <1>1, <1>7, <1>8, OutMute, SendsOut, ZenonT(40)
<1> HIDE DEF a
<1>10. IsSession(a.h) /\ a.h.tx = again.tx
  BY <1>9, QuietSpeaker, ZenonT(40) DEF Answers, Quiet
<1>11. n.t = a.h.t /\ n.made = a.h.made /\ n.tx = a.h.tx /\ n.step = "AWAIT_RETRY_HELLO"
  BY <1>10 DEF IsSession, OwnFields
<1> HIDE DEF n
<1>12. ASSUME a.ok PROVE n.t.cfg.role = "server" /\ ServerStory(n)
  <2>1. Mute(n) /\ n.t.cfg = h.t.cfg /\ n.tx = h.tx /\ n.t.transcript = << hash, retry >>
    BY <1>5, <1>7, <1>9, <1>10, <1>11, <1>12, MuteStays, ZenonT(40)
  <2>2. OverQuic(n) /\ n.t.cfg.chain \in Nat /\ n.tx = << >> /\ n.t.cfg.role = "server"
    BY <2>1, ZenonT(40) DEF Speaker, OverQuic
  <2>3. Len(n.t.transcript) = 2 /\ n.t.transcript[1].type = "message_hash"
    BY <1>6, <2>1
  <2>4. /\ n.step # "COMPLETE" /\ n.step # "AWAIT_CLIENT_HELLO"
        /\ n.step # "AWAIT_CLIENT_FINISHED"
        /\ n.step \in {"AWAIT_CLIENT_HELLO", "AWAIT_RETRY_HELLO", "AWAIT_CLIENT_FINISHED",
                       "COMPLETE"}
    BY <1>11
  <2> QED BY <2>1, <2>2, <2>3, <2>4, ZenonT(40) DEF ServerStory
<1>13. Awaits(res)
  <2>1. Ok(n).h = n
    BY DEF Ok
  <2> QED BY <2>1, <1>12, ZenonT(40) DEF Awaits
<1>14. Goto(srv_send_hello_retry_request(h0, m, sel), "AWAIT_RETRY_HELLO") = res
  BY Zenon DEF Goto, srv_send_hello_retry_request, cookie, retry, h1, again, a, n
<1> QED BY <1>13, <1>14, ZenonT(40) DEF h0

\* A server that waits for a hello, after some of its handlers.
LEMMA EarlySpeaks ==
    ASSUME NEW k, Speaker(k), Alive(k), k.step \in HelloSteps, NEW g, Early(k, g), g.made = k.made
    PROVE  Speaker(g) /\ DOMAIN g.app_rx = KeySets
<1>1. \A f \in KeyFields : g[f] = k[f]
  BY QuietFields, ZenonT(40) DEF Early
<1>2. DOMAIN g.app_rx = KeySets
  BY <1>1, HelloBits, ZenonT(40)
<1>3. g.tx = k.tx
  BY DEF Early, KeptOwn, OwnFields
<1>4. Mute(g) /\ Open(g) /\ g.t.cfg = k.t.cfg
  BY MuteStays, ZenonT(40) DEF Speaker, Early
<1> QED BY <1>2, <1>3, <1>4, SpeaksOn, ZenonT(40)

\* A turn that awaits the client's next message keeps the story.
LEMMA AwaitsTold ==
    ASSUME NEW k, NEW res, Turned(k, res), Awaits(res)
    PROVE  Told(res)
BY Zenon DEF Told, Turned, Open, Awaits, Tells

\* What a server tells before its client has finished.
LEMMA SpeakerStory ==
    ASSUME NEW k, Open(k), k.t.cfg.role = "server", Tells(k), k.step # "COMPLETE"
    PROVE  Speaker(k) /\ ServerStory(k)
BY Zenon DEF Speaker, Tells, ServerStory

\* step_client_hello keeps the story.
LEMMA ClientHelloTells ==
    ASSUME Turn, Story, NEW room, NEW signs, NEW version, step_client_hello(room, signs, version)
    PROVE  Story'
<1> DEFINE k  == Taken(q)
           m  == NextMsg(q)
           h0 == [k EXCEPT !.room = room]
           a1 == srv_read_client_hello(h0, m)
           a2 == take_transport_params(a1.h, m)
           a3 == choose_version(a2.h, version)
           read == IF a1.ok THEN IF a2.ok THEN a3 ELSE a2 ELSE a1
           ch  == srv_select(read.h, m)
           flight == server_flight(ch.h, m, ch.sel, signs)
           retry  == Goto(srv_send_hello_retry_request([ch.h EXCEPT !.hs.level = 0], m, ch.sel),
                          "AWAIT_RETRY_HELLO")
           res == IF ~read.ok THEN read ELSE IF ~ch.ok THEN ch
                  ELSE IF ~ch.sel.need_retry THEN flight ELSE retry
<1>1. Advance(res)
  BY ZenonT(40) DEF step_client_hello, Then
<1>2. q.step = "AWAIT_CLIENT_HELLO" /\ q.t.cfg.role = "server"
  BY DEF step_client_hello, At
<1>3. /\ Open(k) /\ Alive(k) /\ k.step = q.step /\ k.t.cfg = q.t.cfg
  BY TakesMessage DEF OwnFields, TlsFields
<1>4. /\ k.step \in HelloSteps /\ k.t.cfg.role = "server" /\ k.step = "AWAIT_CLIENT_HELLO"
      /\ k.step # "COMPLETE"
  BY <1>2, <1>3 DEF HelloSteps
<1>5. Tells(k)
  BY TurnTells, ZenonT(40)
<1> HIDE DEF k, m
<1>6. Speaker(k) /\ k.t.transcript = << >>
  BY <1>3, <1>4, <1>5, SpeakerStory, ZenonT(40) DEF ServerStory
<1>7. Early(k, h0) /\ Hushed(k, h0)
  <2>1. Hushed(k, h0)
    BY <1>3 DEF Hushed, Open, IsSession, OwnFields
  <2> QED BY <2>1, <1>3, EarlyRoom
<1> HIDE DEF h0
<1>8. Answers(h0, a1)
  BY <1>7, ReadsClientHello, ZenonT(40) DEF Early
<1>9. a1.ok => /\ m.type = "client_hello" /\ a1.h.made = h0.made
               /\ a1.h.t.transcript = Append(h0.t.transcript, m)
  BY <1>7, HelloRead, ZenonT(40) DEF Early
<1> HIDE DEF a1
<1>10. Early(k, a1.h) /\ a1.ok \in BOOLEAN /\ (~a1.ok => Turned(k, a1))
  BY <1>3, <1>4, <1>7, <1>8, EarlyAnswers, ZenonT(40)
<1>11. Answers(a1.h, a2) /\ (a2.ok => a2.h = a1.h)
  BY <1>10, TakesParams, VersionHushed, ZenonT(40) DEF Early
<1> HIDE DEF a2
<1>12. Early(k, a2.h) /\ a2.ok \in BOOLEAN /\ (~a2.ok => Turned(k, a2))
  BY <1>3, <1>4, <1>10, <1>11, EarlyAnswers, ZenonT(40)
<1>13. Early(k, a3.h) /\ a3.ok \in BOOLEAN /\ (~a3.ok => Turned(k, a3))
  BY <1>3, <1>4, <1>12, ChoosesVersion, ZenonT(40)
<1>14. a3.ok => Hushed(a2.h, a3.h)
  BY <1>12, VersionHushed, ZenonT(40) DEF Early
<1> HIDE DEF a3
<1>15. /\ Early(k, read.h) /\ read.ok \in BOOLEAN /\ (~read.ok => Turned(k, read))
       /\ read.ok => a1.ok /\ Hushed(a1.h, read.h)
  <2>1. \/ ~a1.ok /\ read = a1
        \/ a1.ok /\ ~a2.ok /\ read = a2
        \/ a1.ok /\ a2.ok /\ read = a3
    BY <1>10, <1>12, ZenonT(40)
  <2> HIDE DEF read
  <2> QED BY <2>1, <1>10, <1>11, <1>12, <1>13, <1>14, ZenonT(40)
<1> HIDE DEF read
<1>16. Answers(read.h, ch) /\ (ch.ok => Hushed(read.h, ch.h))
  BY <1>15, Selects, SelectHushed, ZenonT(40) DEF Early
<1> HIDE DEF ch
<1>17. Early(k, ch.h) /\ ch.ok \in BOOLEAN /\ (~ch.ok => Turned(k, ch))
  BY <1>3, <1>4, <1>15, <1>16, EarlyAnswers, ZenonT(40)
<1>18. Turned(k, flight) /\ Turned(k, retry)
  BY <1>3, <1>4, <1>17, ServerFlightTurns, RetryTurns, ZenonT(40)
<1>19. ASSUME read.ok, ch.ok PROVE Awaits(flight) /\ Awaits(retry)
  <2>1. /\ ch.h.made = k.made /\ ch.h.t.transcript = Append(k.t.transcript, m)
        /\ m.type = "client_hello"
    BY <1>7, <1>9, <1>15, <1>16, <1>19, ZenonT(40) DEF Hushed
  <2>2. Speaker(ch.h) /\ DOMAIN ch.h.app_rx = KeySets
    BY <2>1, <1>3, <1>4, <1>6, <1>17, EarlySpeaks, ZenonT(40)
  <2>3. Hellos(ch.h.t.transcript)
    <3> DEFINE tr == ch.h.t.transcript
    <3>1. tr = << m >> /\ IsSeq(tr)
      <4>1. Append(<< >>, m) = << m >>
        OBVIOUS
      <4>2. << m >> \in Seq({m})
        OBVIOUS
      <4> QED BY <4>1, <4>2, <2>1, <1>6, ZenonT(40) DEF IsSeq
    <3>2. m.type # "message_hash"
      BY <2>1
    <3> HIDE DEF tr
    <3>3. Len(tr) = 1 /\ tr[1] = m
      BY <3>1
    <3>4. HelloAt(tr) = 2
      BY <3>2, <3>3, ZenonT(40) DEF HelloAt
    <3> QED BY <3>1, <3>3, <3>4 DEF Hellos, tr
  <2> QED BY <2>2, <2>3, ServerFlightAwaits, RequestAwaits, ZenonT(40)
<1> HIDE DEF flight, retry
<1>20. Turned(k, res) /\ Awaits(res)
  <2>1. \/ ~read.ok /\ res = read
        \/ read.ok /\ ~ch.ok /\ res = ch
        \/ read.ok /\ ch.ok /\ (res = flight \/ res = retry)
    BY <1>15, <1>17, ZenonT(40)
  <2> HIDE DEF res
  <2> QED BY <2>1, <1>15, <1>17, <1>18, <1>19, ZenonT(40) DEF Awaits
<1> HIDE DEF res
<1> QED BY <1>1, <1>20, AwaitsTold, AdvanceTells, ZenonT(40) DEF Told

\* step_retry_hello keeps the story.
LEMMA RetryHelloTells ==
    ASSUME Turn, Story, NEW room, NEW signs, step_retry_hello(room, signs)
    PROVE  Story'
<1> DEFINE k  == Taken(q)
           m  == NextMsg(q)
           h0 == [k EXCEPT !.room = room]
           read == srv_read_client_hello(h0, m)
           ch  == srv_check_retry_hello(read.h, m)
           flight == server_flight(ch.h, m, ch.sel, signs)
           res == IF ~read.ok THEN read ELSE IF ~ch.ok THEN ch ELSE flight
<1>1. Advance(res)
  BY ZenonT(40) DEF step_retry_hello
<1>2. q.step = "AWAIT_RETRY_HELLO" /\ q.t.cfg.role = "server"
  BY DEF step_retry_hello, At
<1>3. /\ Open(k) /\ Alive(k) /\ k.step = q.step /\ k.t.cfg = q.t.cfg
  BY TakesMessage DEF OwnFields, TlsFields
<1>4. /\ k.step \in HelloSteps /\ k.t.cfg.role = "server" /\ k.step = "AWAIT_RETRY_HELLO"
      /\ k.step # "COMPLETE"
  BY <1>2, <1>3 DEF HelloSteps
<1>5. Tells(k)
  BY TurnTells, ZenonT(40)
<1> HIDE DEF k, m
<1>6. /\ Speaker(k) /\ Len(k.t.transcript) = 2 /\ k.t.transcript[1].type = "message_hash"
      /\ IsSeq(k.t.transcript)
  BY <1>3, <1>4, <1>5, SpeakerStory, ZenonT(40) DEF ServerStory, Open
<1>7. Early(k, h0) /\ Hushed(k, h0)
  <2>1. Hushed(k, h0)
    BY <1>3 DEF Hushed, Open, IsSession, OwnFields
  <2> QED BY <2>1, <1>3, EarlyRoom
<1> HIDE DEF h0
<1>8. Answers(h0, read)
  BY <1>7, ReadsClientHello, ZenonT(40) DEF Early
<1>9. read.ok => read.h.made = h0.made /\ read.h.t.transcript = Append(h0.t.transcript, m)
  BY <1>7, HelloRead, ZenonT(40) DEF Early
<1> HIDE DEF read
<1>10. Early(k, read.h) /\ read.ok \in BOOLEAN /\ (~read.ok => Turned(k, read))
  BY <1>3, <1>4, <1>7, <1>8, EarlyAnswers, ZenonT(40)
<1>11. Answers(read.h, ch) /\ (ch.ok => Hushed(read.h, ch.h))
  BY <1>10, ChecksRetry, RetryHushed, ZenonT(40) DEF Early
<1> HIDE DEF ch
<1>12. Early(k, ch.h) /\ ch.ok \in BOOLEAN /\ (~ch.ok => Turned(k, ch))
  BY <1>3, <1>4, <1>10, <1>11, EarlyAnswers, ZenonT(40)
<1>13. Turned(k, flight)
  BY <1>3, <1>4, <1>12, ServerFlightTurns, ZenonT(40)
<1>14. ASSUME read.ok, ch.ok PROVE Awaits(flight)
  <2>1. ch.h.made = k.made /\ ch.h.t.transcript = Append(k.t.transcript, m)
    BY <1>7, <1>9, <1>11, <1>14, ZenonT(40) DEF Hushed
  <2>2. Speaker(ch.h) /\ DOMAIN ch.h.app_rx = KeySets
    BY <2>1, <1>3, <1>4, <1>6, <1>12, EarlySpeaks, ZenonT(40)
  <2>3. Hellos(ch.h.t.transcript)
    <3> DEFINE old == k.t.transcript
               tr  == Append(old, m)
    <3>1. IsSeq(old) /\ Len(old) = 2 /\ old[1].type = "message_hash"
      BY <1>6
    <3> HIDE DEF old
    <3>2. IsSeq(tr) /\ Len(tr) = 3 /\ tr[1] = old[1]
      <4> DEFINE L == Len(old)
      <4>1. IsSeq(old)
        BY <3>1
      <4>2. IsSeq(tr) /\ Len(tr) = L + 1 /\ \A i \in 1..L : tr[i] = old[i]
        BY <4>1, Heard, ZenonT(40)
      <4>3. L = 2
        BY <3>1
      <4> HIDE DEF tr, L
      <4> QED BY <4>2, <4>3
    <3> HIDE DEF tr
    <3>3. HelloAt(tr) = 4
      BY <3>1, <3>2, Zenon DEF HelloAt
    <3>4. Hellos(tr)
      BY <3>2, <3>3 DEF Hellos
    <3> QED BY <3>4, <2>1, ZenonT(40) DEF tr, old
  <2> QED BY <2>2, <2>3, ServerFlightAwaits, ZenonT(40)
<1> HIDE DEF flight
<1>15. Turned(k, res) /\ Awaits(res)
  <2>1. \/ ~read.ok /\ res = read
        \/ read.ok /\ ~ch.ok /\ res = ch
        \/ read.ok /\ ch.ok /\ res = flight
    BY <1>10, <1>12, ZenonT(40)
  <2> HIDE DEF res
  <2> QED BY <2>1, <1>10, <1>12, <1>13, <1>14, ZenonT(40) DEF Awaits
<1> HIDE DEF res
<1> QED BY <1>1, <1>15, AwaitsTold, AdvanceTells, ZenonT(40) DEF Told

-----------------------------------------------------------------------------
(* The client's Finished *)

\* the transcript ends with a Finished over all of it, under the secret of its hellos
Proof(tr) ==
    LET n == Len(tr) IN
    /\ tr[n].type = "finished" /\ tr[n].over = Front(tr)
    /\ tr[n].key.label = "c hs" /\ tr[n].key.over = Prefix(tr, HelloAt(tr))

\* A Finished under the secret kept proves the transcript.
LEMMA FinishedProof ==
    ASSUME NEW old, IsSeq(old), NEW m, m.type = "finished", m.over = old,
           HelloSecret(m.key), Covers(old, m.key)
    PROVE  Proof(Append(old, m))
<1> DEFINE tr == Append(old, m)
           N  == Len(old)
           c  == m.key.over
           L  == Len(c)
<1>1. L \in 0..N /\ c = Prefix(old, L)
  BY Zenon DEF Covers
<1>2. m.key.label = "c hs" /\ L = HelloAt(c)
  BY ZenonT(40) DEF HelloSecret
<1>3. N \in Nat /\ Len(tr) = N + 1 /\ tr[N + 1] = m /\ \A i \in 1..N : tr[i] = old[i]
  BY Heard
<1>4. Prefix(tr, N) = old
  BY HeardCovers, ZenonT(40)
<1>5. Prefix(tr, L) = c
  <2> HIDE DEF L, c
  <2>1. Prefix(tr, L) = Prefix(old, L)
    BY <1>1, HeardPrefix, ZenonT(40)
  <2> QED BY <2>1, <1>1, ZenonT(40)
<1>6. Front(tr) = old
  <2> HIDE DEF tr, N
  <2>1. Len(tr) - 1 = N
    BY <1>3
  <2> QED BY <2>1, <1>4, ZenonT(40) DEF Front, Prefix
<1>7. L \in {2, 4}
  <2>1. HelloAt(c) \in {2, 4}
    BY DEF HelloAt
  <2> HIDE DEF L, c
  <2> QED BY <2>1, <1>2, ZenonT(40)
<1>8. HelloAt(tr) = L
  <2>1. c[1] = old[1]
    <3>1. PICK S : old \in Seq(S)
      BY DEF IsSeq
    <3>2. Prefix(old, L)[1] = old[1]
      <4> HIDE DEF L, c
      <4> QED BY <3>1, <1>1, <1>7 DEF Prefix
    <3> HIDE DEF L
    <3> QED BY <3>2, <1>1, ZenonT(40)
  <2>2. tr[1] = old[1]
    <3> HIDE DEF L, c, N, tr
    <3>1. 1 \in 1..N
      BY <1>1, <1>3, <1>7
    <3> QED BY <3>1, <1>3
  <2> HIDE DEF tr, c, L
  <2>3. HelloAt(tr) = HelloAt(c)
    BY <2>1, <2>2, ZenonT(40) DEF HelloAt
  <2> QED BY <2>3, <1>2, ZenonT(40)
<1>9. tr[Len(tr)] = m
  <2> HIDE DEF tr, N
  <2> QED BY <1>3
<1> HIDE DEF tr, N, L
<1> QED BY <1>2, <1>5, <1>6, <1>8, <1>9, ZenonT(40) DEF Proof, tr, c

\* A Finished that is read is under the client's secret and over all that was heard.
LEMMA ClientFinishedRead ==
    ASSUME NEW h, Open(h), NEW m, srv_read_client_finished(h, m).ok
    PROVE  LET g == srv_read_client_finished(h, m).h IN
           /\ m.type = "finished" /\ m.key = h.hs.c_hs /\ m.over = h.t.transcript
           /\ g.made = h.made /\ g.t.transcript = Append(h.t.transcript, m)
<1> DEFINE res == srv_read_client_finished(h, m)
           g   == Hear(h, m)
<1>1. res = IF m.type # "finished" \/ m.hash # HashOf(h.t.suite) THEN No(h, "unexpected_message")
            ELSE IF m.key # h.hs.c_hs \/ m.over # h.t.transcript THEN No(h, "decrypt_error")
            ELSE Ok(g)
  BY ZenonT(40) DEF srv_read_client_finished
<1>2. \A x, y : No(x, y).ok = FALSE /\ Ok(x).h = x
  BY DEF No, Ok
<1>3. SameBut(h, g, {"transcript"}, {}) /\ g.t.transcript = Append(h.t.transcript, m)
  BY HearFacts, ZenonT(40) DEF Open
<1> HIDE DEF g, res
<1>4. g.made = h.made
  BY <1>3 DEF SameBut, OwnFields
<1>5. res.ok
  BY DEF res
<1>6. \A x, y : res # No(x, y)
  BY <1>2, <1>5
<1>7. m.type = "finished" /\ m.key = h.hs.c_hs /\ m.over = h.t.transcript /\ res = Ok(g)
  BY <1>1, <1>6, ZenonT(40)
<1> QED BY <1>2, <1>3, <1>4, <1>7, ZenonT(40) DEF res

\* The ticket is one message, the last.
LEMMA TicketLast ==
    ASSUME NEW h, Open(h), Mute(h), OverQuic(h), NEW m, m.size = 1, srv_out_sealed(h, m).ok
    PROVE  LET g == srv_out_sealed(h, m).h IN
           /\ g.t = h.t
           /\ \A i \in 1..Len(g.made) : g.made[i].rec.outer = "application" => i = Len(g.made)
<1> DEFINE count == (m.size + TxCells - 1) \div TxCells
           Piece(i) == SubSeq(Cells(m), (i - 1) * TxCells + 1, Fewer(i * TxCells, m.size))
           recs == [i \in 1..count |-> CryptoFrames(h.hs.level, Piece(i))]
<1>1. srv_out_sealed(h, m) = Push(h, recs)
  <2>1. srv_out_limit(h) = TxCells
    BY Zenon DEF srv_out_limit
  <2> QED BY <2>1 DEF srv_out_sealed
<1>2. count = 1
  <2>1. TxCells \in Nat \ {0}
    BY TxAssumption DEF TxAssumption
  <2>2. m.size + TxCells - 1 = TxCells
    BY <2>1
  <2>3. TxCells \div TxCells = 1
    BY <2>1
  <2> QED BY <2>2, <2>3, ZenonT(40)
<1> HIDE DEF count, Piece
<1>3. Len(recs) = 1
  BY <1>2
<1> HIDE DEF recs
<1> QED BY <1>1, <1>3, PushLast, ZenonT(40)

\* The server completes on the proof.
LEMMA CompletedAwaits ==
    ASSUME NEW h, Speaker(h), Proof(h.t.transcript)
    PROVE  Awaits(Completed(h))
<1> DEFINE rd == IF OverQuic(h) THEN h.t.rd ELSE [key |-> h.t.rd_secret, seq |-> 0]
           c0 == [h EXCEPT !.t.rd = rd, !.t.buf = << >>, !.t.state = "CONNECTED"]
           c  == srv_complete(h)
           d  == Announce(c, 2, {"READ"})
           n  == [d EXCEPT !.rx_level = 2, !.step = "COMPLETE", !.hs.level = 2]
           b  == srv_send_new_session_ticket(n)
           g  == b.h
           e  == [g EXCEPT !.hs = NoHs]
           res == IF b.ok THEN Ok(e) ELSE b
           Last(x) == \A i \in 1..Len(x.made) :
                          x.made[i].rec.outer = "application" => i = Len(x.made)
<1>1. IsSession(h) /\ Open(h) /\ Mute(h)
  BY ZenonT(40) DEF Speaker, Open
<1>2. c = c0
  BY <1>1 DEF srv_complete, IsSession, TlsFields
<1> HIDE DEF rd
<1>3. /\ IsSession(c) /\ c.made = h.made /\ c.tx = h.tx
      /\ c.t.transcript = h.t.transcript /\ c.t.cfg = h.t.cfg
  <2> HIDE DEF c
  <2> QED BY <1>1, <1>2, ZenonT(40) DEF IsSession, OwnFields, TlsFields
<1> HIDE DEF c
<1>4. IsSession(d) /\ d.t = c.t /\ d.made = c.made /\ d.tx = c.tx
  BY <1>3 DEF Announce, IsSession, OwnFields
<1> HIDE DEF d
<1>5. IsSession(n) /\ n.t = d.t /\ n.step = "COMPLETE" /\ n.made = d.made /\ n.tx = d.tx
  BY <1>4 DEF IsSession, OwnFields, HsFields
<1> HIDE DEF n
<1>6. /\ Open(n) /\ Mute(n) /\ n.t.cfg = h.t.cfg /\ n.tx = h.tx
      /\ n.t.transcript = h.t.transcript
  BY <1>1, <1>3, <1>4, <1>5, MuteStays, Zenon DEF Open
<1>7. Speaker(n) /\ OverQuic(n)
  BY <1>6, SpeaksOn, ZenonT(40) DEF Speaker
<1> DEFINE Sealed == \E m : m.size = 1 /\ b = srv_out_sealed(n, m)
<1>8. b = Ok(n) \/ Sealed
  <2> DEFINE auth == AuthSeconds(n.t.psk_selected, n.hs.ticket_auth, n.t.cfg.now)
             left == LifetimeLeft(auth, n.t.cfg.now)
             psk  == Derived(n, "res")
             m == [type |-> "new_session_ticket", size |-> 1, lifetime |-> left,
                   ticket |-> [key |-> TRUE, auth |-> auth, suite |-> n.t.suite,
                               alpn |-> n.t.alpn_selected, version |-> session_quic_version(n),
                               psk |-> psk]]
  <2>1. b = IF ~tickets_on(n.t.cfg) \/ left = 0 THEN Ok(n) ELSE srv_out_sealed(n, m)
    BY ZenonT(40) DEF srv_send_new_session_ticket
  <2> HIDE DEF auth, left, psk
  <2>2. m.size = 1
    OBVIOUS
  <2> HIDE DEF m, b
  <2> QED BY <2>1, <2>2, ZenonT(40)
<1>9. b.ok => g.t = n.t /\ Last(g)
  <2>1. CASE b = Ok(n)
    <3>1. g = n
      BY <2>1 DEF Ok
    <3>2. Last(n)
      BY <1>6, ZenonT(40) DEF Mute
    <3> HIDE DEF g, Last
    <3> QED BY <3>1, <3>2, ZenonT(40)
  <2>2. CASE Sealed
    <3>1. PICK m : m.size = 1 /\ b = srv_out_sealed(n, m)
      BY <2>2
    <3> HIDE DEF b
    <3> QED BY <3>1, <1>6, <1>7, TicketLast, ZenonT(40)
  <2> QED BY <1>8, <2>1, <2>2, ZenonT(40)
<1>10. Answers(n, b)
  <2>1. \A m : Answers(n, srv_out_sealed(n, m))
    BY <1>6, SendsOut
  <2>2. Answers(n, Ok(n))
    BY <1>6, StaysQuiet, Accepts, ZenonT(40) DEF Open
  <2> QED BY <2>1, <2>2, ZenonT(40) DEF srv_send_new_session_ticket
<1> HIDE DEF b, g
<1>11. IsSession(g) /\ g.tx = n.tx /\ g.step = n.step
  BY <1>10, QuietSpeaker, ZenonT(40) DEF Answers, Quiet, g
<1>12. e.t = g.t /\ e.made = g.made /\ e.tx = g.tx /\ e.step = g.step
  BY <1>11 DEF IsSession, OwnFields
<1> HIDE DEF e
<1>13. ASSUME b.ok PROVE e.t.cfg.role = "server" /\ ServerStory(e)
  <2>1. e.t.transcript = h.t.transcript /\ e.t.cfg = h.t.cfg /\ e.tx = h.tx /\ e.step = "COMPLETE"
    BY <1>5, <1>6, <1>9, <1>11, <1>12, <1>13, ZenonT(40)
  <2>2. OverQuic(e) /\ e.t.cfg.chain \in Nat /\ e.tx = << >> /\ e.t.cfg.role = "server"
    BY <2>1, ZenonT(40) DEF Speaker, OverQuic
  <2>3. FinishedProved(e)
    <3>1. Last(e)
      BY <1>9, <1>12, <1>13, ZenonT(40)
    <3>2. Proof(e.t.transcript)
      BY <2>1, ZenonT(40)
    <3> QED BY <3>1, <3>2, ZenonT(40) DEF FinishedProved, Proof
  <2>4. /\ e.step # "AWAIT_CLIENT_HELLO" /\ e.step # "AWAIT_RETRY_HELLO"
        /\ e.step # "AWAIT_CLIENT_FINISHED"
        /\ e.step \in {"AWAIT_CLIENT_HELLO", "AWAIT_RETRY_HELLO", "AWAIT_CLIENT_FINISHED",
                       "COMPLETE"}
    BY <2>1
  <2> QED BY <2>1, <2>2, <2>3, <2>4, ZenonT(40) DEF ServerStory
<1>14. Awaits(res)
  <2>1. Ok(e).h = e
    BY DEF Ok
  <2> QED BY <2>1, <1>13, ZenonT(40) DEF Awaits
<1> QED BY <1>14, ZenonT(40) DEF Completed, Then, c, d, n, b, g, e

\* step_client_finished keeps the story.
LEMMA ClientFinishedTells ==
    ASSUME Turn, Story, NEW room, step_client_finished(room)
    PROVE  Story'
<1> DEFINE k   == Taken(q)
           m   == NextMsg(q)
           h0  == [k EXCEPT !.room = room]
           a   == srv_read_client_finished(h0, m)
           g   == a.h
           bad == [ok |-> FALSE, h |-> quic_refuse_unread(g)]
           res == IF a.ok THEN IF g.t.buf = << >> THEN Completed(g) ELSE bad ELSE a
<1>1. q.step = "AWAIT_CLIENT_FINISHED" /\ q.t.cfg.role = "server"
  BY Zenon DEF step_client_finished, At
<1>2. Advance(res)
  BY ZenonT(40) DEF step_client_finished, Then
<1>3. /\ Open(k) /\ Alive(k) /\ k.step = q.step /\ k.t.cfg = q.t.cfg
      /\ k.ready \subseteq Levels \X Dirs
  BY TakesMessage DEF OwnFields, TlsFields
<1>4. /\ k.step = "AWAIT_CLIENT_FINISHED" /\ k.t.cfg.role = "server" /\ k.step # "COMPLETE"
  BY <1>1, <1>3
<1>5. WriteBits(k) /\ ReadBits(k) /\ AppKeys(k)
  BY <1>3, <1>4 DEF Alive, HelloSteps, FlightSteps
<1>6. Tells(k)
  BY TurnTells, ZenonT(40)
<1> HIDE DEF k, m
<1>7. Speaker(k) /\ HelloSecret(k.hs.c_hs) /\ Covers(k.t.transcript, k.hs.c_hs)
  BY <1>3, <1>4, <1>6, SpeakerStory, ZenonT(40) DEF ServerStory, HelloSecret
<1>8. Quiet(k, h0) /\ Grows(k, h0) /\ Open(h0) /\ Hushed(k, h0) /\ h0.hs = k.hs
  <2>1. Hushed(k, h0) /\ h0.hs = k.hs
    BY <1>3 DEF Hushed, Open, IsSession, OwnFields
  <2> QED BY <2>1, <1>3, EarlyRoom
<1> HIDE DEF h0
<1>9. Answers(h0, a)
  BY <1>8, ReadsClientFinished, ZenonT(40)
<1>10. a.ok => /\ m.type = "finished" /\ m.key = h0.hs.c_hs /\ m.over = h0.t.transcript
               /\ g.made = h0.made /\ g.t.transcript = Append(h0.t.transcript, m)
  BY <1>8, ClientFinishedRead, ZenonT(40)
<1> HIDE DEF a
<1>11. Quiet(k, g) /\ Grows(k, g) /\ Open(g) /\ a.ok \in BOOLEAN
  BY <1>8, <1>9, AnswersOpen, QuietThen, GrowsThen, Zenon DEF Answers
<1> HIDE DEF g
<1>12. CASE ~a.ok
  <2>1. Told(res)
    <3>1. res = a
      BY <1>12, ZenonT(40)
    <3> HIDE DEF res
    <3> QED BY <3>1, <1>11, <1>12, ZenonT(40) DEF Told, Open, g
  <2> HIDE DEF res
  <2> QED BY <1>2, <2>1, AdvanceTells, ZenonT(40) DEF Told
<1>13. CASE a.ok /\ g.t.buf = << >>
  <2>1. /\ g.made = k.made /\ g.t.transcript = Append(k.t.transcript, m)
        /\ m.type = "finished" /\ m.key = k.hs.c_hs /\ m.over = k.t.transcript
    BY <1>8, <1>10, <1>13, ZenonT(40) DEF Hushed
  <2>2. Proof(g.t.transcript)
    BY <2>1, <1>3, <1>7, FinishedProof, ZenonT(40) DEF Open
  <2>3. Speaker(g)
    <3>1. g.t.cfg = k.t.cfg /\ g.tx = k.tx /\ Mute(g)
      BY <2>1, <1>7, <1>11, QuietSpeaker, MuteStays, ZenonT(40) DEF Speaker
    <3> QED BY <3>1, <1>7, <1>11, SpeaksOn, ZenonT(40)
  <2>4. Awaits(Completed(g))
    BY <2>2, <2>3, CompletedAwaits, ZenonT(40)
  <2>5. Turned(k, Completed(g))
    <3>1. SameKeys(k, g) /\ g.ready = k.ready /\ g.t.buf = k.t.buf
      <4>1. SameKeys(k, g)
        BY <1>11, QuietKeys, ZenonT(40)
      <4>2. g.ready = k.ready /\ g.t.buf = k.t.buf
        BY <1>11 DEF Quiet, KeptOwn, OwnFields, KeptTls
      <4> QED BY <4>1, <4>2
    <3>2. /\ WriteBits(g) /\ ReadBits(g) /\ AppKeys(g)
          /\ g.ready \subseteq Levels \X Dirs /\ k.t.buf = << >>
      BY <3>1, <1>3, <1>5, <1>13, KeysStay, ZenonT(40)
    <3> QED BY <3>2, <1>11, <1>13, CompletedTurns, ZenonT(40)
  <2>6. res = Completed(g)
    BY <1>13, ZenonT(40)
  <2> HIDE DEF res
  <2> QED BY <2>4, <2>5, <2>6, <1>2, AwaitsTold, AdvanceTells, ZenonT(40) DEF Told
<1>14. CASE a.ok /\ g.t.buf # << >>
  <2>1. IsSession(quic_refuse_unread(g))
    BY <1>11, StillSession, ZenonT(40) DEF Open
  <2>2. res = bad
    BY <1>14, ZenonT(40)
  <2>3. bad.ok = FALSE /\ bad.h = quic_refuse_unread(g)
    OBVIOUS
  <2> HIDE DEF res, bad
  <2>4. Told(res)
    BY <2>1, <2>2, <2>3, ZenonT(40) DEF Told
  <2> QED BY <1>2, <2>4, AdvanceTells, Zenon DEF Told
<1> QED BY <1>11, <1>12, <1>13, <1>14, ZenonT(40)

-----------------------------------------------------------------------------
(* What follows for the story *)

\* Every call and every delivery goes on with the story.
LEMMA NextTells ==
    ASSUME IInv, Story, [Next]_vars
    PROVE  Story'
<1>0. ASSUME NEW role, NEW steps, At(role, steps) PROVE Turn
  BY <1>0 DEF At, Turn, IInv
<1>1. CASE PeerCrypto \/ PeerStray \/ drive_done \/ drive_oversize
  BY <1>1, DeliveryTells
<1>2. CASE step_server_hello
  BY <1>0, <1>2, ServerHelloTells, ZenonT(40) DEF step_server_hello
<1>3. CASE step_encrypted_extensions \/ step_certificate \/ step_certificate_verify
  <2>1. Turn
    BY <1>0, <1>3, ZenonT(40)
       DEF step_encrypted_extensions, step_certificate, step_certificate_verify
  <2> QED BY <1>3, <2>1, FlightTells
<1>4. CASE \E failed \in BOOLEAN : step_finished(failed)
  <2>1. PICK failed \in BOOLEAN : step_finished(failed)
    BY <1>4
  <2>2. Turn
    BY <1>0, <2>1, ZenonT(40) DEF step_finished
  <2> QED BY <2>1, <2>2, FinishedTells, ZenonT(40)
<1>5. CASE step_complete \/ advance_complete
  <2>1. Turn
    BY <1>0, <1>5, ZenonT(40) DEF step_complete, advance_complete
  <2> QED BY <1>5, <2>1, AfterTells
<1>6. CASE \E room \in Rooms, signs \in BOOLEAN, version \in 0..3 :
               step_client_hello(room, signs, version)
  <2>1. PICK room \in Rooms, signs \in BOOLEAN, version \in 0..3 :
               step_client_hello(room, signs, version)
    BY <1>6, ZenonT(40)
  <2>2. Turn
    BY <1>0, <2>1, ZenonT(40) DEF step_client_hello
  <2> QED BY <2>1, <2>2, ClientHelloTells, ZenonT(40)
<1>7. CASE \E room \in Rooms, signs \in BOOLEAN : step_retry_hello(room, signs)
  BY <1>0, <1>7, RetryHelloTells, ZenonT(40) DEF step_retry_hello
<1>8. CASE \E room \in Rooms : step_client_finished(room)
  BY <1>0, <1>8, ClientFinishedTells, ZenonT(40) DEF step_client_finished
<1>9. CASE \E level \in Levels : crypto_out(level)
  BY <1>9, OutTells, ZenonT(40)
<1>10. CASE \/ \E level \in Levels : discard(level)
            \/ \E level \in Levels, version \in Versions :
                  \/ quic_seal(level, version) \/ seal_close(level, version)
                  \/ quic_open(level, version)
            \/ \E version \in Versions : switch_version(version)
            \/ initial_keys \/ key_update \/ drop_previous_keys \/ close
  BY <1>10, CallTells, ZenonT(40)
<1>11. CASE UNCHANGED vars
  <2>1. q' = q
    BY <1>11 DEF vars
  <2> QED BY <2>1, ZenonT(40) DEF Story
<1> QED
  BY <1>1, <1>2, <1>3, <1>4, <1>5, <1>6, <1>7, <1>8, <1>9, <1>10, <1>11, ZenonT(40) DEF Next

\* The endpoint's steps are those of a handshake: what it has heard and what it
\* has handed over are the ones its step stands for.
THEOREM StoryInvariant == Spec => []Story
<1>1. Init => Story
  BY InitTells
<1>2. IInv /\ Story /\ [Next]_vars => Story'
  BY NextTells
<1> QED BY <1>1, <1>2, EndpointInvariant, PTL DEF Spec

\* A client is CONNECTED only on a flight RFC 9846 allows, with every message of its
\* own handed over once and at its level; a server only on a client Finished over the
\* whole flight; and neither reads a 1-RTT packet before its handshake is over
\* (ch_quic_crypto_in, ch_quic_crypto_out, ch_srv_quic_crypto_in).
THEOREM ConnectedStaysProved == Spec => []ConnectedIsProved
<1>1. IInv /\ Story => ConnectedIsProved
  <2> SUFFICES ASSUME IInv, Story PROVE ConnectedIsProved
    OBVIOUS
  <2>1. ASSUME ~session_dead(q), q.t.state = "CONNECTED" \/ Ready(q, 2, "READ")
        PROVE  q.step = "COMPLETE" /\ q.hs = NoHs
    <3>1. Alive(q)
      BY <2>1, ZenonT(40) DEF IInv
    <3>2. q.t.state = "CONNECTED" => q.step = "COMPLETE"
      BY <3>1 DEF Alive
    <3>3. Ready(q, 2, "READ") => q.step = "COMPLETE"
      <4>1. ~(q.ready \subseteq {0} \X {"READ", "WRITE"}) \/ ~Ready(q, 2, "READ")
        BY DEF Ready
      <4>2. ~(q.ready \subseteq {0, 1} \X {"READ", "WRITE"}) \/ ~Ready(q, 2, "READ")
        BY DEF Ready
      <4> QED BY <3>1, <4>1, <4>2, ZenonT(40) DEF Alive
    <3>4. q.step = "COMPLETE"
      BY <2>1, <3>2, <3>3
    <3>5. q.step \notin HelloSteps /\ q.step \notin FlightSteps /\ q.step # "AWAIT_CLIENT_FINISHED"
      BY <3>4 DEF HelloSteps, FlightSteps
    <3> QED BY <3>1, <3>4, <3>5, ZenonT(40) DEF Alive
  <2>2. ASSUME q.t.state = "CONNECTED"
        PROVE  IF IsServer THEN FinishedProved(q) ELSE LegalFlight(q) /\ HandedOver(q)
    <3>1. ~session_dead(q)
      BY <2>2 DEF session_dead
    <3>2. q.step = "COMPLETE" /\ Tells(q)
      BY <2>1, <2>2, <3>1, ZenonT(40) DEF Story
    <3>3. CASE IsServer
      BY <3>2, <3>3, ZenonT(40) DEF IsServer, Tells, ServerStory
    <3>4. CASE ~IsServer
      <4>1. q.t.state # "START" /\ ClientStory(q)
        BY <2>2, <3>2, <3>4 DEF IsServer, Tells
      <4>2. /\ LegalFlight(q)
            /\ q.made = Append(HelloRecords(q.t.transcript),
                               Out(1, q.t.transcript[Len(q.t.transcript)]))
        BY <3>2, <4>1, ZenonT(40) DEF ClientStory
      <4> QED BY <3>4, <4>2, AllHandedOver, ZenonT(40)
    <3> QED BY <3>3, <3>4
  <2> QED BY <2>1, <2>2, ZenonT(40) DEF ConnectedIsProved
<1> QED BY <1>1, EndpointInvariant, StoryInvariant, PTL

=============================================================================
