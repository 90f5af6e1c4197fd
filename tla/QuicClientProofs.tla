-------------------------- MODULE QuicClientProofs --------------------------
(***************************************************************************)
(* The handshake of a QUIC client: each of its steps keeps IInv and tells  *)
(* Story on.  What one step's proof alone needs of the handlers is stated  *)
(* and proved inside it.  After it come the handlers of a server and what  *)
(* a whole flight of them does to the keys.                                *)
(***************************************************************************)
EXTENDS QuicEndpointProofs

-----------------------------------------------------------------------------
(* The steps of a client and the keys *)

\* The server's Finished is heard or refused.
LEMMA ReadsFinished ==
    ASSUME NEW h, Open(h), NEW m
    PROVE  Answers(h, hsf_read_finished(h, m))
<1> DEFINE g   == [h EXCEPT !.hs.server_finished_ok = TRUE]
           res == hsf_read_finished(h, m)
<1>1. \/ res = No(h, "handshake_failure") \/ res = No(h, "unexpected_message")
      \/ res = No(h, "decrypt_error") \/ res = Ok(Hear(g, m))
  BY Zenon DEF hsf_read_finished
<1>2. Quiet(h, g) /\ Grows(h, g) /\ Open(g)
  <2>1. /\ IsSession(g) /\ g.t.transcript = h.t.transcript
        /\ \A f \in KeptOwn : g[f] = h[f]
        /\ \A f \in KeptTls : g.t[f] = h.t[f]
        /\ \A f \in KeptHs : g.hs[f] = h.hs[f]
    BY DEF Open, IsSession, OwnFields, HsFields, KeptOwn, KeptHs
  <2> HIDE DEF g
  <2> QED BY <2>1, Touches
<1> HIDE DEF g, res
<1>3. Answers(h, Ok(Hear(g, m)))
  <2>1. Quiet(g, Hear(g, m)) /\ Grows(g, Hear(g, m))
    BY <1>2, Hears
  <2> QED BY <2>1, <1>2, QuietThen, GrowsThen, Accepts, Zenon
<1>4. /\ Answers(h, No(h, "handshake_failure")) /\ Answers(h, No(h, "unexpected_message"))
      /\ Answers(h, No(h, "decrypt_error"))
  BY Refuses
<1> QED BY <1>1, <1>3, <1>4, Zenon DEF res

\* Each message of the flight before the Finished keeps the invariant.
LEMMA FlightKeeps ==
    ASSUME IInv,
           step_encrypted_extensions \/ step_certificate \/ step_certificate_verify
    PROVE  IInv'
\* The EncryptedExtensions are heard or refused.
<1>ReadsExtensions.
    ASSUME NEW h, Open(h), NEW m
    PROVE  Answers(h, hsf_read_encrypted_extensions(h, m))
  <2> USE <1>ReadsExtensions
  <2> DEFINE alert == hsp_parse_encrypted_exts(h.t.cfg, m.exts)
             alpn  == IF Carries(m.exts, "alpn") THEN "alpn" ELSE h.t.alpn_selected
             g     == [h EXCEPT !.hs.alert = "illegal_parameter", !.t.alpn_selected = alpn]
             res   == hsf_read_encrypted_extensions(h, m)
  <2>1. \/ res = No(h, "unexpected_message") \/ res = No(h, "illegal_parameter")
        \/ alert # "none" /\ res = No(h, alert)
        \/ res = No(h, "no_application_protocol") \/ res = Ok(Hear(g, m))
    <3>1. res = IF m.type # "encrypted_extensions" THEN No(h, "unexpected_message")
                ELSE IF m.malformed THEN No(h, "illegal_parameter")
                ELSE IF alert # "none" THEN No(h, alert)
                ELSE IF h.t.cfg.quic /\ ~Carries(m.exts, "alpn")
                     THEN No(h, "no_application_protocol")
                ELSE Ok(Hear(g, m))
      BY DEF hsf_read_encrypted_extensions
    <3> HIDE DEF alert, g, res
    <3> QED BY <3>1, Zenon
  <2>2. Quiet(h, g) /\ Grows(h, g) /\ Open(g)
    <3> HIDE DEF alpn
    <3>1. /\ IsSession(g) /\ g.t.transcript = h.t.transcript
          /\ \A f \in KeptOwn : g[f] = h[f]
          /\ \A f \in KeptTls : g.t[f] = h.t[f]
          /\ \A f \in KeptHs : g.hs[f] = h.hs[f]
      BY ZenonT(40) DEF Open, IsSession, OwnFields, TlsFields, HsFields, KeptOwn, KeptTls, KeptHs
    <3> HIDE DEF g
    <3> QED BY <3>1, Touches
  <2> HIDE DEF g, res, alert
  <2>3. Answers(h, Ok(Hear(g, m)))
    <3>1. Quiet(g, Hear(g, m)) /\ Grows(g, Hear(g, m))
      BY <2>2, Hears
    <3> QED BY <3>1, <2>2, QuietThen, GrowsThen, Accepts, Zenon
  <2>4. /\ Answers(h, No(h, "unexpected_message")) /\ Answers(h, No(h, "illegal_parameter"))
        /\ Answers(h, No(h, "no_application_protocol"))
        /\ alert # "none" => Answers(h, No(h, alert))
    BY Refuses
  <2> QED BY <2>1, <2>3, <2>4, Zenon DEF res
\* The leaf's epoch is judged.
<1>ChecksEpoch.
    ASSUME NEW h, Open(h)
    PROVE  Answers(h, epoch_check(h))
  <2> USE <1>ChecksEpoch
  <2> DEFINE leaf   == h.hs.leaf
             status == EpochStatus(h, leaf)
             epoch  == IF leaf.epoch_ok THEN leaf.epoch ELSE 0
             seen   == [h EXCEPT !.t.epoch_seen = epoch, !.t.epoch_status = status]
             res    == epoch_check(h)
  <2>1. \/ res = Ok(h) \/ res = No(seen, "bad_certificate")
        \/ res = No(seen, "certificate_revoked") \/ res = Ok(seen)
    <3>1. res = IF ~EpochChecked(h) THEN Ok(h)
                ELSE CASE status = "UNTRUSTED" -> No(seen, "bad_certificate")
                       [] status = "REVOKED"   -> No(seen, "certificate_revoked")
                       [] OTHER                -> Ok(seen)
      BY DEF epoch_check
    <3> HIDE DEF seen, status, res
    <3> QED BY <3>1
  <2>2. Quiet(h, seen) /\ Grows(h, seen) /\ Open(seen)
    <3> HIDE DEF status, epoch
    <3>1. /\ IsSession(seen) /\ seen.t.transcript = h.t.transcript
          /\ \A f \in KeptOwn : seen[f] = h[f]
          /\ \A f \in KeptTls : seen.t[f] = h.t[f]
          /\ \A f \in KeptHs : seen.hs[f] = h.hs[f]
      BY Zenon DEF Open, IsSession, OwnFields, TlsFields, HsFields, KeptOwn, KeptTls, KeptHs
    <3> HIDE DEF seen
    <3> QED BY <3>1, Touches
  <2> HIDE DEF seen, res
  <2>3. Answers(h, Ok(h)) /\ Answers(h, Ok(seen))
    <3>1. Quiet(h, h) /\ Grows(h, h)
      BY StaysQuiet, Zenon DEF Open
    <3> QED BY <3>1, <2>2, Accepts
  <2>4. Answers(h, No(seen, "bad_certificate")) /\ Answers(h, No(seen, "certificate_revoked"))
    BY <2>2, Refuses, AnswersThen
  <2> QED BY <2>1, <2>3, <2>4, Zenon DEF res
\* The Certificate is heard or refused.
<1>ReadsCertificate.
    ASSUME NEW h, Open(h), NEW m
    PROVE  Answers(h, hsa_server_auth(h, m))
  <2> USE <1>ReadsCertificate
  <2> DEFINE raw    == h.t.cfg.trust = "raw"
             alert  == IF raw THEN "decode_error" ELSE "bad_certificate"
             leaf   == IF raw THEN h.hs.leaf
                       ELSE [set |-> TRUE, epoch |-> m.epoch,
                             epoch_ok |-> m.epoch_ok /\ m.epoch \in Nat]
             filled == [h EXCEPT !.hs.alert = alert, !.hs.leaf = leaf]
             judged == epoch_check(filled)
             res    == hsa_server_auth(h, m)
  <2>1. \/ res = No(h, "handshake_failure") \/ res = No(h, "unexpected_message")
        \/ m.malformed # "none" /\ res = No(h, m.malformed)
        \/ m.verdict # "none" /\ res = No(h, m.verdict)
        \/ judged.ok /\ res = Ok(Hear(judged.h, m))
        \/ res = judged
    <3>1. res = IF m.type = "certificate_request" THEN No(h, "handshake_failure")
                ELSE IF m.type # "certificate" THEN No(h, "unexpected_message")
                ELSE IF m.malformed # "none" THEN No(h, m.malformed)
                ELSE IF ~raw /\ m.verdict # "none" THEN No(h, m.verdict)
                ELSE IF judged.ok THEN Ok(Hear(judged.h, m)) ELSE judged
      BY DEF hsa_server_auth
    <3> HIDE DEF judged, raw, res
    <3> QED BY <3>1, Zenon
  <2>2. Quiet(h, filled) /\ Grows(h, filled) /\ Open(filled)
    <3> HIDE DEF alert, leaf
    <3>1. /\ IsSession(filled) /\ filled.t.transcript = h.t.transcript
          /\ \A f \in KeptOwn : filled[f] = h[f]
          /\ \A f \in KeptTls : filled.t[f] = h.t[f]
          /\ \A f \in KeptHs : filled.hs[f] = h.hs[f]
      BY Zenon DEF Open, IsSession, OwnFields, HsFields, KeptOwn, KeptHs
    <3> HIDE DEF filled
    <3> QED BY <3>1, Touches
  <2> HIDE DEF filled, res
  <2>3. Answers(filled, judged)
    BY <2>2, <1>ChecksEpoch
  <2> HIDE DEF judged
  <2>4. Answers(h, judged) /\ Open(judged.h) /\ Quiet(h, judged.h) /\ Grows(h, judged.h)
    <3>1. Answers(h, judged)
      BY <2>2, <2>3, AnswersThen
    <3> QED BY <3>1, AnswersOpen, Zenon DEF Answers
  <2>5. Answers(h, Ok(Hear(judged.h, m)))
    <3>1. Quiet(judged.h, Hear(judged.h, m)) /\ Grows(judged.h, Hear(judged.h, m))
      BY <2>4, Hears
    <3> QED BY <3>1, <2>4, QuietThen, GrowsThen, Accepts, ZenonT(40)
  <2>6. /\ Answers(h, No(h, "handshake_failure")) /\ Answers(h, No(h, "unexpected_message"))
        /\ m.malformed # "none" => Answers(h, No(h, m.malformed))
        /\ m.verdict # "none" => Answers(h, No(h, m.verdict))
    BY Refuses
  <2> QED BY <2>1, <2>4, <2>5, <2>6, ZenonT(40) DEF res
\* The CertificateVerify is heard or refused.
<1>ReadsVerify.
    ASSUME NEW h, Open(h), NEW m
    PROVE  Answers(h, hsa_read_certificate_verify(h, m))
  <2> USE <1>ReadsVerify
  <2> DEFINE g   == [h EXCEPT !.hs.alert = "decode_error"]
             res == hsa_read_certificate_verify(h, m)
  <2>1. \/ res = No(h, "handshake_failure") \/ res = No(h, "unexpected_message")
        \/ res = No(h, "decode_error") \/ res = No(h, "illegal_parameter")
        \/ res = No(h, "decrypt_error") \/ res = Ok(Hear(g, m))
    <3> HIDE DEF g
    <3> QED BY Zenon DEF hsa_read_certificate_verify, g
  <2>2. Quiet(h, g) /\ Grows(h, g) /\ Open(g)
    <3>1. Answers(h, No(h, "decode_error")) /\ No(h, "decode_error").h = g
      BY Refuses DEF No
    <3> QED BY <3>1, AnswersOpen, ZenonT(40) DEF Answers
  <2> HIDE DEF g, res
  <2>3. Answers(h, Ok(Hear(g, m)))
    <3>1. Quiet(g, Hear(g, m)) /\ Grows(g, Hear(g, m))
      BY <2>2, Hears
    <3> QED BY <3>1, <2>2, QuietThen, GrowsThen, Accepts, Zenon
  <2>4. /\ Answers(h, No(h, "handshake_failure")) /\ Answers(h, No(h, "unexpected_message"))
        /\ Answers(h, No(h, "decode_error")) /\ Answers(h, No(h, "illegal_parameter"))
        /\ Answers(h, No(h, "decrypt_error"))
    BY Refuses
  <2> QED BY <2>1, <2>3, <2>4, Zenon DEF res
\* An answer within the flight keeps the invariant.
<1>AnswerKeeps.
    ASSUME Turn, q.step \in FlightSteps, NEW a, Answers(Taken(q), a), NEW step \in FlightSteps,
           Advance(Goto(a, step))
    PROVE  IInv'
  <2> USE <1>AnswerKeeps
  <2> DEFINE k   == Taken(q)
             res == Goto(a, step)
             g   == a.h
             n   == [g EXCEPT !.step = step]
  <2>1. /\ Open(k) /\ Alive(k) /\ k.ready \subseteq Levels \X Dirs
        /\ k.step = q.step
    BY TakesMessage DEF OwnFields
  <2> HIDE DEF k
  <2>2. /\ Quiet(k, g) /\ Grows(k, g) /\ Open(g) /\ a.ok \in BOOLEAN
        /\ ~a.ok => g.hs.alert # "none"
    BY AnswersOpen, Zenon DEF Answers, k
  <2>3. SameKeys(k, g)
    BY <2>2, QuietKeys
  <2>4. /\ g.ready = k.ready /\ g.key_phase = k.key_phase /\ g.app_rx = k.app_rx
        /\ g.t.state = k.t.state /\ g.hs.handshake_secret = k.hs.handshake_secret
        /\ g.t.buf = k.t.buf
    BY <2>2 DEF Quiet, KeptOwn, OwnFields, KeptTls, KeptHs
  <2>5. WriteBits(g) /\ ReadBits(g)
    BY <2>1, <2>3, KeysStay, Zenon DEF Alive
  <2>6. CASE ~a.ok
    <3>1. res = a
      BY <2>6, Zenon DEF Goto
    <3> HIDE DEF res
    <3> QED BY <3>1, <2>1, <2>2, <2>4, <2>5, <2>6, AdvanceKeeps, ZenonT(30) DEF res
  <2>7. CASE a.ok
    <3>1. res.ok = TRUE /\ res.h = n
      BY <2>7 DEF Goto, Ok
    <3> HIDE DEF res, g
    <3>2. /\ IsSession(n) /\ n.t = g.t /\ n.hs = g.hs /\ n.step = step
          /\ \A f \in KeyFields : n[f] = g[f]
      BY <2>2 DEF Open, IsSession, OwnFields, KeyFields, ReadFields, WriteFields
    <3> HIDE DEF n
    <3>3. SameKeys(g, n) /\ Open(n)
      BY <3>2, <2>2, EditKeys, Zenon
    <3>4. WriteBits(n) /\ ReadBits(n)
      BY <3>3, <2>5, KeysStay, Zenon
    <3>5. n.ready = g.ready /\ n.key_phase = g.key_phase /\ n.app_rx = g.app_rx
      BY <3>2 DEF KeyFields, ReadFields
    <3>6. /\ k.t.state = "START" /\ k.key_phase = 0 /\ DOMAIN k.app_rx = KeySets
          /\ k.ready \subseteq {0, 1} \X {"READ", "WRITE"}
          /\ IsSecret(k.hs.handshake_secret) /\ k.hs.handshake_secret.ku = 0
      BY <2>1 DEF Alive, FlightSteps, HelloSteps
    <3>7. Alive(n)
      BY <3>2, <3>4, <3>5, <3>6, <2>4 DEF Alive
    <3>8. n.ready \subseteq Levels \X Dirs /\ n.t.buf = k.t.buf
      BY <3>2, <3>5, <2>1, <2>4
    <3> QED BY <3>1, <3>3, <3>4, <3>7, <3>8, AdvanceKeeps, ZenonT(30) DEF res, k
  <2> QED BY <2>2, <2>6, <2>7, ZenonT(40)
<1> DEFINE k == Taken(q)
           m == NextMsg(q)
<1>1. CASE step_encrypted_extensions
  <2>1. Turn /\ q.step \in FlightSteps
    BY <1>1 DEF step_encrypted_extensions, At, Turn, FlightSteps, IInv
  <2>2. PICK step \in FlightSteps : Advance(Goto(hsf_read_encrypted_extensions(k, m), step))
    BY <1>1 DEF step_encrypted_extensions, FlightSteps
  <2>3. Answers(k, hsf_read_encrypted_extensions(k, m))
    BY <2>1, TakesMessage, <1>ReadsExtensions, ZenonT(40)
  <2> QED BY <2>1, <2>2, <2>3, <1>AnswerKeeps, ZenonT(40)
<1>2. CASE step_certificate
  <2>1. Turn /\ q.step \in FlightSteps
    BY <1>2 DEF step_certificate, At, Turn, FlightSteps, IInv
  <2>2. PICK step \in FlightSteps : Advance(Goto(hsa_server_auth(k, m), step))
    BY <1>2, SMTT(30) DEF step_certificate, FlightSteps
  <2>3. Answers(k, hsa_server_auth(k, m))
    BY <2>1, TakesMessage, <1>ReadsCertificate, Zenon
  <2> QED BY <2>1, <2>2, <2>3, <1>AnswerKeeps, Zenon
<1>3. CASE step_certificate_verify
  <2>1. Turn /\ q.step \in FlightSteps
    BY <1>3 DEF step_certificate_verify, At, Turn, FlightSteps, IInv
  <2>2. PICK step \in FlightSteps : Advance(Goto(hsa_read_certificate_verify(k, m), step))
    BY <1>3 DEF step_certificate_verify, FlightSteps
  <2>3. Answers(k, hsa_read_certificate_verify(k, m))
    BY <2>1, TakesMessage, <1>ReadsVerify, Zenon
  <2> QED BY <2>1, <2>2, <2>3, <1>AnswerKeeps, Zenon
<1> QED BY <1>1, <1>2, <1>3

\* The ServerHello keeps the invariant.
LEMMA HelloKeeps ==
    ASSUME IInv, step_server_hello
    PROVE  IInv'
\* The ServerHello is accepted or refused.
<1>AcceptsHello.
    ASSUME NEW h, Open(h), NEW m
    PROVE  Answers(h, hsf_accept_server_hello(h, m))
  <2> USE <1>AcceptsHello
  <2> DEFINE g    == [h EXCEPT !.t.group = m.group, !.t.suite = m.suite]
             took == PskOffered(h) /\ m.psk = "zero"
             left == PskOffered(h) /\ m.psk # "zero"
             d    == IF ~PskOffered(h) THEN [g EXCEPT !.hs.early = "nopsk"]
                     ELSE IF left THEN decline_psk(g) ELSE g
             s    == [d EXCEPT !.t.psk_selected = took]
             res  == hsf_accept_server_hello(h, m)
  <2>1. Quiet(h, g) /\ Grows(h, g) /\ Open(g)
    <3>1. /\ IsSession(g) /\ g.t.transcript = h.t.transcript
          /\ \A f \in KeptOwn : g[f] = h[f]
          /\ \A f \in KeptTls : g.t[f] = h.t[f]
          /\ \A f \in KeptHs : g.hs[f] = h.hs[f]
      BY Zenon DEF Open, IsSession, OwnFields, TlsFields, KeptOwn, KeptTls
    <3> HIDE DEF g
    <3> QED BY <3>1, Touches
  <2>2. Quiet(g, d) /\ Grows(g, d) /\ Open(d)
    <3>1. d = g \/ d = [g EXCEPT !.hs.early = "nopsk"]
      BY DEF decline_psk
    <3> HIDE DEF g, d
    <3>2. /\ IsSession(d) /\ d.t.transcript = g.t.transcript
          /\ \A f \in KeptOwn : d[f] = g[f]
          /\ \A f \in KeptTls : d.t[f] = g.t[f]
          /\ \A f \in KeptHs : d.hs[f] = g.hs[f]
      BY <3>1, <2>1 DEF Open, IsSession, OwnFields, HsFields, KeptOwn, KeptHs
    <3> QED BY <3>2, <2>1, Touches
  <2>3. Quiet(d, s) /\ Grows(d, s) /\ Open(s)
    <3> HIDE DEF g, d, took
    <3>2. /\ IsSession(s) /\ s.t.transcript = d.t.transcript
          /\ \A f \in KeptOwn : s[f] = d[f]
          /\ \A f \in KeptTls : s.t[f] = d.t[f]
          /\ \A f \in KeptHs : s.hs[f] = d.hs[f]
      BY <2>2 DEF Open, IsSession, OwnFields, TlsFields, KeptOwn, KeptTls
    <3> HIDE DEF s
    <3> QED BY <3>2, <2>2, Touches
  <2>4. res \in {No(g, "handshake_failure"), No(g, "illegal_parameter"),
                 No(d, "illegal_parameter"), No(s, "illegal_parameter"), Ok(s)}
    <3> HIDE DEF d, g, s, took, left
    <3>1. res = IF m.group = "none" THEN No(g, "handshake_failure")
          ELSE IF ~selected_group_ok(h, m.group) THEN No(g, "illegal_parameter")
          ELSE IF left /\ h.t.cfg.trust # "webpki" THEN No(g, "handshake_failure")
          ELSE IF left /\ m.psk # "none" THEN No(g, "illegal_parameter")
          ELSE IF took /\ h.t.cfg.psk # HashOf(m.suite) THEN No(d, "illegal_parameter")
          ELSE IF TwoGroups(h.t.cfg) /\ h.t.cfg.require_pq /\ m.group # "hybrid"
               THEN No(s, "illegal_parameter")
               ELSE Ok(s)
      BY Zenon DEF hsf_accept_server_hello, d, g, s, took, left
    <3> HIDE DEF res
    <3> QED BY <3>1, Zenon
  <2> HIDE DEF g, d, s, res, took, left
  <2>5. Quiet(h, d) /\ Grows(h, d) /\ Quiet(h, s) /\ Grows(h, s)
    BY <2>1, <2>2, <2>3, QuietThen, GrowsThen
  <2>6. /\ Answers(h, No(g, "handshake_failure")) /\ Answers(h, No(g, "illegal_parameter"))
        /\ Answers(h, No(d, "illegal_parameter")) /\ Answers(h, No(s, "illegal_parameter"))
        /\ Answers(h, Ok(s))
    <3>1. /\ Answers(g, No(g, "handshake_failure")) /\ Answers(g, No(g, "illegal_parameter"))
          /\ Answers(d, No(d, "illegal_parameter")) /\ Answers(s, No(s, "illegal_parameter"))
      BY <2>1, <2>2, <2>3, Refuses
    <3> QED BY <3>1, <2>1, <2>5, AnswersThen, Accepts, ZenonT(40)
  <2> QED BY <2>4, <2>6, Zenon DEF res
\* A secret of this handshake, which no key update has advanced.
<1>SecretFacts.
    ASSUME NEW h, NEW label
    PROVE  LET s == Secret(h, label) IN
           IsSecret(s) /\ s.label = label /\ s.over = h.t.transcript /\ s.ku = 0
  BY <1>SecretFacts DEF Secret, IsSecret
\* The handshake secrets are over what was heard.
<1>DerivesSecrets.
    ASSUME NEW h, Open(h), NEW m
    PROVE  LET res == hsf_derive_handshake_secrets(h, m)
               g   == res.h
           IN
           /\ res.ok \in BOOLEAN /\ IsSession(g) /\ g.t = h.t
           /\ \A f \in KeptOwn : g[f] = h[f]
           /\ ~res.ok => g.hs.alert # "none"
           /\ res.ok => /\ g.hs.c_hs = Secret(h, "c hs") /\ g.hs.s_hs = Secret(h, "s hs")
                        /\ g.hs.handshake_secret = Secret(h, "hs")
  <2> USE <1>DerivesSecrets
  <2> DEFINE res   == hsf_derive_handshake_secrets(h, m)
             spent == [h EXCEPT !.hs.kex = {}, !.hs.early = "zero"]
             a == Secret(h, "hs")
             b == Secret(h, "c hs")
             c == Secret(h, "s hs")
             done == [spent EXCEPT !.hs.handshake_secret = a, !.hs.c_hs = b, !.hs.s_hs = c]
  <2>1. IsSession(spent) /\ spent.t = h.t /\ \A f \in KeptOwn : spent[f] = h[f]
    BY Zenon DEF Open, IsSession, OwnFields, HsFields, KeptOwn
  <2>2. res = IF ~m.share_ok THEN No(spent, "illegal_parameter") ELSE Ok(done)
    BY Zenon DEF hsf_derive_handshake_secrets
  <2> HIDE DEF res, spent, a, b, c
  <2>3. Answers(spent, No(spent, "illegal_parameter"))
    <3>1. Open(spent)
      BY <2>1, Zenon DEF Open
    <3> QED BY <3>1, Refuses
  <2>4. CASE ~m.share_ok
    <3>1. res = No(spent, "illegal_parameter")
      BY <2>2, <2>4, Zenon
    <3>2. res.ok = FALSE /\ res.h.t = spent.t /\ res.h.hs.alert = "illegal_parameter"
          /\ IsSession(res.h) /\ \A f \in KeptOwn : res.h[f] = spent[f]
      BY <3>1, <2>1 DEF No, IsSession, HsFields, OwnFields, KeptOwn
    <3> QED BY <3>2, <2>1, Zenon DEF res
  <2>5. CASE m.share_ok
    <3>1. res.ok = TRUE /\ res.h = done
      BY <2>2, <2>5 DEF Ok
    <3>2. /\ IsSession(done) /\ done.t = spent.t /\ \A f \in KeptOwn : done[f] = spent[f]
          /\ done.hs.c_hs = b /\ done.hs.s_hs = c /\ done.hs.handshake_secret = a
      BY <2>1, Zenon DEF IsSession, HsFields, OwnFields, KeptOwn
    <3> HIDE DEF done
    <3> QED BY <3>1, <3>2, <2>1, Zenon DEF a, b, c, res
  <2> QED BY <2>4, <2>5, Zenon
\* The ServerHello or the retry is read; a retry starts the transcript anew.
<1>ReadsHello.
    ASSUME NEW h, Open(h), NEW m
    PROVE  LET res == hsf_read_server_hello(h, m) IN
           /\ res.ok \in BOOLEAN /\ Quiet(h, res.h) /\ Open(res.h)
           /\ ~res.ok => res.h.hs.alert # "none"
  <2> USE <1>ReadsHello
  <2> DEFINE res   == hsf_read_server_hello(h, m)
             named == [h EXCEPT !.hs.suite = m.suite]
             again == restart_transcript(named, m)
  <2>1. \/ res = No(h, "unexpected_message") \/ res = No(h, "illegal_parameter")
        \/ res = Ok(Hear(named, m)) \/ res = No(again, "illegal_parameter")
        \/ res = Ok(take_retry(again, m))
    <3>1. res = IF m.type # "server_hello" THEN No(h, "unexpected_message")
                ELSE IF ~hsp_parse_server_hello(h.t.cfg, m) \/ ~take_suite(h, m)
                THEN No(h, "illegal_parameter")
                ELSE IF ~m.hrr THEN Ok(Hear(named, m))
                ELSE IF RetryAllowed(h, m) THEN Ok(take_retry(again, m))
                                           ELSE No(again, "illegal_parameter")
      BY Zenon DEF hsf_read_server_hello
    <3> HIDE DEF named, again, res
    <3> QED BY <3>1, Zenon
  <2>2. Quiet(h, named) /\ Grows(h, named) /\ Open(named)
    <3>1. /\ IsSession(named) /\ named.t.transcript = h.t.transcript
          /\ \A f \in KeptOwn : named[f] = h[f]
          /\ \A f \in KeptTls : named.t[f] = h.t[f]
          /\ \A f \in KeptHs : named.hs[f] = h.hs[f]
      BY DEF Open, IsSession, OwnFields, HsFields, KeptOwn, KeptHs
    <3> HIDE DEF named
    <3> QED BY <3>1, Touches
  <2> HIDE DEF named
  <2>3. Quiet(h, again) /\ Open(again)
    <3> DEFINE hash == [type |-> "message_hash", of |-> named.t.transcript]
    <3>1. again.t.transcript = << hash, m >>
      BY <2>2 DEF restart_transcript, Open, IsSession, TlsFields
    <3>2. /\ IsSession(again)
          /\ \A f \in KeptOwn : again[f] = named[f]
          /\ \A f \in KeptTls : again.t[f] = named.t[f]
          /\ \A f \in KeptHs : again.hs[f] = named.hs[f]
      BY <2>2 DEF restart_transcript, Open, IsSession, OwnFields, TlsFields, KeptOwn, KeptTls
    <3> HIDE DEF hash, again
    <3>3. << hash, m >> \in Seq({hash, m})
      OBVIOUS
    <3>4. Quiet(named, again)
      BY <3>2, Zenon DEF Quiet
    <3>5. Quiet(h, again)
      BY <3>4, <2>2, QuietThen
    <3> QED BY <3>1, <3>2, <3>3, <3>5, ZenonT(40) DEF Open, IsSeq
  <2> HIDE DEF again
  <2>4. Quiet(h, take_retry(again, m)) /\ Open(take_retry(again, m))
    <3> DEFINE k  == take_retry(again, m)
               rg == IF m.group = "none" THEN again.hs.retry_group ELSE m.group
               kx == IF m.group = "none" THEN again.hs.kex ELSE {"p256"}
    <3>1. k = [again EXCEPT !.hs.cookie = m.cookie, !.hs.retry_group = rg, !.hs.kex = kx]
      BY <2>3 DEF take_retry, Open, IsSession, HsFields
    <3> HIDE DEF rg, kx, k
    <3>2. /\ IsSession(k) /\ k.t = again.t
          /\ \A f \in KeptOwn : k[f] = again[f]
          /\ \A f \in KeptHs : k.hs[f] = again.hs[f]
      BY <3>1, <2>3, ZenonT(40) DEF Open, IsSession, OwnFields, HsFields, KeptOwn, KeptHs
    <3>3. Quiet(again, k) /\ Open(k)
      BY <3>2, <2>3, Touches
    <3> QED BY <3>3, <2>3, QuietThen, ZenonT(40) DEF k
  <2>5. Quiet(h, Hear(named, m)) /\ Open(Hear(named, m))
    <3>1. Quiet(named, Hear(named, m)) /\ Grows(named, Hear(named, m))
      BY <2>2, Hears
    <3> QED BY <3>1, <2>2, QuietThen, ZenonT(40) DEF Open, Quiet, Grows
  <2>6. /\ Answers(h, No(h, "unexpected_message")) /\ Answers(h, No(h, "illegal_parameter"))
        /\ Answers(again, No(again, "illegal_parameter"))
    BY <2>3, Refuses
  <2>7. ASSUME NEW g, Quiet(h, g), NEW a, Answers(g, a)
        PROVE  /\ a.ok \in BOOLEAN /\ Quiet(h, a.h) /\ Open(a.h)
               /\ ~a.ok => a.h.hs.alert # "none"
    BY <2>7, QuietThen, AnswersOpen, ZenonT(40) DEF Answers
  <2>8. ASSUME NEW g, Quiet(h, g), Open(g)
        PROVE  Ok(g).ok = TRUE /\ Quiet(h, Ok(g).h) /\ Open(Ok(g).h)
    BY <2>8 DEF Ok
  <2>9. Quiet(h, h)
    BY StaysQuiet, Zenon DEF Open
  <2> HIDE DEF res
  <2>10. CASE res = No(h, "unexpected_message") \/ res = No(h, "illegal_parameter")
              \/ res = No(again, "illegal_parameter")
    BY <2>10, <2>3, <2>6, <2>7, <2>9, ZenonT(40) DEF res
  <2>11. CASE res = Ok(Hear(named, m)) \/ res = Ok(take_retry(again, m))
    BY <2>11, <2>4, <2>5, <2>8, ZenonT(40) DEF res
  <2> QED BY <2>1, <2>10, <2>11, ZenonT(40)
\* The second hello is staged, or the second retry refused.
<1>RetriedTurns.
    ASSUME NEW k, Alive(k), k.step \in HelloSteps, NEW h, Quiet(k, h), Open(h)
    PROVE  Turned(k, Retried(h))
  <2> USE <1>RetriedTurns
  <2> DEFINE b  == hsf_build_client_hello(h)
             ch == ClientHello(h)
             n  == [b EXCEPT !.tx = << ch >>, !.tx_level = 0, !.step = "AWAIT_RETRY_HELLO"]
             res == Retried(h)
  <2>1. \A f \in KeyFields : h[f] = k[f]
    BY QuietFields, ZenonT(40) DEF Quiet
  <2>2. WriteBits(h) /\ h.ready \subseteq Levels \X Dirs
    BY <2>1, HelloBits
  <2>3. res = No(h, "unexpected_message") \/ res = Ok(n)
    BY Zenon DEF Retried
  <2>4. Quiet(h, b) /\ Grows(h, b)
    <3> HIDE DEF ch
    <3>1. b = Hear(h, ch)
      BY DEF hsf_build_client_hello, ch
    <3> HIDE DEF b
    <3> QED BY <3>1, Hears, Zenon
  <2> HIDE DEF b, res, ch
  <2>5. Quiet(k, b) /\ Open(b)
    BY <2>4, QuietThen, Zenon DEF Open, Quiet, Grows
  <2>6. \A f \in KeyFields : b[f] = k[f]
    BY <2>5, QuietFields, ZenonT(40) DEF Quiet
  <2>7. /\ IsSession(n) /\ n.t = b.t /\ n.step = "AWAIT_RETRY_HELLO"
        /\ \A f \in KeyFields : n[f] = b[f]
    BY <2>5 DEF Open, IsSession, OwnFields, KeyFields, ReadFields, WriteFields
  <2> HIDE DEF n
  <2>8. Open(n) /\ n.t.state = k.t.state /\ n.t.buf = k.t.buf
    BY <2>5, <2>7 DEF Open, Quiet, KeptTls
  <2>9. \A f \in KeyFields : n[f] = k[f]
    BY <2>6, <2>7
  <2>10. /\ WriteBits(n) /\ ReadBits(n) /\ n.key_phase = 0 /\ k.t.state = "START"
         /\ n.ready \subseteq {0} \X {"READ", "WRITE"} /\ n.ready \subseteq Levels \X Dirs
         /\ DOMAIN n.app_rx = KeySets
    BY <2>9, HelloBits, ZenonT(40)
  <2>11. Alive(n)
    BY <2>7, <2>8, <2>10 DEF Alive, HelloSteps
  <2>12. CASE res = Ok(n)
    <3>1. res.ok = TRUE /\ res.h = n
      BY <2>12 DEF Ok
    <3> QED BY <3>1, <2>8, <2>10, <2>11, ZenonT(40) DEF Turned, res
  <2>13. CASE res = No(h, "unexpected_message")
    <3>1. Answers(h, res) /\ ~res.ok
      BY <2>13, Refuses DEF No
    <3> QED BY <3>1, <2>2, Declines, ZenonT(40) DEF res
  <2> QED BY <2>3, <2>12, <2>13
\* The ServerHello is accepted, with the handshake keys installed, or refused.
<1>AcceptedTurns.
    ASSUME NEW k, Alive(k), k.step \in HelloSteps, k.t.cfg.role # "server",
           NEW h, Quiet(k, h), Open(h), NEW m
    PROVE  Turned(k, Accepted(h, m))
  <2> USE <1>AcceptedTurns
  <2> DEFINE a1  == hsf_accept_server_hello(h, m)
             a2  == hsf_derive_handshake_secrets(a1.h, m)
             g   == a2.h
             i   == install_handshake_keys(g, g.hs.s_hs, g.hs.c_hs)
             n   == [i EXCEPT !.rx_level = 1, !.step = "AWAIT_ENCRYPTED_EXTENSIONS"]
             res == Accepted(h, m)
  <2>1. res = IF ~a1.ok THEN a1 ELSE IF ~a2.ok THEN a2 ELSE Ok(n)
    BY Zenon DEF Accepted, Then
  <2>2. \A f \in KeyFields : h[f] = k[f]
    BY QuietFields, ZenonT(40) DEF Quiet
  <2>3. WriteBits(h) /\ h.ready \subseteq Levels \X Dirs
    BY <2>2, HelloBits
  <2>4. Answers(h, a1)
    BY <1>AcceptsHello
  <2> HIDE DEF res, a1
  <2>5. Quiet(k, a1.h) /\ Open(a1.h) /\ a1.ok \in BOOLEAN
    BY <2>4, AnswersOpen, QuietThen, ZenonT(40) DEF Answers
  <2>6. /\ a2.ok \in BOOLEAN /\ IsSession(g) /\ g.t = a1.h.t
        /\ \A f \in KeptOwn : g[f] = a1.h[f]
        /\ ~a2.ok => g.hs.alert # "none"
        /\ a2.ok => /\ g.hs.c_hs = Secret(a1.h, "c hs") /\ g.hs.s_hs = Secret(a1.h, "s hs")
                    /\ g.hs.handshake_secret = Secret(a1.h, "hs")
    BY <2>5, <1>DerivesSecrets, Zenon
  <2> HIDE DEF a2
  <2>7. Open(g) /\ \A f \in KeptOwn : g[f] = k[f]
    BY <2>5, <2>6, ZenonT(40) DEF Open, Quiet
  <2>8. /\ g.t.state = k.t.state /\ g.t.buf = k.t.buf /\ g.t.cfg = k.t.cfg
    BY <2>5, <2>6, Zenon DEF Quiet, KeptTls
  <2>9. /\ WriteBits(g) /\ ReadBits(g) /\ g.key_phase = 0 /\ k.t.state = "START"
        /\ g.ready \subseteq {0} \X {"READ", "WRITE"} /\ g.ready \subseteq Levels \X Dirs
        /\ DOMAIN g.app_rx = KeySets
    <3>1. \A f \in KeyFields : g[f] = k[f]
      BY <2>7, QuietFields, Zenon
    <3> QED BY <3>1, HelloBits, Zenon
  <2>10. CASE ~a1.ok
    <3>1. res = a1
      BY <2>1, <2>10, Zenon
    <3> QED BY <3>1, <2>3, <2>4, <2>10, Declines, ZenonT(40) DEF res
  <2>11. CASE a1.ok /\ ~a2.ok
    <3>1. res = a2
      BY <2>1, <2>11, Zenon
    <3> QED BY <3>1, <2>6, <2>7, <2>9, <2>11, ZenonT(40) DEF Turned, res
  <2>12. CASE a1.ok /\ a2.ok
    <3>1. res.ok = TRUE /\ res.h = n
      BY <2>1, <2>12 DEF Ok
    <3> DEFINE c == g.hs.c_hs
               s == g.hs.s_hs
    <3>2. /\ IsSecret(c) /\ c.label = "c hs" /\ c.over = g.t.transcript
          /\ IsSecret(s) /\ s.label = "s hs" /\ s.over = g.t.transcript
          /\ IsSecret(g.hs.handshake_secret) /\ g.hs.handshake_secret.ku = 0
      <4>1. c = Secret(a1.h, "c hs") /\ s = Secret(a1.h, "s hs")
            /\ g.hs.handshake_secret = Secret(a1.h, "hs") /\ g.t.transcript = a1.h.t.transcript
        BY <2>6, <2>12, ZenonT(40)
      <4>2. ASSUME NEW label
            PROVE  LET x == Secret(a1.h, label) IN
                   IsSecret(x) /\ x.label = label /\ x.over = a1.h.t.transcript /\ x.ku = 0
        BY <1>SecretFacts
      <4> HIDE DEF c, s, g
      <4> QED BY <4>1, <4>2, ZenonT(40)
    <3>3. Whose(g, TRUE, "hs") = "c hs" /\ Whose(g, FALSE, "hs") = "s hs"
      <4>1. g.t.cfg.role # "server"
        BY <2>8
      <4> QED BY <4>1, Labels, ZenonT(40)
    <3>4. /\ IsSession(i) /\ i.t = g.t /\ i.hs = g.hs
          /\ \A f \in OwnFields \ {"ready", "handshake_rx", "handshake_hp_rx",
                                   "handshake_tx", "handshake_hp_tx"} : i[f] = g[f]
      <4> HIDE DEF g, c, s
      <4>1. i = install_handshake_keys(g, s, c)
        BY DEF c, s
      <4>2. IsSession(g)
        BY <2>6, Zenon
      <4> HIDE DEF i
      <4> QED BY <4>1, <4>2, InstallsHandshake
    <3>5. WriteBits(i) /\ ReadBits(i) /\ i.ready \subseteq {0, 1} \X {"READ", "WRITE"}
      <4> HIDE DEF c, s, g
      <4>1. s.label = Whose(g, FALSE, "hs") /\ c.label = Whose(g, TRUE, "hs")
        BY <3>2, <3>3, ZenonT(40)
      <4> QED BY <4>1, <3>2, <2>7, <2>9, HandshakeKeyed, ZenonT(40) DEF c, s
    <3>6. i.key_phase = 0 /\ DOMAIN i.app_rx = KeySets
      <4>1. i.key_phase = g.key_phase /\ i.app_rx = g.app_rx
        <5> HIDE DEF i, g
        <5> QED BY <3>4 DEF OwnFields
      <4> QED BY <4>1, <2>9
    <3> HIDE DEF i
    <3>7. /\ IsSession(n) /\ n.t = i.t /\ n.hs = i.hs /\ n.step = "AWAIT_ENCRYPTED_EXTENSIONS"
          /\ \A f \in KeyFields : n[f] = i[f]
      BY <3>4 DEF IsSession, OwnFields, KeyFields, ReadFields, WriteFields
    <3> HIDE DEF n
    <3>8. Open(i)
      BY <3>4, <2>7, Zenon DEF Open
    <3>9. SameKeys(i, n) /\ Open(n)
      BY <3>7, <3>8, EditKeys, ZenonT(40)
    <3>10. WriteBits(n) /\ ReadBits(n)
      BY <3>5, <3>9, KeysStay, ZenonT(40)
    <3>11. n.ready = i.ready /\ n.key_phase = 0 /\ DOMAIN n.app_rx = KeySets
      BY <3>6, <3>7 DEF KeyFields, ReadFields
    <3>12. n.t.state = "START" /\ n.t.buf = k.t.buf /\ n.hs.handshake_secret = g.hs.handshake_secret
      BY <3>4, <3>7, <2>8, <2>9, SMTT(30)
    <3>13. Alive(n)
      BY <3>2, <3>5, <3>7, <3>10, <3>11, <3>12, ZenonT(40) DEF Alive, FlightSteps
    <3>14. n.ready \subseteq Levels \X Dirs
      BY <3>5, <3>11 DEF Levels, Dirs
    <3> QED BY <3>1, <3>9, <3>10, <3>12, <3>13, <3>14, ZenonT(40) DEF Turned, res
  <2> QED BY <2>5, <2>6, <2>10, <2>11, <2>12, ZenonT(40)
<1> DEFINE k   == Taken(q)
           m   == NextMsg(q)
           a   == hsf_read_server_hello(k, m)
           res == IF a.ok THEN IF m.hrr THEN Retried(a.h) ELSE Accepted(a.h, m) ELSE a
<1>1. Turn /\ q.step \in HelloSteps /\ q.t.cfg.role = "client"
  BY DEF step_server_hello, At, Turn, HelloSteps, IInv
<1>2. Advance(res)
  BY ZenonT(40) DEF step_server_hello, Then
<1>3. /\ Open(k) /\ Alive(k) /\ k.step = q.step /\ k.t.cfg = q.t.cfg
  BY <1>1, TakesMessage DEF OwnFields, TlsFields
<1>4. a.ok \in BOOLEAN /\ Quiet(k, a.h) /\ Open(a.h) /\ (~a.ok => a.h.hs.alert # "none")
  BY <1>3, <1>ReadsHello
<1>5. k.step \in HelloSteps /\ k.t.cfg.role # "server"
  BY <1>1, <1>3
<1> HIDE DEF a, k, m
<1>6. ASSUME ~a.ok PROVE Turned(k, a)
  <2>1. \A f \in KeyFields : a.h[f] = k[f]
    BY <1>4, QuietFields, ZenonT(40) DEF Quiet
  <2>2. WriteBits(a.h) /\ a.h.ready \subseteq Levels \X Dirs
    BY <2>1, <1>3, <1>5, HelloBits, ZenonT(40)
  <2> QED BY <2>2, <1>4, <1>6, ZenonT(40) DEF Turned
<1>7. Turned(k, Retried(a.h)) /\ Turned(k, Accepted(a.h, m))
  BY <1>3, <1>4, <1>5, <1>RetriedTurns, <1>AcceptedTurns, ZenonT(40)
<1>8. Turned(k, res)
  BY <1>6, <1>7, Zenon
<1> HIDE DEF res
<1> QED BY <1>1, <1>2, <1>8, TurnKeeps, ZenonT(40) DEF k

\* The epoch is raised, or not; nothing else is touched.
LEMMA CommitsEpoch ==
    ASSUME NEW h, Open(h), NEW failed
    PROVE  LET g == hsa_epoch_commit(h, failed) IN Quiet(h, g) /\ Grows(h, g) /\ Open(g)
<1> DEFINE g == hsa_epoch_commit(h, failed)
           e == h.hs.leaf.epoch
           r == [h EXCEPT !.t.epoch = e, !.t.epoch_store_failed = failed]
<1>1. g = h \/ g = r
  BY Zenon DEF hsa_epoch_commit
<1>2. Quiet(h, h) /\ Grows(h, h)
  BY StaysQuiet, ZenonT(40) DEF Open
<1>3. Quiet(h, r) /\ Grows(h, r) /\ Open(r)
  <2> HIDE DEF e
  <2>1. /\ IsSession(r) /\ r.t.transcript = h.t.transcript
        /\ \A f \in KeptOwn : r[f] = h[f]
        /\ \A f \in KeptTls : r.t[f] = h.t[f]
        /\ \A f \in KeptHs : r.hs[f] = h.hs[f]
    BY Zenon DEF Open, IsSession, OwnFields, TlsFields, KeptOwn, KeptTls
  <2> HIDE DEF r
  <2> QED BY <2>1, Touches
<1> HIDE DEF g, r
<1> QED BY <1>1, <1>2, <1>3, ZenonT(40) DEF g

\* The client's Finished: the application secrets cover what was heard before it.
LEMMA Completes ==
    ASSUME NEW h, Open(h)
    PROVE  LET g == hsf_complete(h) IN
           /\ Open(g) /\ g.hs = h.hs
           /\ g.t.wr_secret = Derived(h, "c ap") /\ g.t.rd_secret = Derived(h, "s ap")
           /\ \A s : Covers(h.t.transcript, s) => Covers(g.t.transcript, s)
           /\ \A f \in OwnFields : g[f] = h[f]
           /\ \A f \in TlsFields \ {"wr_secret", "rd_secret", "res_master", "transcript"} :
                  g.t[f] = h.t[f]
<1> DEFINE wr    == Derived(h, "c ap")
           rd    == Derived(h, "s ap")
           fin   == ClientFinished(h)
           keyed == [h EXCEPT !.t.wr_secret = wr, !.t.rd_secret = rd]
           heard == Hear(keyed, fin)
           rm    == Derived(heard, "res")
           g     == hsf_complete(h)
<1>1. g = [heard EXCEPT !.t.res_master = rm]
  BY DEF hsf_complete
<1> HIDE DEF wr, rd, fin, rm
<1>2. /\ IsSession(keyed) /\ keyed.hs = h.hs /\ keyed.t.wr_secret = wr /\ keyed.t.rd_secret = rd
      /\ \A f \in OwnFields : keyed[f] = h[f]
      /\ \A f \in TlsFields \ {"wr_secret", "rd_secret"} : keyed.t[f] = h.t[f]
  BY Zenon DEF Open, IsSession, OwnFields, TlsFields
<1> HIDE DEF keyed
<1>3. /\ IsSession(heard) /\ heard.hs = keyed.hs
      /\ heard.t.transcript = Append(keyed.t.transcript, fin)
      /\ \A f \in OwnFields : heard[f] = keyed[f]
      /\ \A f \in TlsFields \ {"transcript"} : heard.t[f] = keyed.t[f]
  BY <1>2 DEF Hear, IsSession, OwnFields, TlsFields
<1> HIDE DEF heard, g
<1>4. /\ IsSession(g) /\ g.hs = heard.hs
      /\ \A f \in OwnFields : g[f] = heard[f]
      /\ \A f \in TlsFields \ {"res_master"} : g.t[f] = heard.t[f]
  BY <1>1, <1>3 DEF IsSession, OwnFields, TlsFields
<1>5. g.t.wr_secret = wr /\ g.t.rd_secret = rd
  BY <1>2, <1>3, <1>4 DEF TlsFields
<1>6. g.t.transcript = Append(h.t.transcript, fin)
  <2>1. g.t.transcript = heard.t.transcript /\ keyed.t.transcript = h.t.transcript
    BY <1>2, <1>4 DEF TlsFields
  <2> QED BY <2>1, <1>3
<1>7. /\ IsSeq(g.t.transcript)
      /\ \A s : Covers(h.t.transcript, s) => Covers(g.t.transcript, s)
  BY <1>6, HeardMore, ZenonT(40) DEF Open
<1>8. /\ \A f \in OwnFields : g[f] = h[f]
      /\ \A f \in TlsFields \ {"wr_secret", "rd_secret", "res_master", "transcript"} :
             g.t[f] = h.t[f]
  BY <1>2, <1>3, <1>4
<1>9. g.hs = h.hs /\ Open(g)
  BY <1>2, <1>3, <1>4, <1>7 DEF Open
<1> QED BY <1>5, <1>7, <1>8, <1>9, ZenonT(40) DEF wr, rd, g

\* The handshake ends on the client, with the application keys installed.
LEMMA FinishedTurns ==
    ASSUME NEW k, Alive(k), k.step \in FlightSteps, k.t.cfg.role # "server",
           NEW h, Quiet(k, h), Grows(k, h)
    PROVE  Turned(k, Ok(Finished(h)))
<1> DEFINE c   == hsf_complete(h)
           i   == install_application_keys(c, {"READ", "WRITE"})
           fin == ClientFinished(h)
           n   == [i EXCEPT !.tx = << fin >>, !.tx_level = 1, !.rx_level = 2,
                            !.hs = NoHs, !.step = "COMPLETE"]
           res == Ok(Finished(h))
<1>1. res.ok = TRUE /\ res.h = n
  BY DEF Ok, Finished
<1>2. /\ k.t.state = "START" /\ k.key_phase = 0 /\ DOMAIN k.app_rx = KeySets
      /\ k.ready \subseteq {0, 1} \X {"READ", "WRITE"}
      /\ IsSecret(k.hs.handshake_secret) /\ k.hs.handshake_secret.ku = 0
      /\ WriteBits(k) /\ ReadBits(k)
  BY DEF Alive, FlightSteps, HelloSteps
<1>3. /\ h.t.state = k.t.state /\ h.t.buf = k.t.buf /\ h.t.cfg = k.t.cfg
      /\ h.hs.handshake_secret = k.hs.handshake_secret
      /\ h.ready = k.ready /\ h.key_phase = k.key_phase /\ h.app_rx = k.app_rx
  BY DEF Quiet, KeptTls, KeptHs, KeptOwn, OwnFields
<1>4. Open(h) /\ SameKeys(k, h)
  BY QuietKeys, Zenon DEF Open, Quiet, Grows
<1>5. WriteBits(h) /\ ReadBits(h)
  BY <1>2, <1>4, KeysStay, ZenonT(40)
<1>6. /\ Open(c) /\ c.t.wr_secret = Derived(h, "c ap") /\ c.t.rd_secret = Derived(h, "s ap")
      /\ \A s : Covers(h.t.transcript, s) => Covers(c.t.transcript, s)
      /\ \A f \in OwnFields : c[f] = h[f]
      /\ \A f \in TlsFields \ {"wr_secret", "rd_secret", "res_master", "transcript"} :
             c.t[f] = h.t[f]
  BY <1>4, Completes, ZenonT(40)
<1> HIDE DEF c, res, fin
<1>7. /\ c.t.cfg = h.t.cfg /\ c.t.state = h.t.state /\ c.t.buf = h.t.buf
      /\ c.t.quic_negotiated_version = h.t.quic_negotiated_version
      /\ c.app_rx = h.app_rx /\ c.key_phase = h.key_phase
  BY <1>6, ZenonT(40) DEF TlsFields, OwnFields
<1>8. IsSession(c) /\ DOMAIN c.app_rx = KeySets /\ c.key_phase = 0
  BY <1>2, <1>3, <1>6, <1>7, ZenonT(40) DEF Open
<1>9. ASSUME NEW label
      PROVE  LET x == Derived(h, label) IN
             /\ IsSecret(x) /\ x.label = label /\ x.ku = 0 /\ [x EXCEPT !.ku = 0] = x
             /\ Covers(c.t.transcript, x)
  <2> DEFINE x == Derived(h, label)
  <2>1. /\ IsSecret(x) /\ x.label = label /\ x.ku = 0 /\ [x EXCEPT !.ku = 0] = x
        /\ x.over = h.t.transcript
    BY <1>2, <1>3, DerivedFacts
  <2> HIDE DEF x
  <2>2. Covers(h.t.transcript, x)
    BY <2>1, <1>4, CoversAll, ZenonT(40) DEF Open
  <2> QED BY <2>1, <2>2, <1>6, ZenonT(40) DEF x
<1>10. Whose(c, TRUE, "ap") = "c ap" /\ Whose(c, FALSE, "ap") = "s ap"
  <2>1. c.t.cfg.role # "server"
    BY <1>3, <1>7
  <2> QED BY <2>1, Labels, ZenonT(40)
<1>11. AppReads(i) /\ AppWrites(i)
  <2> DEFINE wr == c.t.wr_secret
             rd == c.t.rd_secret
  <2>1. /\ IsSecret(wr) /\ wr.label = "c ap" /\ wr.ku = 0 /\ [wr EXCEPT !.ku = 0] = wr
        /\ Covers(c.t.transcript, wr)
        /\ IsSecret(rd) /\ rd.label = "s ap" /\ rd.ku = 0 /\ Covers(c.t.transcript, rd)
    BY <1>6, <1>9, ZenonT(40)
  <2> HIDE DEF wr, rd
  <2>2. wr.label = Whose(c, TRUE, "ap") /\ rd.label = Whose(c, FALSE, "ap")
    BY <2>1, <1>10, Zenon
  <2> HIDE DEF i
  <2> QED BY <2>1, <2>2, <1>8, ApplicationKeyed, ZenonT(30) DEF wr, rd, i
<1>12. /\ IsSession(i) /\ i.ready = c.ready \cup ({2} \X {"READ", "WRITE"})
       /\ \A f \in TlsFields \ {"rd_secret"} : i.t[f] = c.t[f]
       /\ \A f \in OwnFields \ {"ready", "app_tx", "app_hp_tx", "app_rx", "app_hp_rx"} :
              i[f] = c[f]
  BY <1>8, InstallsApplication
<1> HIDE DEF i
<1>13. /\ IsSession(n) /\ n.t = i.t /\ n.hs = NoHs /\ n.step = "COMPLETE"
       /\ \A f \in KeyFields : n[f] = i[f]
  BY <1>12, BlankShape, SMTT(30) DEF IsSession, OwnFields, KeyFields, ReadFields, WriteFields
<1> HIDE DEF n
<1>14. Open(i)
  <2>1. i.t.transcript = c.t.transcript
    BY <1>12 DEF TlsFields
  <2> QED BY <2>1, <1>6, <1>12, ZenonT(40) DEF Open
<1>15. SameKeys(i, n) /\ Open(n)
  BY <1>13, <1>14, EditKeys, ZenonT(40)
<1>16. AppReads(n) /\ AppWrites(n)
  BY <1>11, <1>15, KeysStay, Zenon
<1>17. SameStory(h, n)
  <2>1. /\ n.t.cfg = h.t.cfg /\ n.t.quic_negotiated_version = h.t.quic_negotiated_version
        /\ n.t.transcript = c.t.transcript
    BY <1>7, <1>12, <1>13 DEF TlsFields
  <2> QED BY <2>1, <1>6, ZenonT(40) DEF SameStory
<1>18. \A f \in LowFields : n[f] = h[f]
  <2>1. \A f \in LowFields : n[f] = i[f]
    BY <1>13 DEF LowFields, KeyFields, ReadFields, WriteFields
  <2>2. \A f \in LowFields : i[f] = c[f]
    BY <1>12 DEF LowFields, OwnFields
  <2>3. \A f \in LowFields : c[f] = h[f]
    BY <1>6, Zenon DEF LowFields, OwnFields
  <2> QED BY <2>1, <2>2, <2>3
<1>19. n.ready = h.ready \cup ({2} \X {"READ", "WRITE"})
  <2>1. n.ready = i.ready /\ c.ready = h.ready
    BY <1>6, <1>13, Zenon DEF KeyFields, OwnFields
  <2> QED BY <2>1, <1>12
<1>20. WriteBits(n) /\ ReadBits(n) /\ n.ready \subseteq Levels \X Dirs
  <2>1. Dirs \subseteq Dirs /\ h.ready \subseteq {0, 1} \X {"READ", "WRITE"}
    BY <1>2, <1>3
  <2>2. n.ready = h.ready \cup ({2} \X Dirs)
    BY <1>19 DEF Dirs
  <2> QED BY <2>1, <2>2, <1>5, <1>16, <1>17, <1>18, LowBits, ZenonT(30)
<1>21. n.t.state = "START" /\ n.t.buf = k.t.buf
  <2>1. i.t.state = c.t.state /\ i.t.buf = c.t.buf
    BY <1>12 DEF TlsFields
  <2> QED BY <2>1, <1>2, <1>3, <1>7, <1>13
<1>22. Ready(n, 2, "READ")
  BY <1>19 DEF Ready
<1>23. Alive(n)
  BY <1>13, <1>20, <1>21, <1>22, ZenonT(40) DEF Alive
<1> QED BY <1>1, <1>15, <1>20, <1>21, <1>23, ZenonT(40) DEF Turned, res

\* The server's Finished keeps the invariant.
LEMMA FinishedKeeps ==
    ASSUME IInv, NEW failed, step_finished(failed)
    PROVE  IInv'
<1> DEFINE k   == Taken(q)
           m   == NextMsg(q)
           a   == hsf_read_finished(k, m)
           c   == hsa_epoch_commit(a.h, failed)
           res == IF a.ok THEN Ok(Finished(c)) ELSE a
<1>1. Turn /\ q.step \in FlightSteps /\ q.t.cfg.role = "client"
  BY DEF step_finished, At, Turn, FlightSteps, IInv
<1>2. Advance(res)
  BY ZenonT(40) DEF step_finished, Then
<1>3. /\ Open(k) /\ Alive(k) /\ k.step = q.step /\ k.t.cfg = q.t.cfg
      /\ k.ready \subseteq Levels \X Dirs
  BY <1>1, TakesMessage DEF OwnFields, TlsFields
<1>4. Answers(k, a)
  BY <1>3, ReadsFinished
<1>5. k.step \in FlightSteps /\ k.t.cfg.role # "server"
  BY <1>1, <1>3
<1> HIDE DEF a, k, m
<1>6. ASSUME ~a.ok PROVE Turned(k, a)
  BY <1>3, <1>4, <1>6, Declines, ZenonT(40) DEF Alive
<1>7. Quiet(k, c) /\ Grows(k, c)
  <2>1. Quiet(k, a.h) /\ Grows(k, a.h) /\ Open(a.h)
    BY <1>4, AnswersOpen, Zenon DEF Answers
  <2>2. Quiet(a.h, c) /\ Grows(a.h, c)
    BY <2>1, CommitsEpoch
  <2> HIDE DEF c
  <2> QED BY <2>1, <2>2, QuietThen, GrowsThen, ZenonT(40)
<1> HIDE DEF c
<1>8. Turned(k, Ok(Finished(c)))
  BY <1>3, <1>5, <1>7, FinishedTurns, ZenonT(40)
<1>9. Turned(k, res)
  BY <1>6, <1>8, ZenonT(40)
<1> HIDE DEF res
<1> QED BY <1>1, <1>2, <1>9, TurnKeeps, ZenonT(40) DEF k

-----------------------------------------------------------------------------
(* What the client's handlers make of a session they do not refuse *)

\* Two changes are one.
LEMMA SameThen ==
    ASSUME NEW a, NEW b, NEW c, NEW T1, NEW T2, NEW T, NEW H1, NEW H2, NEW H,
           SameBut(a, b, T1, H1), SameBut(b, c, T2, H2),
           T1 \cup T2 \subseteq T, H1 \cup H2 \subseteq H
    PROVE  SameBut(a, c, T, H)
BY DEF SameBut

\* A Finished that is admitted was made with the server's handshake secret, over
\* all that was heard.
LEMMA FinishedFacts ==
    ASSUME NEW h, IsSession(h), NEW m, NEW res, res = hsf_read_finished(h, m)
    PROVE  /\ IsSession(res.h) /\ res.ok \in BOOLEAN
           /\ res.ok => /\ SameBut(h, res.h, {"transcript"}, {"server_finished_ok"})
                        /\ m.type = "finished"
                        /\ m.key = h.hs.s_hs /\ m.over = h.t.transcript
                        /\ res.h.t.transcript = Append(h.t.transcript, m)
<1> DEFINE g == [h EXCEPT !.hs.server_finished_ok = TRUE]
<1>1. IsSession(g) /\ SameBut(h, g, {}, {"server_finished_ok"}) /\ g.t = h.t
  BY DEF IsSession, TlsFields, HsFields, SameBut
<1>2. \/ \E a : res = No(h, a)
      \/ /\ m.type = "finished" /\ m.key = h.hs.s_hs /\ m.over = h.t.transcript
         /\ res = Ok(Hear(g, m))
  BY DEF hsf_read_finished, FinishedVerifies
<1> HIDE DEF g
<1>3. CASE \E a : res = No(h, a)
  <2>1. PICK a : res = No(h, a)
    BY <1>3
  <2>2. res.ok = FALSE /\ IsSession(res.h)
    BY <2>1, Refusal, Zenon
  <2> QED BY <2>2, ZenonT(40)
<1>4. CASE /\ m.type = "finished" /\ m.key = h.hs.s_hs /\ m.over = h.t.transcript
           /\ res = Ok(Hear(g, m))
  <2> DEFINE k == Hear(g, m)
  <2>1. res.ok = TRUE /\ res.h = k
    BY <1>4 DEF Ok
  <2>2. /\ IsSession(k) /\ SameBut(g, k, {"transcript"}, {})
        /\ k.t.transcript = Append(g.t.transcript, m)
    BY <1>1, HearFacts, ZenonT(40)
  <2> HIDE DEF k
  <2>3. SameBut(h, k, {"transcript"}, {"server_finished_ok"})
    BY <1>1, <2>2, SameThen
  <2> QED BY <1>1, <1>4, <2>1, <2>2, <2>3, ZenonT(40)
<1> QED BY <1>2, <1>3, <1>4

\* The epoch a completed handshake raises the session to.
LEMMA CommitFacts ==
    ASSUME NEW h, IsSession(h), NEW failed
    PROVE  LET g == hsa_epoch_commit(h, failed) IN
           IsSession(g) /\ SameBut(h, g, {"epoch", "epoch_store_failed"}, {}) /\ g.hs = h.hs
BY Zenon DEF hsa_epoch_commit, IsSession, TlsFields, HsFields, SameBut

\* A completed session holds application secrets over the flight up to the
\* server's Finished, and the client's own Finished is the last thing heard.
LEMMA CompleteFacts ==
    ASSUME NEW h, IsSession(h), "over" \in DOMAIN h.hs.handshake_secret
    PROVE  LET g == hsf_complete(h) IN
           /\ IsSession(g)
           /\ SameBut(h, g, {"wr_secret", "rd_secret", "res_master", "transcript"}, {})
           /\ g.t.transcript = Append(h.t.transcript, ClientFinished(h))
           /\ g.t.wr_secret.over = h.t.transcript /\ g.t.rd_secret.over = h.t.transcript
<1> DEFINE keyed == [h EXCEPT !.t.wr_secret = Derived(h, "c ap"), !.t.rd_secret = Derived(h, "s ap")]
           heard == Hear(keyed, ClientFinished(h))
           g     == [heard EXCEPT !.t.res_master = Derived(heard, "res")]
<1>1. /\ IsSession(keyed) /\ SameBut(h, keyed, {"wr_secret", "rd_secret"}, {})
      /\ keyed.t.wr_secret = Derived(h, "c ap") /\ keyed.t.rd_secret = Derived(h, "s ap")
      /\ keyed.t.transcript = h.t.transcript
  BY ZenonT(40) DEF IsSession, TlsFields, HsFields, SameBut
<1>2. \A l : Derived(h, l).over = h.t.transcript
  BY DEF Derived
<1> HIDE DEF keyed
<1>3. /\ IsSession(heard) /\ SameBut(keyed, heard, {"transcript"}, {})
      /\ heard.t.transcript = Append(h.t.transcript, ClientFinished(h))
  BY <1>1, HearFacts, ZenonT(40)
<1> HIDE DEF heard
<1>4. /\ IsSession(g) /\ SameBut(heard, g, {"res_master"}, {})
      /\ g.t.transcript = heard.t.transcript
      /\ g.t.wr_secret = heard.t.wr_secret /\ g.t.rd_secret = heard.t.rd_secret
  BY <1>3 DEF IsSession, TlsFields, HsFields, SameBut
<1>5. heard.t.wr_secret = keyed.t.wr_secret /\ heard.t.rd_secret = keyed.t.rd_secret
  BY <1>3 DEF SameBut, TlsFields
<1>6. g = hsf_complete(h)
  BY DEF hsf_complete, heard, keyed
<1> HIDE DEF g
<1>7. SameBut(h, heard, {"wr_secret", "rd_secret", "transcript"}, {})
  <2>1. /\ SameBut(h, keyed, {"wr_secret", "rd_secret"}, {})
        /\ SameBut(keyed, heard, {"transcript"}, {})
    BY <1>1, <1>3, ZenonT(40)
  <2> QED BY <2>1, SameThen
<1>8. SameBut(h, g, {"wr_secret", "rd_secret", "res_master", "transcript"}, {})
  BY <1>4, <1>7, SameThen
<1> QED BY <1>1, <1>2, <1>3, <1>4, <1>5, <1>6, <1>8, ZenonT(40)

-----------------------------------------------------------------------------
(* The client's flight, message by message *)

\* A ServerHello heard after one hello or after three messages is the second or
\* the fourth, and the hello it answers is the one before it.
HeardAt(old, tr, m, at) ==
    /\ IsSeq(tr) /\ Len(tr) = at /\ at <= Len(tr)
    /\ tr[at] = m /\ tr[at - 1] = old[Len(old)] /\ Prefix(tr, at) = tr
    /\ at = 2 \/ (at = 4 /\ Len(old) = 3 /\ tr[1] = old[1] /\ tr[2] = old[2])

\* what the messages after the ServerHello change of a session
HeardTls == {"transcript", "buf", "alpn_selected", "epoch_seen", "epoch_status"}
HeardHs == {"alert", "leaf"}

\* tr is what was heard, and m
Goes(old, m, tr) == tr = Append(old, m)

\* the server's Finished is due as the fin-th message, and is heard with the
\* client's own behind it
Ending(old, m, mid, own, tr, at, fin) ==
    /\ IsSeq(old) /\ at \in {2, 4} /\ fin \in {at + 2, at + 4} /\ Len(old) = fin - 1
    /\ Goes(old, m, mid) /\ Goes(mid, own, tr)

\* what then stays in its place
Ended(old, m, mid, own, tr, at, fin) ==
    /\ at <= Len(tr) /\ Len(tr) = fin + 1 /\ tr[fin] = m /\ tr[fin + 1] = own
    /\ tr[at] = old[at] /\ tr[at - 1] = old[at - 1] /\ tr[at + 1] = old[at + 1]
    /\ tr[1] = old[1] /\ tr[2] = old[2]
    /\ Prefix(tr, at) = Prefix(old, at) /\ Prefix(tr, fin - 1) = old
    /\ fin = at + 4 => /\ tr[at + 2] = old[at + 2] /\ tr[(at + 2) + 1] = old[(at + 2) + 1]
                       /\ Prefix(tr, at + 2) = Prefix(old, at + 2)
    /\ Prefix(tr, Len(tr) - 1) = mid
    /\ Len(tr) = Len(old) + 2 /\ \A i \in 1..Len(old) : tr[i] = old[i]

\* Two more messages leave what was heard in its place.
LEMMA FlightEnd ==
    ASSUME NEW old, NEW m, NEW mid, NEW own, NEW tr, NEW at, NEW fin,
           Ending(old, m, mid, own, tr, at, fin)
    PROVE  Ended(old, m, mid, own, tr, at, fin)
<1> DEFINE n == Len(old)
<1>0. IsSeq(old) /\ at \in {2, 4} /\ fin \in {at + 2, at + 4} /\ n = fin - 1
  BY DEF Ending
<1>g. mid = Append(old, m) /\ tr = Append(mid, own)
  BY DEF Ending, Goes
<1>1. /\ IsSeq(mid) /\ n \in Nat /\ Len(mid) = n + 1 /\ mid[n + 1] = m
      /\ \A i \in 1..n : mid[i] = old[i]
  BY <1>0, <1>g, Heard
<1>2. /\ \A i \in 0..n : Prefix(mid, i) = Prefix(old, i)
      /\ Prefix(mid, n) = old
  BY <1>0, <1>g, HeardPrefix, HeardCovers
<1>3. /\ Len(tr) = Len(mid) + 1 /\ tr[Len(mid) + 1] = own
      /\ \A i \in 1..Len(mid) : tr[i] = mid[i]
  BY <1>1, <1>g, Heard
<1>4. /\ \A i \in 0..Len(mid) : Prefix(tr, i) = Prefix(mid, i)
      /\ Prefix(tr, Len(mid)) = mid
  BY <1>1, <1>g, HeardPrefix, HeardCovers, ZenonT(40)
<1> HIDE DEF n
<1>5. /\ Len(tr) = n + 2 /\ tr[n + 1] = m /\ tr[n + 2] = own
      /\ \A i \in 1..n : tr[i] = old[i]
      /\ \A i \in 0..n : Prefix(tr, i) = Prefix(old, i)
      /\ Prefix(tr, n) = old /\ Prefix(tr, Len(tr) - 1) = mid
  <2>1. Len(tr) = n + 2 /\ tr[n + 1] = m /\ tr[n + 2] = own /\ Len(tr) - 1 = Len(mid)
    BY <1>1, <1>3
  <2>2. \A i \in 1..n : tr[i] = old[i]
    BY <1>1, <1>3
  <2>3. \A i \in 0..n : Prefix(tr, i) = Prefix(old, i)
    BY <1>1, <1>2, <1>4
  <2>4. Prefix(tr, n) = Prefix(mid, n)
    BY <1>1, <1>4
  <2> QED BY <1>2, <1>4, <2>1, <2>2, <2>3, <2>4
<1>6. /\ at \in 1..n /\ at - 1 \in 1..n /\ at + 1 \in 1..n /\ 1 \in 1..n /\ 2 \in 1..n
      /\ at \in 0..n /\ n + 1 = fin /\ n + 2 = fin + 1 /\ n = fin - 1 /\ at <= n + 2
      /\ fin = at + 4 => at + 2 \in 1..n /\ (at + 2) + 1 \in 1..n /\ at + 2 \in 0..n
  BY <1>0, SMTT(30)
<1> QED BY <1>5, <1>6 DEF Ended, n

\* The server's Finished, and the client's own after it, complete a legal flight.
LEMMA FinishedFlow ==
    ASSUME NEW h, NEW at \in {2, 4}, Greeted(h, at), NEW fin,
           fin = IF h.t.psk_selected THEN at + 2 ELSE at + 4,
           h.t.transcript[at + 1].type = "encrypted_extensions",
           ~h.t.psk_selected => LegalCertificate(h, h.t.transcript, at + 2),
           NEW m, m.type = "finished", m.key = h.hs.s_hs, m.over = h.t.transcript,
           NEW own, own.type = "finished", own.key.label = "c hs",
           NEW k, k.t.cfg = h.t.cfg, NEW mid,
           Ended(h.t.transcript, m, mid, own, k.t.transcript, at, fin)
    PROVE  LegalFlight(k)
<1> DEFINE old == h.t.transcript
           tr  == k.t.transcript
           psk == h.t.psk_selected
<1>1. /\ LegalHellos(h.t.cfg, old, at) /\ psk = (old[at].psk = "zero")
      /\ m.key.label = "s hs" /\ m.key.over = Prefix(old, at) /\ m.key.group = old[at].group
      /\ m.key.early = IF psk THEN "psk" ELSE "nopsk"
  BY ZenonT(40) DEF Greeted
<1>2. /\ at <= Len(tr) /\ Len(tr) = fin + 1 /\ tr[fin] = m /\ tr[fin + 1] = own
      /\ tr[at] = old[at] /\ tr[at - 1] = old[at - 1] /\ tr[at + 1] = old[at + 1]
      /\ tr[1] = old[1] /\ tr[2] = old[2]
      /\ Prefix(tr, at) = Prefix(old, at) /\ Prefix(tr, fin - 1) = old
      /\ fin = at + 4 => /\ tr[at + 2] = old[at + 2] /\ tr[(at + 2) + 1] = old[(at + 2) + 1]
                         /\ Prefix(tr, at + 2) = Prefix(old, at + 2)
  BY ZenonT(40) DEF Ended
<1>3. /\ ~psk => LegalCertificate(h, old, at + 2)
      /\ fin = IF psk THEN at + 2 ELSE at + 4
  BY ZenonT(40)
<1> HIDE DEF old, tr, psk
<1>4. LegalHellos(k.t.cfg, tr, at)
  <2>1. /\ tr[at] = old[at] /\ tr[at - 1] = old[at - 1] /\ tr[1] = old[1] /\ tr[2] = old[2]
        /\ k.t.cfg = h.t.cfg
    BY <1>2, ZenonT(40)
  <2>2. LegalHellos(h.t.cfg, old, at) => LegalHellos(h.t.cfg, tr, at)
    BY <2>1, ZenonT(40) DEF LegalHellos
  <2> QED BY <1>1, <2>1, <2>2, ZenonT(40)
<1>5. ~psk => LegalCertificate(k, tr, at + 2)
  BY <1>2, <1>3, ZenonT(40) DEF LegalCertificate, EpochChecked
<1>6. LegalFinished(tr, fin, at, psk)
  BY <1>1, <1>2, ZenonT(40) DEF LegalFinished, old
<1>7. tr[at].type = "server_hello" /\ ~tr[at].hrr /\ psk = (tr[at].psk = "zero")
  <2>1. tr[at] = old[at]
    BY <1>2, ZenonT(40)
  <2>2. tr[at].type = "server_hello" /\ ~tr[at].hrr
    BY <1>4, ZenonT(40) DEF LegalHellos
  <2> QED BY <1>1, <2>1, <2>2, ZenonT(40)
<1>8. fin = IF tr[at].psk = "zero" THEN at + 2 ELSE at + 4
  BY <1>3, <1>7, ZenonT(40)
<1>9. tr[at + 1].type = "encrypted_extensions"
  BY <1>2, ZenonT(40) DEF old
<1> QED BY <1>2, <1>4, <1>5, <1>6, <1>7, <1>8, <1>9, ZenonT(40) DEF LegalFlight, tr

-----------------------------------------------------------------------------
(* The steps of a client and the story *)

\* a client between two of its own messages
Client(h) ==
    /\ IsSession(h) /\ IsSeq(h.t.transcript) /\ ClientStory(h)
    /\ h.t.cfg.role # "server" /\ h.tx = << >>

\* What was said stays said when more is heard.
LEMMA RecordsStay ==
    ASSUME NEW old, Len(old) \in Nat, 1 <= Len(old),
           old[1].type = "message_hash" => 3 <= Len(old),
           NEW tr, \A i \in 1..Len(old) : tr[i] = old[i]
    PROVE  HelloRecords(tr) = HelloRecords(old)
<1>1. 1 \in 1..Len(old) /\ (old[1].type = "message_hash" => 3 \in 1..Len(old))
  OBVIOUS
<1>2. tr[1] = old[1] /\ (old[1].type = "message_hash" => tr[3] = old[3])
  BY <1>1, ZenonT(40)
<1> QED BY <1>2, ZenonT(40) DEF HelloRecords

\* After the hellos there is nothing left to say but the Finished.
LEMMA HellosLong ==
    ASSUME NEW cfg, NEW old, Len(old) \in Nat, NEW at \in {2, 4}, at <= Len(old),
           LegalHellos(cfg, old, at)
    PROVE  1 <= Len(old) /\ (old[1].type = "message_hash" => 3 <= Len(old))
<1>1. old[at - 1].type = "client_hello"
  BY Zenon DEF LegalHellos
<1>2. CASE at = 4
  BY <1>2
<1>3. CASE at = 2
  <2>1. at - 1 = 1
    BY <1>3
  <2> QED BY <1>1, <1>3, <2>1
<1> QED BY <1>2, <1>3

\* The turn on a server_hello.
LEMMA ServerHelloTells ==
    ASSUME Turn, Story, step_server_hello
    PROVE  Story'
\* A ServerHello that is read is a well-formed one of the right suite.
<1>ReadHello.
    ASSUME NEW h, IsSession(h), NEW m
    PROVE  LET res == hsf_read_server_hello(h, m) IN
           /\ IsSession(res.h) /\ res.ok \in BOOLEAN
           /\ res.ok => /\ m.type = "server_hello" /\ hsp_parse_server_hello(h.t.cfg, m)
                        /\ take_suite(h, m)
           /\ res.ok /\ ~m.hrr =>
                 /\ SameBut(h, res.h, {"transcript"}, {"suite"})
                 /\ res.h.t.transcript = Append(h.t.transcript, m)
           /\ res.ok /\ m.hrr =>
                 /\ SameBut(h, res.h, {"transcript"}, {"suite", "cookie", "retry_group", "kex"})
                 /\ res.h.t.transcript =
                       << [type |-> "message_hash", of |-> h.t.transcript], m >>
                 /\ RetryAllowed(h, m)
                 /\ res.h.hs.suite = m.suite /\ res.h.hs.cookie = m.cookie
                 /\ res.h.hs.retry_group = IF m.group = "none" THEN h.hs.retry_group
                                                               ELSE m.group
  <2> USE <1>ReadHello
  <2> DEFINE named == [h EXCEPT !.hs.suite = m.suite]
             again == restart_transcript(named, m)
             tried == take_retry(again, m)
             res   == hsf_read_server_hello(h, m)
  <2>1. /\ IsSession(named) /\ SameBut(h, named, {}, {"suite"}) /\ named.hs.suite = m.suite
        /\ named.t = h.t
    BY DEF IsSession, TlsFields, HsFields, SameBut
  <2>2. /\ IsSession(again) /\ SameBut(h, again, {"transcript"}, {"suite"})
        /\ again.hs.suite = m.suite
        /\ again.t.transcript = << [type |-> "message_hash", of |-> h.t.transcript], m >>
    BY <2>1, ZenonT(40) DEF restart_transcript, IsSession, TlsFields, HsFields, SameBut
  <2> HIDE DEF again
  <2>3. /\ IsSession(tried)
        /\ SameBut(h, tried, {"transcript"}, {"suite", "cookie", "retry_group", "kex"})
        /\ tried.hs.suite = m.suite /\ tried.hs.cookie = m.cookie
        /\ tried.hs.retry_group = IF m.group = "none" THEN h.hs.retry_group ELSE m.group
        /\ tried.t.transcript = again.t.transcript
    BY <2>2, ZenonT(40) DEF take_retry, IsSession, TlsFields, HsFields, SameBut
  <2> HIDE DEF named, tried
  <2>4. CASE m.type # "server_hello" \/ ~hsp_parse_server_hello(h.t.cfg, m) \/ ~take_suite(h, m)
    <3>1. PICK a : res = No(h, a)
      BY <2>4 DEF hsf_read_server_hello
    <3>2. res.ok = FALSE /\ IsSession(res.h)
      BY <3>1, Refusal, ZenonT(40)
    <3> QED BY <3>2, Zenon
  <2>5. CASE /\ m.type = "server_hello" /\ hsp_parse_server_hello(h.t.cfg, m) /\ take_suite(h, m)
             /\ ~m.hrr
    <3>1. res = Ok(Hear(named, m))
      BY <2>5 DEF hsf_read_server_hello, named
    <3>2. SameBut(h, Hear(named, m), {"transcript"}, {"suite"})
      BY <2>1, HearFacts DEF SameBut
    <3>3. res.ok = TRUE /\ res.h = Hear(named, m)
      BY <3>1 DEF Ok
    <3>4. IsSession(res.h) /\ res.h.t.transcript = Append(h.t.transcript, m)
      BY <2>1, <3>3, HearFacts
    <3> QED BY <2>5, <3>2, <3>3, <3>4, ZenonT(40)
  <2>6. CASE /\ m.type = "server_hello" /\ hsp_parse_server_hello(h.t.cfg, m) /\ take_suite(h, m)
             /\ m.hrr /\ RetryAllowed(h, m)
    <3>1. res = Ok(tried)
      BY <2>6 DEF hsf_read_server_hello, named, again, tried
    <3>2. res.ok = TRUE /\ res.h = tried
      BY <3>1 DEF Ok
    <3> QED BY <2>2, <2>3, <2>6, <3>2, ZenonT(40)
  <2>7. CASE /\ m.type = "server_hello" /\ hsp_parse_server_hello(h.t.cfg, m) /\ take_suite(h, m)
             /\ m.hrr /\ ~RetryAllowed(h, m)
    <3>1. res = No(again, "illegal_parameter")
      BY <2>7 DEF hsf_read_server_hello, named, again
    <3>2. res.ok = FALSE /\ IsSession(res.h)
      BY <2>2, <3>1, Refusal, ZenonT(40)
    <3> QED BY <3>2, Zenon
  <2> QED BY <2>4, <2>5, <2>6, <2>7, ZenonT(40)
\* An accepted ServerHello names a group of the client's shares, and takes the
\* ticket or leaves it as the client allows.
<1>AcceptFacts.
    ASSUME NEW h, IsSession(h), NEW m, NEW res, res = hsf_accept_server_hello(h, m)
    PROVE  /\ IsSession(res.h) /\ res.ok \in BOOLEAN
           /\ res.ok =>
                 /\ SameBut(h, res.h, {"group", "suite", "psk_selected"}, {"early"})
                 /\ m.group # "none" /\ selected_group_ok(h, m.group)
                 /\ PskOffered(h) /\ m.psk = "zero" => h.t.cfg.psk = HashOf(m.suite)
                 /\ PskOffered(h) => m.psk \in {"none", "zero"}
                 /\ TwoGroups(h.t.cfg) /\ h.t.cfg.require_pq => m.group = "hybrid"
                 /\ res.h.t.group = m.group
                 /\ res.h.t.psk_selected = (PskOffered(h) /\ m.psk = "zero")
                 /\ res.h.hs.early = IF PskOffered(h) /\ m.psk = "zero" THEN h.hs.early
                                                                        ELSE "nopsk"
  <2> USE <1>AcceptFacts
  <2> DEFINE g    == [h EXCEPT !.t.group = m.group, !.t.suite = m.suite]
             took == PskOffered(h) /\ m.psk = "zero"
             left == PskOffered(h) /\ m.psk # "zero"
             d    == IF ~PskOffered(h) THEN [g EXCEPT !.hs.early = "nopsk"]
                     ELSE IF left THEN decline_psk(g) ELSE g
             s    == [d EXCEPT !.t.psk_selected = took]
  <2>1. IsSession(g) /\ SameBut(h, g, {"group", "suite"}, {}) /\ g.t.group = m.group
    BY Zenon DEF IsSession, TlsFields, HsFields, SameBut
  <2>2. /\ IsSession(d) /\ SameBut(h, d, {"group", "suite"}, {"early"}) /\ d.t.group = m.group
        /\ d.hs.early = IF took THEN h.hs.early ELSE "nopsk"
    <3> HIDE DEF g
    <3> QED BY <2>1 DEF decline_psk, IsSession, TlsFields, HsFields, SameBut
  <2> HIDE DEF d
  <2>3. /\ IsSession(s) /\ SameBut(h, s, {"group", "suite", "psk_selected"}, {"early"})
        /\ s.t.group = m.group /\ s.t.psk_selected = took
        /\ s.hs.early = IF took THEN h.hs.early ELSE "nopsk"
    BY <2>2 DEF IsSession, TlsFields, HsFields, SameBut
  <2> HIDE DEF g, s
  <2> DEFINE Admitted ==
               /\ m.group # "none" /\ selected_group_ok(h, m.group)
               /\ left => h.t.cfg.trust = "webpki" /\ m.psk = "none"
               /\ took => h.t.cfg.psk = HashOf(m.suite)
               /\ TwoGroups(h.t.cfg) /\ h.t.cfg.require_pq => m.group = "hybrid"
  <2>4. CASE ~Admitted
    <3>1. \E x \in {g, d, s} : \E a : res = No(x, a)
      BY <2>4, Zenon DEF hsf_accept_server_hello, g, d, s
    <3>2. PICK x \in {g, d, s} : \E a : res = No(x, a)
      BY <3>1
    <3>3. IsSession(x)
      BY <2>1, <2>2, <2>3
    <3>4. res.ok = FALSE /\ IsSession(res.h)
      BY <3>2, <3>3, Refusal, ZenonT(40)
    <3> QED BY <3>4, Zenon
  <2>5. CASE Admitted
    <3>1. res = Ok(s)
      BY <2>5 DEF hsf_accept_server_hello, g, d, s
    <3>2. res.ok = TRUE /\ res.h = s
      BY <3>1 DEF Ok
    <3> QED BY <2>3, <2>5, <3>2, ZenonT(40)
  <2> QED BY <2>4, <2>5
\* The derivation spends the private keys and the early secret, and the handshake
\* secrets cover everything up to the ServerHello.
<1>DeriveFacts.
    ASSUME NEW h, IsSession(h), NEW m, NEW res, res = hsf_derive_handshake_secrets(h, m)
    PROVE  /\ IsSession(res.h) /\ res.ok \in BOOLEAN
           /\ res.ok =>
                 /\ SameBut(h, res.h, {}, {"kex", "early", "handshake_secret", "c_hs", "s_hs"})
                 /\ m.share_ok
                 /\ res.h.hs.kex = {} /\ res.h.hs.early = "zero"
                 /\ res.h.hs.s_hs = Secret(h, "s hs") /\ res.h.hs.c_hs = Secret(h, "c hs")
                 /\ res.h.hs.handshake_secret = Secret(h, "hs")
  <2> USE <1>DeriveFacts
  <2> DEFINE spent == [h EXCEPT !.hs.kex = {}, !.hs.early = "zero"]
             keyed == [spent EXCEPT !.hs.handshake_secret = Secret(h, "hs"),
                                    !.hs.c_hs = Secret(h, "c hs"),
                                    !.hs.s_hs = Secret(h, "s hs")]
  <2>1. /\ IsSession(spent) /\ SameBut(h, spent, {}, {"kex", "early"})
        /\ spent.hs.kex = {} /\ spent.hs.early = "zero"
    BY Zenon DEF IsSession, TlsFields, HsFields, SameBut
  <2> HIDE DEF spent
  <2>2. /\ IsSession(keyed)
        /\ SameBut(h, keyed, {}, {"kex", "early", "handshake_secret", "c_hs", "s_hs"})
        /\ keyed.hs.kex = {} /\ keyed.hs.early = "zero"
        /\ keyed.hs.s_hs = Secret(h, "s hs") /\ keyed.hs.c_hs = Secret(h, "c hs")
        /\ keyed.hs.handshake_secret = Secret(h, "hs")
    BY <2>1, Zenon DEF IsSession, TlsFields, HsFields, SameBut
  <2> HIDE DEF keyed
  <2>3. CASE ~m.share_ok
    <3>1. res = No(spent, "illegal_parameter")
      BY <2>3 DEF hsf_derive_handshake_secrets, spent
    <3>2. res.ok = FALSE /\ IsSession(res.h)
      BY <2>1, <3>1, Refusal, ZenonT(40)
    <3> QED BY <3>2, Zenon
  <2>4. CASE m.share_ok
    <3>1. res = Ok(keyed)
      BY <2>4 DEF hsf_derive_handshake_secrets, spent, keyed
    <3>2. res.ok = TRUE /\ res.h = keyed
      BY <3>1 DEF Ok
    <3> QED BY <2>2, <2>4, <3>2, ZenonT(40)
  <2> QED BY <2>3, <2>4, ZenonT(40)
\* A retry request is read, and the second hello answers it.
<1>RetryFlow.
    ASSUME NEW h, IsSession(h), NEW m, NEW g, h.step = "AWAIT_SERVER_HELLO", HelloSent(h),
           IsSession(g), m.type = "server_hello", m.hrr,
           hsp_parse_server_hello(h.t.cfg, m), RetryAllowed(h, m),
           SameBut(h, g, {"transcript", "buf"}, {"suite", "cookie", "retry_group", "kex"}),
           g.t.transcript = << [type |-> "message_hash", of |-> h.t.transcript], m >>,
           g.hs.suite = m.suite, g.hs.cookie = m.cookie,
           g.hs.retry_group = IF m.group = "none" THEN h.hs.retry_group ELSE m.group,
           NEW k, k.hs = g.hs, k.t.cfg = g.t.cfg, k.step = "AWAIT_RETRY_HELLO",
           k.t.transcript = Append(g.t.transcript, ClientHello(g))
    PROVE  HelloSent(k)
  <2> USE <1>RetryFlow
  <2> DEFINE first == [type |-> "message_hash", of |-> h.t.transcript]
             ch    == ClientHello(g)
             tr    == k.t.transcript
  <2>1. g.t.cfg = h.t.cfg /\ g.hs.early = h.hs.early
    BY DEF SameBut, TlsFields, HsFields
  <2>2. /\ ch.type = "client_hello" /\ ch.suites = g.t.cfg.suites
        /\ ch.shares = HelloShares(g) /\ ch.cookie = g.hs.cookie
        /\ PskOffered(g) => ch.tickets # << >>
    BY HelloFacts
  <2> HIDE DEF ch
  <2>3. /\ IsSeq(tr) /\ Len(tr) = 3 /\ tr[1] = first /\ tr[2] = m /\ tr[3] = ch
    <3>1. tr = Append(<< first, m >>, ch)
      BY DEF ch
    <3>2. << first, m >> \in Seq({first, m})
      OBVIOUS
    <3>3. IsSeq(<< first, m >>) /\ Len(<< first, m >>) = 2
      BY <3>2, ZenonT(40) DEF IsSeq
    <3> HIDE DEF first
    <3> QED BY <3>1, <3>3, Heard
  <2>4. /\ Len(h.t.transcript) = 1 /\ h.t.transcript[1].shares = HelloShares(h)
        /\ h.hs.retry_group = "none" /\ (PskOffered(h) => h.hs.early = "psk")
    BY DEF HelloSent
  <2>5. /\ first.type = "message_hash" /\ first.of = h.t.transcript
    OBVIOUS
  <2> HIDE DEF first, tr
  <2>6. /\ m.suite # "none" /\ m.group = g.hs.retry_group
        /\ g.hs.retry_group # "none" => TwoGroups(h.t.cfg)
    BY <2>4 DEF hsp_parse_server_hello, BuildSuites, RetryAllowed
  <2>7. m.group \notin HelloShares(h)
    <3>1. m.group \in {"none", "p256"}
      BY DEF hsp_parse_server_hello
    <3>2. HelloShares(h) \subseteq {"hybrid", "x25519"}
      BY <2>4 DEF HelloShares, HelloGroups, BuildGroups
    <3> QED BY <3>1, <3>2
  <2>8. /\ HelloShares(k) = HelloShares(g) /\ (PskOffered(k) <=> PskOffered(g))
        /\ (PskOffered(k) <=> PskOffered(h))
    BY <2>1, SMTT(30) DEF HelloShares, PskOffered
  <2>9. /\ tr[1].type = "message_hash" /\ Len(tr[1].of) = 1
        /\ tr[2].group \notin tr[1].of[1].shares
    BY <2>3, <2>4, <2>5, <2>7
  <2> QED BY <2>1, <2>2, <2>3, <2>4, <2>6, <2>8, <2>9 DEF HelloSent, tr
\* The group of an accepted ServerHello is one the client sent a share for.
<1>ShareSent.
    ASSUME NEW h, NEW m, h.hs.retry_group # "none" => TwoGroups(h.t.cfg), ~m.hrr,
           hsp_parse_server_hello(h.t.cfg, m), m.group # "none", selected_group_ok(h, m.group),
           TwoGroups(h.t.cfg) /\ h.t.cfg.require_pq => m.group = "hybrid"
    PROVE  m.group \in HelloShares(h)
  <2> USE <1>ShareSent
  <2>1. m.group \in BuildGroups(h.t.cfg)
    BY DEF hsp_parse_server_hello
  <2>2. CASE ~TwoGroups(h.t.cfg)
    BY <2>1, <2>2 DEF HelloShares, HelloGroups, BuildGroups
  <2>3. CASE TwoGroups(h.t.cfg) /\ h.hs.retry_group # "none"
    BY <2>3 DEF HelloShares, selected_group_ok
  <2>4. CASE TwoGroups(h.t.cfg) /\ h.hs.retry_group = "none"
    BY <2>1, <2>4 DEF HelloShares, HelloGroups, selected_group_ok
  <2> QED BY <2>2, <2>3, <2>4
\* A ServerHello answers the hello before it.
<1>HelloPlace.
    ASSUME NEW old, IsSeq(old), Len(old) \in {1, 3}, NEW m
    PROVE  \E at \in {2, 4} : HeardAt(old, Append(old, m), m, at)
  <2> USE <1>HelloPlace
  <2> DEFINE tr == Append(old, m)
  <2>1. /\ IsSeq(tr) /\ Len(tr) = Len(old) + 1 /\ tr[Len(old) + 1] = m
        /\ \A i \in 1..Len(old) : tr[i] = old[i]
    BY Heard
  <2> HIDE DEF tr
  <2>2. Prefix(tr, Len(tr)) = tr
    BY <2>1, WholePrefix
  <2>3. CASE Len(old) = 1
    <3>1. Len(tr) = 2 /\ tr[2] = m /\ tr[2 - 1] = old[1]
      BY <2>1, <2>3
    <3> QED BY <2>1, <2>2, <2>3, <3>1 DEF HeardAt, tr
  <2>4. CASE Len(old) = 3
    <3>1. /\ Len(tr) = 4 /\ tr[4] = m /\ tr[4 - 1] = old[3]
          /\ tr[1] = old[1] /\ tr[2] = old[2]
      BY <2>1, <2>4
    <3> QED BY <2>1, <2>2, <2>4, <3>1 DEF HeardAt, tr
  <2> QED BY <2>3, <2>4
\* After an accepted ServerHello both hellos are legal, and the keys are theirs.
<1>GreetFlow.
    ASSUME NEW h, h.step \in AwaitsHello, HelloSent(h), NEW m, m.type = "server_hello", ~m.hrr,
           hsp_parse_server_hello(h.t.cfg, m), take_suite(h, m),
           m.group # "none", selected_group_ok(h, m.group), m.share_ok,
           PskOffered(h) /\ m.psk = "zero" => h.t.cfg.psk = HashOf(m.suite),
           PskOffered(h) => m.psk \in {"none", "zero"},
           TwoGroups(h.t.cfg) /\ h.t.cfg.require_pq => m.group = "hybrid",
           NEW k, k.t.cfg = h.t.cfg,
           k.t.psk_selected = (PskOffered(h) /\ m.psk = "zero"),
           k.hs.s_hs.label = "s hs", k.hs.c_hs.label = "c hs",
           k.hs.s_hs.over = k.t.transcript, k.hs.s_hs.group = m.group,
           k.hs.s_hs.early = IF PskOffered(h) /\ m.psk = "zero" THEN h.hs.early ELSE "nopsk",
           NEW at \in {2, 4}, HeardAt(h.t.transcript, k.t.transcript, m, at)
    PROVE  Greeted(k, at) /\ Len(k.t.transcript) = at
  <2> USE <1>GreetFlow
  <2> DEFINE old == h.t.transcript
             n   == Len(old)
             tr  == k.t.transcript
  <2>1. /\ n \in {1, 3}
        /\ old[n].type = "client_hello" /\ old[n].suites = h.t.cfg.suites
        /\ old[n].shares = HelloShares(h) /\ old[n].cookie = h.hs.cookie
        /\ PskOffered(h) => old[n].tickets # << >> /\ h.hs.early = "psk"
        /\ n = 1 => h.hs.retry_group = "none"
    BY ZenonT(40) DEF HelloSent
  <2>2. n = 3 =>
           /\ old[1].type = "message_hash" /\ Len(old[1].of) = 1
           /\ old[2].type = "server_hello" /\ old[2].hrr
           /\ old[2].suite = h.hs.suite /\ h.hs.suite # "none"
           /\ old[2].cookie = h.hs.cookie /\ old[2].group = h.hs.retry_group
           /\ old[2].group \notin old[1].of[1].shares
           /\ h.hs.retry_group # "none" => TwoGroups(h.t.cfg)
    BY Zenon DEF HelloSent
  <2>3. /\ IsSeq(tr) /\ Len(tr) = at /\ at <= Len(tr)
        /\ tr[at] = m /\ tr[at - 1] = old[n] /\ Prefix(tr, at) = tr
        /\ at = 2 \/ (at = 4 /\ n = 3 /\ tr[1] = old[1] /\ tr[2] = old[2])
    BY ZenonT(40) DEF HeardAt
  <2>4. m.group \in HelloShares(h)
    BY <2>1, <2>2, <1>ShareSent, ZenonT(40)
  <2>5. m.psk # "none" => PskOffered(h) /\ m.psk = "zero"
    BY ZenonT(40) DEF hsp_parse_server_hello, PskOffered
  <2>6. m.suite \in h.t.cfg.suites /\ (n = 3 => old[2].suite = m.suite)
    BY <2>2, ZenonT(40) DEF take_suite
  <2> HIDE DEF old, n, tr
  <2>7. LegalHellos(h.t.cfg, tr, at)
    <3> DEFINE ch == tr[at - 1]
               sh == tr[at]
    <3>1. ch = old[n] /\ sh = m
      BY <2>3, ZenonT(40)
    <3>2. n = 3 => (old[2].group # "none" => old[n].shares = {old[2].group})
      BY <2>1, <2>2, ZenonT(40) DEF HelloShares
    <3> HIDE DEF ch, sh
    <3>3. /\ ch.type = "client_hello" /\ sh.type = "server_hello" /\ ~sh.hrr
          /\ sh.suite \in ch.suites /\ sh.group \in ch.shares /\ sh.share_ok
          /\ sh.psk # "none" => ch.tickets # << >> /\ h.t.cfg.psk = HashOf(sh.suite)
      BY <2>1, <2>4, <2>5, <2>6, <3>1, ZenonT(40)
    <3>4. at = 2 \/ (/\ at = 4
                     /\ tr[1].type = "message_hash" /\ Len(tr[1].of) = 1
                     /\ tr[2].type = "server_hello" /\ tr[2].hrr
                     /\ tr[2].suite = sh.suite
                     /\ ch.cookie = tr[2].cookie
                     /\ tr[2].group # "none" => ch.shares = {tr[2].group}
                     /\ tr[2].group \notin tr[1].of[1].shares)
      <4>1. ch.cookie = h.hs.cookie
        BY <2>1, <3>1, ZenonT(40)
      <4> QED BY <2>2, <2>3, <2>6, <3>1, <3>2, <4>1, ZenonT(40)
    <3> QED BY <3>3, <3>4, ZenonT(40) DEF LegalHellos, ch, sh
  <2>8. /\ k.t.psk_selected = (tr[at].psk = "zero")
        /\ k.hs.s_hs.early = IF tr[at].psk = "zero" THEN "psk" ELSE "nopsk"
    <3>1. (m.psk = "zero") = (PskOffered(h) /\ m.psk = "zero")
      BY <2>5, ZenonT(40)
    <3> QED BY <2>1, <2>3, <3>1, ZenonT(40)
  <2>9. Greeted(k, at)
    BY <2>3, <2>7, <2>8, ZenonT(40) DEF Greeted, tr
  <2> QED BY <2>3, <2>9, ZenonT(40) DEF tr
\* A message on the Initial level is answered when the hello before it is out.
<1>HelloOut.
    ASSUME NEW h, Client(h), h.step \in AwaitsHello
    PROVE  /\ HelloSent(h) /\ h.made = HelloRecords(h.t.transcript)
           /\ Len(h.t.transcript) = IF h.step = "AWAIT_RETRY_HELLO" THEN 3 ELSE 1
           /\ h.t.cfg.stored \in Nat /\ (EpochChecked(h) => h.t.epoch = h.t.cfg.stored)
  <2> USE <1>HelloOut
  <2>1. /\ HelloSent(h) /\ HelloTold(h) /\ h.t.cfg.stored \in Nat
        /\ EpochChecked(h) /\ h.step # "COMPLETE" => h.t.epoch = h.t.cfg.stored
    BY Zenon DEF Client, ClientStory
  <2>2. h.step # "COMPLETE"
    BY DEF AwaitsHello
  <2>3. h.tx # << h.t.transcript[Len(h.t.transcript)] >>
    <3>1. h.tx = << >>
      BY Zenon DEF Client
    <3> QED BY <3>1
  <2>4. h.made = HelloRecords(h.t.transcript)
    BY <2>1, <2>3, ZenonT(40) DEF HelloTold
  <2> QED BY <2>1, <2>2, <2>4, ZenonT(40) DEF HelloSent
\* A first retry request is answered by a second hello, which is staged.
<1>RetriedTold.
    ASSUME NEW h, Client(h), h.step \in AwaitsHello, NEW m, NEW g, IsSession(g),
           m.type = "server_hello", m.hrr, hsp_parse_server_hello(h.t.cfg, m), RetryAllowed(h, m),
           SameBut(h, g, {"transcript"}, {"suite", "cookie", "retry_group", "kex"}),
           g.t.transcript = << [type |-> "message_hash", of |-> h.t.transcript], m >>,
           g.hs.suite = m.suite, g.hs.cookie = m.cookie,
           g.hs.retry_group = IF m.group = "none" THEN h.hs.retry_group ELSE m.group
    PROVE  Told(Retried(g))
  <2> USE <1>RetriedTold
  <2> DEFINE res   == Retried(g)
             ch    == ClientHello(g)
             b     == Hear(g, ch)
             k     == [b EXCEPT !.tx = << ch >>, !.tx_level = 0, !.step = "AWAIT_RETRY_HELLO"]
             first == [type |-> "message_hash", of |-> h.t.transcript]
             tr    == k.t.transcript
  <2>1. res = No(g, "unexpected_message") \/ (g.step # "AWAIT_RETRY_HELLO" /\ res = Ok(k))
    BY ZenonT(40) DEF Retried, hsf_build_client_hello
  <2>2. /\ HelloSent(h) /\ h.made = HelloRecords(h.t.transcript)
        /\ Len(h.t.transcript) = IF h.step = "AWAIT_RETRY_HELLO" THEN 3 ELSE 1
        /\ h.t.cfg.stored \in Nat /\ (EpochChecked(h) => h.t.epoch = h.t.cfg.stored)
        /\ h.tx = << >> /\ IsSession(h) /\ h.t.cfg.role # "server"
    BY <1>HelloOut, ZenonT(40) DEF Client
  <2>3. /\ g.t.cfg = h.t.cfg /\ g.t.epoch = h.t.epoch /\ g.step = h.step /\ g.made = h.made
        /\ g.tx = h.tx
    BY DEF SameBut, TlsFields, OwnFields
  <2> HIDE DEF res, ch
  <2>4. /\ IsSession(b) /\ SameBut(g, b, {"transcript"}, {}) /\ b.hs = g.hs
        /\ b.t.transcript = Append(g.t.transcript, ch)
    BY HearFacts, ZenonT(40)
  <2> HIDE DEF b
  <2>5. /\ b.t.cfg = g.t.cfg /\ b.t.epoch = g.t.epoch /\ b.made = g.made
    BY <2>4 DEF SameBut, TlsFields, OwnFields
  <2>6. /\ IsSession(k) /\ k.t = b.t /\ k.hs = b.hs /\ k.step = "AWAIT_RETRY_HELLO"
        /\ k.tx = << ch >> /\ k.tx_level = 0 /\ k.made = b.made
    BY <2>4 DEF IsSession, OwnFields
  <2> HIDE DEF k
  <2>7. CASE res = No(g, "unexpected_message")
    BY <2>7, RefusalTold, ZenonT(40) DEF res
  <2>8. CASE g.step # "AWAIT_RETRY_HELLO" /\ res = Ok(k)
    <3>1. res.ok = TRUE /\ res.h = k
      BY <2>8 DEF Ok
    <3>2. h.step = "AWAIT_SERVER_HELLO"
      BY <2>3, <2>8 DEF AwaitsHello
    <3>3. HelloSent(k)
      <4>1. SameBut(h, g, {"transcript", "buf"}, {"suite", "cookie", "retry_group", "kex"})
        BY DEF SameBut
      <4>2. k.hs = g.hs /\ k.t.cfg = g.t.cfg /\ k.t.transcript = Append(g.t.transcript, ClientHello(g))
        BY <2>4, <2>5, <2>6, ZenonT(40) DEF ch
      <4> QED BY <2>2, <2>6, <3>2, <4>1, <4>2, <1>RetryFlow, ZenonT(40)
    <3>4. /\ Len(tr) = 3 /\ tr[1] = first /\ tr[3] = ch
      <4>1. tr = Append(<< first, m >>, ch)
        BY <2>4, <2>6
      <4> HIDE DEF first
      <4> QED BY <4>1
    <3>5. first.of = h.t.transcript
      OBVIOUS
    <3>6. h.made = << Out(0, h.t.transcript[1]) >>
      <4>1. Len(h.t.transcript) = 1
        BY <2>2, <3>2
      <4>2. h.t.transcript[1].type = "client_hello"
        BY <2>2, <4>1 DEF HelloSent
      <4>3. h.t.transcript[1].type # "message_hash"
        BY <4>2
      <4> QED BY <2>2, <4>3, ZenonT(40) DEF HelloRecords
    <3> HIDE DEF first, tr
    <3>7. HelloTold(k)
      <4>1. k.tx = << tr[3] >> /\ k.tx_level = 0
        BY <2>6, <3>4, ZenonT(40)
      <4>2. k.made = << Out(0, tr[1].of[1]) >>
        BY <2>3, <2>5, <2>6, <3>4, <3>5, <3>6, ZenonT(40)
      <4>3. Len(tr) # 1
        BY <3>4
      <4> QED BY <3>4, <4>1, <4>2, <4>3, ZenonT(40) DEF HelloTold, tr
    <3>8. k.t.cfg = h.t.cfg /\ k.t.epoch = h.t.epoch /\ (EpochChecked(k) <=> EpochChecked(h))
      BY <2>3, <2>5, <2>6, ZenonT(40) DEF EpochChecked
    <3>9. ClientStory(k)
      BY <2>2, <2>6, <3>3, <3>7, <3>8 DEF ClientStory, AwaitsHello, FlightSteps
    <3>10. Tells(k)
      BY <2>2, <3>8, <3>9, ZenonT(40) DEF Tells
    <3> QED BY <2>6, <3>1, <3>10, ZenonT(40) DEF Told, res
  <2> QED BY <2>1, <2>7, <2>8
\* A ServerHello that is accepted starts the encrypted flight.
<1>AcceptedTold.
    ASSUME NEW h, Client(h), h.step \in AwaitsHello, NEW m, NEW g, IsSession(g),
           m.type = "server_hello", ~m.hrr, hsp_parse_server_hello(h.t.cfg, m), take_suite(h, m),
           SameBut(h, g, {"transcript"}, {"suite"}),
           g.t.transcript = Append(h.t.transcript, m)
    PROVE  Told(Accepted(g, m))
  <2> USE <1>AcceptedTold
  <2> DEFINE a1  == hsf_accept_server_hello(g, m)
             b   == a1.h
             a2  == hsf_derive_handshake_secrets(b, m)
             k   == a2.h
             i   == install_handshake_keys(k, k.hs.s_hs, k.hs.c_hs)
             n   == [i EXCEPT !.rx_level = 1, !.step = "AWAIT_ENCRYPTED_EXTENSIONS"]
             res == Accepted(g, m)
  <2>1. res = IF ~a1.ok THEN a1 ELSE IF ~a2.ok THEN a2 ELSE Ok(n)
    BY Zenon DEF Accepted, Then
  <2> HIDE DEF res
  <2>2. /\ IsSession(b) /\ a1.ok \in BOOLEAN
        /\ a1.ok => /\ SameBut(g, b, {"group", "suite", "psk_selected"}, {"early"})
                    /\ m.group # "none" /\ selected_group_ok(g, m.group)
                    /\ PskOffered(g) /\ m.psk = "zero" => g.t.cfg.psk = HashOf(m.suite)
                    /\ PskOffered(g) => m.psk \in {"none", "zero"}
                    /\ TwoGroups(g.t.cfg) /\ g.t.cfg.require_pq => m.group = "hybrid"
                    /\ b.t.group = m.group
                    /\ b.t.psk_selected = (PskOffered(g) /\ m.psk = "zero")
                    /\ b.hs.early = IF PskOffered(g) /\ m.psk = "zero" THEN g.hs.early ELSE "nopsk"
    BY <1>AcceptFacts, ZenonT(40)
  <2> HIDE DEF a1, b
  <2>3. /\ IsSession(k) /\ a2.ok \in BOOLEAN
        /\ a2.ok => /\ SameBut(b, k, {}, {"kex", "early", "handshake_secret", "c_hs", "s_hs"})
                    /\ m.share_ok
                    /\ k.hs.s_hs = Secret(b, "s hs") /\ k.hs.c_hs = Secret(b, "c hs")
    BY <2>2, <1>DeriveFacts, ZenonT(40)
  <2> HIDE DEF a2, k
  <2>4. CASE ~a1.ok
    <3>1. res = a1
      BY <2>1, <2>4, ZenonT(40)
    <3> QED BY <2>2, <2>4, <3>1, ZenonT(40) DEF Told, res, b
  <2>5. CASE a1.ok /\ ~a2.ok
    <3>1. res = a2
      BY <2>1, <2>5, ZenonT(40)
    <3> QED BY <2>3, <2>5, <3>1, ZenonT(40) DEF Told, res, k
  <2>6. CASE a1.ok /\ a2.ok
    <3>1. res.ok = TRUE /\ res.h = n
      BY <2>1, <2>6 DEF Ok
    <3>2. /\ IsSession(i) /\ i.t = k.t /\ i.hs = k.hs /\ i.tx = k.tx /\ i.made = k.made
      <4> DEFINE rd == k.hs.s_hs
                 wr == k.hs.c_hs
      <4>1. i = install_handshake_keys(k, rd, wr)
        OBVIOUS
      <4> HIDE DEF i, rd, wr
      <4>2. /\ IsSession(i) /\ i.t = k.t /\ i.hs = k.hs
            /\ \A f \in OwnFields \ {"ready", "handshake_rx", "handshake_hp_rx",
                                     "handshake_tx", "handshake_hp_tx"} : i[f] = k[f]
        <5>1. IsSession(k)
          BY <2>3, ZenonT(40)
        <5> QED BY <4>1, <5>1, InstallsHandshake
      <4> QED BY <4>2 DEF OwnFields
    <3> HIDE DEF i
    <3>3. /\ IsSession(n) /\ n.t = k.t /\ n.hs = k.hs /\ n.tx = k.tx /\ n.made = k.made
          /\ n.step = "AWAIT_ENCRYPTED_EXTENSIONS"
      BY <3>2 DEF IsSession, OwnFields
    <3> HIDE DEF n
    <3>4. /\ SameBut(g, b, {"group", "suite", "psk_selected"}, {"early"})
          /\ SameBut(b, k, {}, {"kex", "early", "handshake_secret", "c_hs", "s_hs"})
      BY <2>2, <2>3, <2>6, ZenonT(40)
    <3>5. /\ k.t.cfg = h.t.cfg /\ k.t.epoch = h.t.epoch /\ k.tx = h.tx /\ k.made = h.made
          /\ k.t.transcript = g.t.transcript /\ k.t.psk_selected = b.t.psk_selected
          /\ b.t.transcript = g.t.transcript /\ g.t.cfg = h.t.cfg
      BY <3>4 DEF SameBut, TlsFields, OwnFields
    <3>6. g.hs.early = h.hs.early /\ g.hs.retry_group = h.hs.retry_group
      BY DEF SameBut, HsFields
    <3>7. /\ HelloSent(h) /\ h.made = HelloRecords(h.t.transcript)
          /\ Len(h.t.transcript) = IF h.step = "AWAIT_RETRY_HELLO" THEN 3 ELSE 1
          /\ h.t.cfg.stored \in Nat /\ (EpochChecked(h) => h.t.epoch = h.t.cfg.stored)
          /\ h.tx = << >> /\ IsSeq(h.t.transcript) /\ h.t.cfg.role # "server"
      BY <1>HelloOut, ZenonT(40) DEF Client
    <3>8. /\ (PskOffered(g) <=> PskOffered(h)) /\ selected_group_ok(h, m.group)
      BY <2>2, <2>6, <3>5, <3>6, ZenonT(40) DEF PskOffered, selected_group_ok
    <3>9. /\ k.hs.s_hs.label = "s hs" /\ k.hs.c_hs.label = "c hs"
          /\ k.hs.s_hs.over = b.t.transcript /\ k.hs.s_hs.group = b.t.group
          /\ k.hs.s_hs.early = b.hs.early
      <4>1. k.hs.s_hs = Secret(b, "s hs") /\ k.hs.c_hs = Secret(b, "c hs")
        BY <2>3, <2>6, ZenonT(40)
      <4>2. \A l : LET x == Secret(b, l) IN
                   x.label = l /\ x.over = b.t.transcript /\ x.group = b.t.group /\ x.early = b.hs.early
        BY DEF Secret
      <4> QED BY <4>1, <4>2, ZenonT(40)
    <3>10. k.t.transcript = Append(h.t.transcript, m)
      BY <3>5, ZenonT(40)
    <3>11. Len(h.t.transcript) \in {1, 3}
      BY <3>7
    <3>12. PICK at \in {2, 4} : HeardAt(h.t.transcript, k.t.transcript, m, at)
      BY <3>7, <3>10, <3>11, <1>HelloPlace, ZenonT(40)
    <3>13. Greeted(k, at) /\ Len(k.t.transcript) = at
      <4>1. /\ PskOffered(h) /\ m.psk = "zero" => h.t.cfg.psk = HashOf(m.suite)
            /\ PskOffered(h) => m.psk \in {"none", "zero"}
            /\ TwoGroups(h.t.cfg) /\ h.t.cfg.require_pq => m.group = "hybrid"
            /\ m.group # "none" /\ m.share_ok
        BY <2>2, <2>3, <2>6, <3>5, <3>8, ZenonT(40)
      <4>2. /\ k.t.psk_selected = (PskOffered(h) /\ m.psk = "zero")
            /\ k.hs.s_hs.over = k.t.transcript /\ k.hs.s_hs.group = m.group
            /\ k.hs.s_hs.early = IF PskOffered(h) /\ m.psk = "zero" THEN h.hs.early ELSE "nopsk"
        BY <2>2, <2>6, <3>5, <3>6, <3>8, <3>9, ZenonT(40)
      <4> QED BY <3>5, <3>7, <3>8, <3>9, <3>12, <4>1, <4>2, <1>GreetFlow, ZenonT(40)
    <3>14. HelloRecords(k.t.transcript) = HelloRecords(h.t.transcript)
      <4> DEFINE old == h.t.transcript
                 tr  == k.t.transcript
      <4>1. Len(old) \in Nat /\ \A j \in 1..Len(old) : tr[j] = old[j]
        BY <3>7, <3>10, Heard
      <4>2. old[1].type = "message_hash" => Len(old) = 3
        <5>1. old[Len(old)].type = "client_hello"
          BY <3>7, ZenonT(40) DEF HelloSent
        <5> HIDE DEF old
        <5> QED BY <3>11, <5>1 DEF old
      <4>3. 1 <= Len(old) /\ (old[1].type = "message_hash" => 3 <= Len(old))
        <5> DEFINE L == Len(old)
        <5>1. L \in {1, 3} /\ (old[1].type = "message_hash" => L = 3)
          BY <3>11, <4>2, ZenonT(40)
        <5> HIDE DEF L, old
        <5>2. 1 <= L /\ (old[1].type = "message_hash" => 3 <= L)
          BY <5>1
        <5> QED BY <5>2, ZenonT(40) DEF L
      <4> HIDE DEF old, tr
      <4> QED BY <4>1, <4>3, RecordsStay, ZenonT(40) DEF old, tr
    <3>15. Greeted(n, at) /\ Len(n.t.transcript) = at
      BY <3>3, <3>13, ZenonT(40) DEF Greeted
    <3>16. n.tx = << >> /\ n.made = HelloRecords(n.t.transcript) /\ n.t.cfg = h.t.cfg
      BY <3>3, <3>5, <3>7, <3>14, ZenonT(40)
    <3>17. EpochChecked(n) => n.t.epoch = n.t.cfg.stored
      BY <3>3, <3>5, <3>7, ZenonT(40) DEF EpochChecked
    <3>18. ClientStory(n)
      BY <3>3, <3>7, <3>15, <3>16, <3>17 DEF ClientStory, AwaitsHello, FlightSteps
    <3>19. Tells(n)
      BY <3>7, <3>16, <3>18, ZenonT(40) DEF Tells
    <3> QED BY <3>1, <3>3, <3>19, ZenonT(40) DEF Told, res
  <2> QED BY <2>2, <2>3, <2>4, <2>5, <2>6, ZenonT(40)
<1> DEFINE m    == NextMsg(q)
           h    == Taken(q)
           read == hsf_read_server_hello(h, m)
           g    == read.h
           res  == IF read.ok THEN IF m.hrr THEN Retried(g) ELSE Accepted(g, m) ELSE read
<1>1. Advance(res) /\ At("client", {"AWAIT_SERVER_HELLO", "AWAIT_RETRY_HELLO"})
  BY ZenonT(40) DEF step_server_hello, Then
<1>2. q.step \in AwaitsHello /\ q.t.cfg.role # "server"
  BY <1>1 DEF At, AwaitsHello
<1>3. /\ IsSession(h) /\ SameTelling(q, h) /\ Tells(h) /\ q.tx = << >> /\ IsSeq(q.t.transcript)
  BY TurnTells, ZenonT(40)
<1> HIDE DEF h, m
<1>4. Client(h) /\ h.step \in AwaitsHello
  BY <1>2, <1>3, ZenonT(40) DEF SameTelling, Client, Tells
<1>5. IsSession(g) /\ read.ok \in BOOLEAN
  BY <1>3, <1>ReadHello, ZenonT(40)
<1>6. CASE ~read.ok
  <2>1. res = read
    BY <1>6, ZenonT(40)
  <2> HIDE DEF res, read
  <2> QED BY <1>1, <1>5, <1>6, <2>1, AdvanceTells, ZenonT(40) DEF g
<1>7. CASE read.ok /\ m.hrr
  <2>1. res = Retried(g)
    BY <1>7, ZenonT(40)
  <2>2. /\ m.type = "server_hello" /\ hsp_parse_server_hello(h.t.cfg, m) /\ RetryAllowed(h, m)
        /\ SameBut(h, g, {"transcript"}, {"suite", "cookie", "retry_group", "kex"})
        /\ g.t.transcript = << [type |-> "message_hash", of |-> h.t.transcript], m >>
        /\ g.hs.suite = m.suite /\ g.hs.cookie = m.cookie
        /\ g.hs.retry_group = IF m.group = "none" THEN h.hs.retry_group ELSE m.group
    BY <1>3, <1>7, <1>ReadHello, ZenonT(40)
  <2> HIDE DEF res, read, g
  <2>3. Told(res)
    BY <1>4, <1>5, <1>7, <2>1, <2>2, <1>RetriedTold, ZenonT(40)
  <2> QED BY <1>1, <2>3, AdvanceTells, ZenonT(40) DEF Told
<1>8. CASE read.ok /\ ~m.hrr
  <2>1. res = Accepted(g, m)
    BY <1>8, ZenonT(40)
  <2>2. /\ m.type = "server_hello" /\ hsp_parse_server_hello(h.t.cfg, m) /\ take_suite(h, m)
        /\ SameBut(h, g, {"transcript"}, {"suite"})
        /\ g.t.transcript = Append(h.t.transcript, m)
    BY <1>3, <1>8, <1>ReadHello, ZenonT(40)
  <2> HIDE DEF res, read, g
  <2>3. Told(res)
    BY <1>4, <1>5, <1>8, <2>1, <2>2, <1>AcceptedTold, ZenonT(40)
  <2> QED BY <1>1, <2>3, AdvanceTells, Zenon DEF Told
<1> QED BY <1>5, <1>6, <1>7, <1>8, ZenonT(40)

\* k is h one message later, in the middle of the flight
Onward(h, k, m, at, s) ==
    LET old == h.t.transcript
        tr  == k.t.transcript
    IN  /\ IsSession(k) /\ k.step = s /\ k.tx = << >> /\ k.made = HelloRecords(tr)
        /\ k.t.cfg = h.t.cfg /\ k.t.cfg.role # "server" /\ k.t.cfg.stored \in Nat
        /\ EpochChecked(h) => h.t.epoch = h.t.cfg.stored
        /\ EpochChecked(k) => k.t.epoch = k.t.cfg.stored
        /\ k.t.psk_selected = h.t.psk_selected /\ Greeted(k, at)
        /\ Len(old) \in Nat /\ Len(tr) = Len(old) + 1 /\ tr[Len(old) + 1] = m
        /\ \A i \in 1..Len(old) : tr[i] = old[i]
        /\ Prefix(tr, Len(old)) = old

\* The server's Finished: the client's own is staged, and the flight is complete.
LEMMA FinishedTold ==
    ASSUME NEW h, Client(h), h.step = "AWAIT_FINISHED", h.t.state = "START",
           "over" \in DOMAIN h.hs.handshake_secret, DOMAIN h.app_rx = KeySets, NEW m, NEW failed
    PROVE  LET read == hsf_read_finished(h, m) IN
           Told(IF read.ok THEN Ok(Finished(hsa_epoch_commit(read.h, failed))) ELSE read)
<1> DEFINE read == hsf_read_finished(h, m)
           g    == read.h
           e    == hsa_epoch_commit(g, failed)
           own  == ClientFinished(e)
           c    == hsf_complete(e)
           i    == install_application_keys(c, {"READ", "WRITE"})
           n    == [i EXCEPT !.tx = << own >>, !.tx_level = 1, !.rx_level = 2,
                             !.hs = NoHs, !.step = "COMPLETE"]
           res  == IF read.ok THEN Ok(Finished(e)) ELSE read
           old  == h.t.transcript
           mid  == g.t.transcript
           tr   == n.t.transcript
<1>1. /\ IsSession(g) /\ read.ok \in BOOLEAN
      /\ read.ok => /\ SameBut(h, g, {"transcript"}, {"server_finished_ok"})
                    /\ m.type = "finished" /\ m.key = h.hs.s_hs /\ m.over = old
                    /\ mid = Append(old, m)
  BY FinishedFacts, ZenonT(40) DEF Client
<1>2. Finished(e) = n
  BY ZenonT(40) DEF Finished
<1> HIDE DEF read, g
<1>3. CASE ~read.ok
  <2>1. res = read
    BY <1>3, ZenonT(40)
  <2> HIDE DEF res
  <2>2. Told(res)
    BY <1>1, <1>3, <2>1, ZenonT(40) DEF Told, g
  <2> QED BY <2>2, ZenonT(40) DEF res, read, g, e
<1>4. CASE read.ok
  <2>1. SameBut(h, g, {"transcript"}, {"server_finished_ok"})
    BY <1>1, <1>4, ZenonT(40)
  <2>2. IsSession(e) /\ SameBut(g, e, {"epoch", "epoch_store_failed"}, {}) /\ e.hs = g.hs
    BY <1>1, CommitFacts, ZenonT(40)
  <2> HIDE DEF e, own
  <2>3. /\ e.hs.handshake_secret = h.hs.handshake_secret /\ e.hs.c_hs = h.hs.c_hs
        /\ e.t.transcript = mid /\ e.app_rx = h.app_rx /\ e.made = h.made /\ e.t.cfg = h.t.cfg
        /\ e.t.state = h.t.state
    BY <2>1, <2>2 DEF SameBut, TlsFields, HsFields, OwnFields
  <2>4. /\ IsSession(c) /\ c.t.transcript = Append(mid, own)
        /\ SameBut(e, c, {"wr_secret", "rd_secret", "res_master", "transcript"}, {})
    BY <2>2, <2>3, CompleteFacts, ZenonT(40) DEF own
  <2> HIDE DEF c
  <2>5. /\ c.app_rx = h.app_rx /\ c.made = h.made /\ c.t.cfg = h.t.cfg /\ c.t.state = h.t.state
    BY <2>3, <2>4 DEF SameBut, TlsFields, OwnFields
  <2>6. /\ IsSession(i) /\ \A f \in TlsFields \ {"rd_secret"} : i.t[f] = c.t[f]
        /\ \A f \in OwnFields \ {"ready", "app_tx", "app_hp_tx", "app_rx", "app_hp_rx"} :
               i[f] = c[f]
    <3>1. DOMAIN c.app_rx = KeySets /\ IsSession(c)
      BY <2>4, <2>5, ZenonT(40)
    <3>2. i = install_application_keys(c, {"READ", "WRITE"})
      OBVIOUS
    <3> HIDE DEF i
    <3> QED BY <3>1, <3>2, InstallsApplication, SMTT(30)
  <2> HIDE DEF i
  <2>7. /\ i.made = h.made /\ i.t.cfg = h.t.cfg /\ i.t.state = h.t.state
        /\ i.t.transcript = Append(mid, own)
    BY <2>4, <2>5, <2>6 DEF TlsFields, OwnFields
  <2>8. /\ IsSession(n) /\ n.t = i.t /\ n.made = i.made /\ n.tx = << own >> /\ n.tx_level = 1
        /\ n.step = "COMPLETE"
    BY <2>6, BlankShape DEF IsSession, OwnFields
  <2> HIDE DEF n
  <2>9. own.type = "finished" /\ own.key.label = "c hs"
    <3>1. own.type = "finished" /\ own.key = e.hs.c_hs
      BY DEF own, ClientFinished, FinishedMessage
    <3>2. h.hs.c_hs.label = "c hs"
      BY ZenonT(40) DEF Client, ClientStory, Greeted
    <3> QED BY <3>1, <3>2, <2>3, ZenonT(40)
  <2>10. PICK at \in {2, 4} :
            /\ Greeted(h, at) /\ Len(old) = IF h.t.psk_selected THEN at + 1 ELSE at + 3
            /\ old[at + 1].type = "encrypted_extensions"
            /\ ~h.t.psk_selected => LegalCertificate(h, old, at + 2)
    BY ZenonT(40) DEF Client, ClientStory
  <2> DEFINE fin == IF h.t.psk_selected THEN at + 2 ELSE at + 4
  <2>11. Ending(old, m, mid, own, tr, at, fin)
    <3>1. IsSeq(old)
      BY Zenon DEF Client
    <3>2. Goes(old, m, mid) /\ Goes(mid, own, tr)
      BY <1>1, <1>4, <2>7, <2>8, ZenonT(40) DEF Goes
    <3> DEFINE L == Len(old)
    <3>3. L = IF h.t.psk_selected THEN at + 1 ELSE at + 3
      BY <2>10, ZenonT(40)
    <3> HIDE DEF L
    <3>4. at \in {2, 4} /\ fin \in {at + 2, at + 4} /\ L = fin - 1
      BY <2>10, <3>3
    <3> QED BY <3>1, <3>2, <3>4, ZenonT(40) DEF Ending, L
  <2>12. Ended(old, m, mid, own, tr, at, fin)
    BY <2>11, FlightEnd, ZenonT(40)
  <2>13. n.t.cfg = h.t.cfg /\ n.made = h.made /\ n.t.state = "START"
    BY <2>7, <2>8, ZenonT(40)
  <2>14. LegalFlight(n)
    <3>1. m.type = "finished" /\ m.key = h.hs.s_hs /\ m.over = h.t.transcript
      BY <1>1, <1>4, ZenonT(40)
    <3> QED BY <2>9, <2>10, <2>12, <2>13, <3>1, FinishedFlow, ZenonT(40)
  <2> HIDE DEF tr, old, mid
  <2>15. HelloRecords(tr) = HelloRecords(old)
    <3>1. at <= Len(old) /\ LegalHellos(h.t.cfg, old, at)
      BY <2>10, ZenonT(40) DEF Greeted, old
    <3>2. Len(old) \in Nat
      BY Heard DEF Client, old
    <3>3. 1 <= Len(old) /\ (old[1].type = "message_hash" => 3 <= Len(old))
      BY <3>1, <3>2, HellosLong, ZenonT(40)
    <3>4. \A j \in 1..Len(old) : tr[j] = old[j]
      BY <2>12, ZenonT(40) DEF Ended
    <3> QED BY <3>2, <3>3, <3>4, RecordsStay, ZenonT(40)
  <2>16. tr[Len(tr)] = own
    BY <2>12, ZenonT(40) DEF Ended
  <2>17. /\ h.t.cfg.role # "server" /\ h.t.cfg.stored \in Nat /\ h.made = HelloRecords(old)
    <3>1. h.step \in FlightSteps
      BY DEF FlightSteps
    <3> QED BY <3>1, ZenonT(40) DEF Client, ClientStory, old
  <2>18. n.step \notin AwaitsHello /\ n.step \notin FlightSteps
    BY <2>8 DEF AwaitsHello, FlightSteps
  <2>19. ClientStory(n)
    BY <2>8, <2>13, <2>14, <2>15, <2>16, <2>17, <2>18 DEF ClientStory, FlightSteps, tr
  <2>20. Tells(n)
    BY <2>13, <2>17, <2>19, ZenonT(40) DEF Tells
  <2>21. res.ok = TRUE /\ res.h = n
    BY <1>2, <1>4 DEF Ok
  <2> HIDE DEF res
  <2>22. Told(res)
    BY <2>8, <2>20, <2>21, ZenonT(40) DEF Told
  <2> QED BY <2>22, ZenonT(40) DEF res, read, g, e
<1> QED BY <1>1, <1>3, <1>4, ZenonT(40)

\* The turns of the encrypted flight.
LEMMA FlightTells ==
    ASSUME Turn, Story,
           step_encrypted_extensions \/ step_certificate \/ step_certificate_verify
    PROVE  Story'
\* EncryptedExtensions go to the transcript.
<1>ExtensionsFacts.
    ASSUME NEW h, IsSession(h), NEW m, NEW res, res = hsf_read_encrypted_extensions(h, m)
    PROVE  /\ IsSession(res.h) /\ res.ok \in BOOLEAN
           /\ res.ok => /\ SameBut(h, res.h, {"transcript", "alpn_selected"}, {"alert"})
                        /\ m.type = "encrypted_extensions"
                        /\ res.h.t.transcript = Append(h.t.transcript, m)
  <2> USE <1>ExtensionsFacts
  <2> DEFINE g == [h EXCEPT !.hs.alert = "illegal_parameter",
                            !.t.alpn_selected = IF Carries(m.exts, "alpn") THEN "alpn" ELSE @]
  <2>1. IsSession(g) /\ SameBut(h, g, {"alpn_selected"}, {"alert"})
    BY ZenonT(40) DEF IsSession, TlsFields, HsFields, SameBut
  <2>2. g.t.transcript = h.t.transcript
    BY <2>1 DEF SameBut, TlsFields
  <2>3. (\E a : res = No(h, a)) \/ (m.type = "encrypted_extensions" /\ res = Ok(Hear(g, m)))
    BY DEF hsf_read_encrypted_extensions
  <2> HIDE DEF g
  <2>4. CASE \E a : res = No(h, a)
    <3>1. PICK a : res = No(h, a)
      BY <2>4
    <3>2. res.ok = FALSE /\ IsSession(res.h)
      BY <3>1, Refusal, ZenonT(40)
    <3> QED BY <3>2, Zenon
  <2>5. CASE m.type = "encrypted_extensions" /\ res = Ok(Hear(g, m))
    <3>1. res.ok = TRUE /\ res.h = Hear(g, m)
      BY <2>5 DEF Ok
    <3> DEFINE k == Hear(g, m)
    <3>2. /\ IsSession(k) /\ SameBut(g, k, {"transcript"}, {})
          /\ k.t.transcript = Append(g.t.transcript, m)
      BY <2>1, HearFacts
    <3> HIDE DEF k
    <3>3. SameBut(h, k, {"transcript", "alpn_selected"}, {"alert"})
      BY <2>1, <3>2 DEF SameBut
    <3> QED BY <2>2, <2>5, <3>1, <3>2, <3>3, ZenonT(40) DEF k
  <2> QED BY <2>3, <2>4, <2>5
\* A certificate that is admitted was verified, and is of an epoch within the
\* bound of the one the session holds.
<1>CertificateFacts.
    ASSUME NEW h, IsSession(h), NEW m, NEW res, res = hsa_server_auth(h, m)
    PROVE  /\ IsSession(res.h) /\ res.ok \in BOOLEAN
           /\ res.ok =>
                 /\ SameBut(h, res.h, {"transcript", "epoch_seen", "epoch_status"},
                            {"alert", "leaf"})
                 /\ m.type = "certificate" /\ (h.t.cfg.trust # "raw" => m.verdict = "none")
                 /\ res.h.t.transcript = Append(h.t.transcript, m)
                 /\ (EpochChecked(h) /\ h.t.epoch \in Nat) =>
                       /\ res.h.hs.leaf.epoch = m.epoch /\ m.epoch_ok
                       /\ m.epoch \in h.t.epoch..(h.t.epoch + EpochBound)
  <2> USE <1>CertificateFacts
  <2> DEFINE filled == [h EXCEPT
                 !.hs.alert = IF h.t.cfg.trust = "raw" THEN "decode_error" ELSE "bad_certificate",
                 !.hs.leaf = IF h.t.cfg.trust = "raw" THEN @
                             ELSE [set |-> TRUE, epoch |-> m.epoch,
                                   epoch_ok |-> m.epoch_ok /\ m.epoch \in Nat]]
             judged == epoch_check(filled)
  <2>1. /\ IsSession(filled) /\ SameBut(h, filled, {}, {"alert", "leaf"}) /\ filled.t = h.t
        /\ h.t.cfg.trust # "raw" => /\ filled.hs.leaf.epoch = m.epoch
                                    /\ filled.hs.leaf.epoch_ok = (m.epoch_ok /\ m.epoch \in Nat)
    BY ZenonT(40) DEF IsSession, TlsFields, HsFields, SameBut
  <2>2. \/ \E a : res = No(h, a)
        \/ /\ m.type = "certificate" /\ (h.t.cfg.trust # "raw" => m.verdict = "none")
           /\ res = IF judged.ok THEN Ok(Hear(judged.h, m)) ELSE judged
    BY DEF hsa_server_auth
  <2> HIDE DEF filled
  <2>3. CASE \E a : res = No(h, a)
    <3>1. PICK a : res = No(h, a)
      BY <2>3
    <3>2. res.ok = FALSE /\ IsSession(res.h)
      BY <3>1, Refusal, Zenon
    <3> QED BY <3>2, ZenonT(40)
  <2>4. CASE /\ m.type = "certificate" /\ (h.t.cfg.trust # "raw" => m.verdict = "none")
             /\ res = IF judged.ok THEN Ok(Hear(judged.h, m)) ELSE judged
    <3> DEFINE leaf   == filled.hs.leaf
               status == EpochStatus(filled, leaf)
               seen   == [filled EXCEPT
                             !.t.epoch_seen = IF leaf.epoch_ok THEN leaf.epoch ELSE 0,
                             !.t.epoch_status = status]
    <3>1. IsSession(seen) /\ SameBut(filled, seen, {"epoch_seen", "epoch_status"}, {})
      BY <2>1, ZenonT(40) DEF IsSession, TlsFields, HsFields, SameBut
    <3>2. /\ seen.t.transcript = h.t.transcript /\ filled.t.transcript = h.t.transcript
          /\ seen.hs.leaf = leaf
      BY <2>1, <3>1 DEF SameBut, TlsFields, HsFields
    <3>3. \/ ~EpochChecked(h) /\ judged = Ok(filled)
          \/ \E a : judged = No(seen, a)
          \/ EpochChecked(h) /\ judged = Ok(seen) /\ status \notin {"UNTRUSTED", "REVOKED"}
      <4>1. EpochChecked(filled) = EpochChecked(h)
        BY <2>1 DEF EpochChecked
      <4> QED BY <4>1 DEF epoch_check
    <3> HIDE DEF seen, judged
    <3>4. CASE \E a : judged = No(seen, a)
      <4>1. PICK a : judged = No(seen, a)
        BY <3>4
      <4>2. judged.ok = FALSE /\ IsSession(judged.h)
        BY <3>1, <4>1, Refusal, ZenonT(40)
      <4> QED BY <2>4, <4>2, ZenonT(40)
    <3>5. ASSUME NEW g, judged = Ok(g), IsSession(g), g.t.transcript = h.t.transcript,
                 SameBut(h, g, {"epoch_seen", "epoch_status"}, {"alert", "leaf"})
          PROVE  /\ res.ok = TRUE /\ IsSession(res.h) /\ res.h.hs = g.hs
                 /\ res.h.t.transcript = Append(h.t.transcript, m)
                 /\ SameBut(h, res.h, {"transcript", "epoch_seen", "epoch_status"},
                            {"alert", "leaf"})
      <4> DEFINE k == Hear(g, m)
      <4>1. res = Ok(k)
        BY <2>4, <3>5 DEF Ok
      <4>2. res.ok = TRUE /\ res.h = k
        BY <4>1 DEF Ok
      <4>3. /\ IsSession(k) /\ SameBut(g, k, {"transcript"}, {}) /\ k.hs = g.hs
            /\ k.t.transcript = Append(g.t.transcript, m)
        BY <3>5, HearFacts, ZenonT(40)
      <4> HIDE DEF k
      <4>4. SameBut(h, k, {"transcript", "epoch_seen", "epoch_status"}, {"alert", "leaf"})
        BY <3>5, <4>3, SameThen
      <4> QED BY <3>5, <4>2, <4>3, <4>4
    <3>6. CASE ~EpochChecked(h) /\ judged = Ok(filled)
      <4>1. SameBut(h, filled, {"epoch_seen", "epoch_status"}, {"alert", "leaf"})
        BY <2>1, SMTT(30) DEF SameBut
      <4> QED BY <2>1, <2>4, <3>2, <3>5, <3>6, <4>1, ZenonT(40)
    <3>7. CASE EpochChecked(h) /\ judged = Ok(seen) /\ status \notin {"UNTRUSTED", "REVOKED"}
      <4>1. SameBut(h, seen, {"epoch_seen", "epoch_status"}, {"alert", "leaf"})
        BY <2>1, <3>1, SameThen
      <4>2. h.t.cfg.trust # "raw"
        BY <3>7 DEF EpochChecked
      <4>3. leaf.epoch = m.epoch /\ leaf.epoch_ok = (m.epoch_ok /\ m.epoch \in Nat)
        BY <2>1, <4>2
      <4>4. h.t.epoch \in Nat => m.epoch_ok /\ m.epoch \in h.t.epoch..(h.t.epoch + EpochBound)
        <5>1. /\ leaf.epoch_ok /\ ~(leaf.epoch > filled.t.epoch + EpochBound)
              /\ ~(leaf.epoch < filled.t.epoch)
          BY <3>7 DEF EpochStatus
        <5>2. filled.t.epoch = h.t.epoch
          BY <2>1
        <5>3. m.epoch \in Nat /\ m.epoch_ok
          BY <4>3, <5>1, ZenonT(40)
        <5> HIDE DEF leaf
        <5> QED BY <4>3, <5>1, <5>2, <5>3, EpochAssumption
      <4> QED BY <2>4, <3>1, <3>2, <3>5, <3>7, <4>1, <4>3, <4>4, ZenonT(40)
    <3> QED BY <3>3, <3>4, <3>6, <3>7, ZenonT(40)
  <2> QED BY <2>2, <2>3, <2>4, ZenonT(40)
\* A CertificateVerify that is admitted is the leaf's, over all that was heard.
<1>VerifyFacts.
    ASSUME NEW h, IsSession(h), NEW m, NEW res, res = hsa_read_certificate_verify(h, m)
    PROVE  /\ IsSession(res.h) /\ res.ok \in BOOLEAN
           /\ res.ok => /\ SameBut(h, res.h, {"transcript"}, {"alert"})
                        /\ m.type = "certificate_verify"
                        /\ m.signer = "leaf" /\ m.over = h.t.transcript
                        /\ res.h.t.transcript = Append(h.t.transcript, m)
  <2> USE <1>VerifyFacts
  <2> DEFINE g == [h EXCEPT !.hs.alert = "decode_error"]
  <2>1. IsSession(g) /\ SameBut(h, g, {}, {"alert"}) /\ g.t = h.t
    BY DEF IsSession, TlsFields, HsFields, SameBut
  <2>2. \/ \E a : res = No(h, a)
        \/ /\ m.type = "certificate_verify" /\ m.signer = "leaf" /\ m.over = h.t.transcript
           /\ res = Ok(Hear(g, m))
    BY DEF hsa_read_certificate_verify
  <2> HIDE DEF g
  <2>3. CASE \E a : res = No(h, a)
    <3>1. PICK a : res = No(h, a)
      BY <2>3
    <3>2. res.ok = FALSE /\ IsSession(res.h)
      BY <3>1, Refusal, Zenon
    <3> QED BY <3>2, ZenonT(40)
  <2>4. CASE /\ m.type = "certificate_verify" /\ m.signer = "leaf" /\ m.over = h.t.transcript
             /\ res = Ok(Hear(g, m))
    <3> DEFINE k == Hear(g, m)
    <3>1. res.ok = TRUE /\ res.h = k
      BY <2>4 DEF Ok
    <3>2. /\ IsSession(k) /\ SameBut(g, k, {"transcript"}, {})
          /\ k.t.transcript = Append(g.t.transcript, m)
      BY <2>1, HearFacts, ZenonT(40)
    <3> HIDE DEF k
    <3>3. SameBut(h, k, {"transcript"}, {"alert"})
      BY <2>1, <3>2, SameThen
    <3> QED BY <2>1, <2>4, <3>1, <3>2, <3>3, ZenonT(40)
  <2> QED BY <2>2, <2>3, <2>4
\* The greeting is part of what was heard, and stays when more is heard.
<1>GreetedStays.
    ASSUME NEW h, NEW k, NEW at \in {2, 4}, Greeted(h, at), IsSeq(h.t.transcript), NEW m,
           SameBut(h, k, HeardTls, HeardHs), k.t.transcript = Append(h.t.transcript, m)
    PROVE  Greeted(k, at)
  <2> USE <1>GreetedStays
  <2> DEFINE old == h.t.transcript
             tr  == k.t.transcript
  <2>1. IsSeq(old) /\ at <= Len(old) /\ LegalHellos(h.t.cfg, old, at)
    BY ZenonT(40) DEF Greeted
  <2>2. /\ IsSeq(tr) /\ Len(old) \in Nat /\ Len(tr) = Len(old) + 1
        /\ \A i \in 1..Len(old) : tr[i] = old[i]
    BY <2>1, Heard
  <2>3. at \in 0..Len(old) /\ at \in 1..Len(old) /\ at - 1 \in 1..Len(old) /\ at <= Len(tr)
    BY <2>1, <2>2
  <2>4. Prefix(tr, at) = Prefix(old, at)
    BY <2>1, <2>3, HeardPrefix
  <2>5. tr[at] = old[at] /\ tr[at - 1] = old[at - 1] /\ tr[1] = old[1] /\ tr[2] = old[2]
    BY <2>2, <2>3
  <2>6. /\ k.t.cfg = h.t.cfg /\ k.t.psk_selected = h.t.psk_selected /\ k.hs.s_hs = h.hs.s_hs
        /\ k.hs.c_hs = h.hs.c_hs
    BY DEF SameBut, TlsFields, HsFields, HeardTls, HeardHs
  <2> HIDE DEF old, tr
  <2>7. LegalHellos(k.t.cfg, tr, at)
    BY <2>1, <2>5, <2>6 DEF LegalHellos
  <2> QED BY <2>2, <2>3, <2>4, <2>5, <2>6, <2>7, ZenonT(40) DEF Greeted, old, tr
\* A message of the encrypted flight goes to the transcript, behind what is there.
<1>HeardOn.
    ASSUME NEW h, Client(h), h.step \in FlightSteps, NEW at \in {2, 4}, Greeted(h, at), NEW m,
           NEW g, IsSession(g), SameBut(h, g, HeardTls, HeardHs),
           g.t.transcript = Append(h.t.transcript, m), NEW s
    PROVE  Onward(h, [g EXCEPT !.step = s], m, at, s)
  <2> USE <1>HeardOn
  <2> DEFINE k   == [g EXCEPT !.step = s]
             old == h.t.transcript
             tr  == k.t.transcript
  <2>1. /\ IsSession(h) /\ IsSeq(old) /\ ClientStory(h) /\ h.t.cfg.role # "server" /\ h.tx = << >>
    BY Zenon DEF Client
  <2>2. /\ h.t.cfg.stored \in Nat /\ (EpochChecked(h) => h.t.epoch = h.t.cfg.stored)
        /\ h.made = HelloRecords(old)
    <3>1. h.step # "COMPLETE"
      BY DEF FlightSteps
    <3> QED BY <2>1, <3>1, ZenonT(40) DEF ClientStory
  <2>3. /\ IsSession(k) /\ k.t = g.t /\ k.hs = g.hs /\ k.tx = g.tx /\ k.made = g.made /\ k.step = s
    BY DEF IsSession, OwnFields
  <2> HIDE DEF k
  <2>4. /\ g.tx = h.tx /\ g.made = h.made /\ g.t.cfg = h.t.cfg /\ g.t.epoch = h.t.epoch
        /\ g.t.psk_selected = h.t.psk_selected
    BY DEF SameBut, TlsFields, OwnFields, HeardTls
  <2>5. Greeted(k, at)
    <3>1. Greeted(g, at)
      BY <2>1, <1>GreetedStays, ZenonT(40)
    <3> QED BY <2>3, <3>1, ZenonT(40) DEF Greeted
  <2>6. tr = Append(old, m)
    BY <2>3, ZenonT(40)
  <2>7. /\ Len(old) \in Nat /\ Len(tr) = Len(old) + 1 /\ tr[Len(old) + 1] = m
        /\ \A i \in 1..Len(old) : tr[i] = old[i]
        /\ Prefix(tr, Len(old)) = old
    <3>1. IsSeq(old)
      BY <2>1, Zenon
    <3> HIDE DEF old, tr
    <3> QED BY <2>6, <3>1, Heard, HeardCovers
  <2>8. HelloRecords(tr) = HelloRecords(old)
    <3>1. at <= Len(old) /\ LegalHellos(h.t.cfg, old, at)
      BY Zenon DEF Greeted
    <3> HIDE DEF old, tr
    <3>2. 1 <= Len(old) /\ (old[1].type = "message_hash" => 3 <= Len(old))
      BY <2>7, <3>1, HellosLong, ZenonT(40)
    <3> QED BY <2>7, <3>2, RecordsStay, ZenonT(40)
  <2>9. EpochChecked(k) => k.t.epoch = k.t.cfg.stored
    BY <2>2, <2>3, <2>4, ZenonT(40) DEF EpochChecked
  <2>10. k.made = HelloRecords(tr) /\ k.tx = << >>
    BY <2>1, <2>2, <2>3, <2>4, <2>8, ZenonT(40)
  <2>11. /\ k.t.cfg = h.t.cfg /\ k.t.psk_selected = h.t.psk_selected
         /\ k.t.cfg.role # "server" /\ k.t.cfg.stored \in Nat
         /\ EpochChecked(h) => h.t.epoch = h.t.cfg.stored
    BY <2>1, <2>2, <2>3, <2>4, ZenonT(40)
  <2>12. Onward(h, k, m, at, s)
    BY <2>3, <2>5, <2>7, <2>9, <2>10, <2>11, ZenonT(40) DEF Onward
  <2> QED BY <2>12, ZenonT(40) DEF k
\* In the middle of the flight the story is what was heard.
<1>MidFlight.
    ASSUME NEW k, k.step \in FlightSteps, k.tx = << >>, k.made = HelloRecords(k.t.transcript),
           k.t.cfg.role # "server", k.t.cfg.stored \in Nat,
           EpochChecked(k) => k.t.epoch = k.t.cfg.stored,
           k.step = "AWAIT_ENCRYPTED_EXTENSIONS" =>
              \E at \in {2, 4} : Greeted(k, at) /\ Len(k.t.transcript) = at,
           k.step = "AWAIT_CERTIFICATE" =>
              \E at \in {2, 4} : /\ Greeted(k, at) /\ Len(k.t.transcript) = at + 1
                                 /\ k.t.transcript[at + 1].type = "encrypted_extensions"
                                 /\ ~k.t.psk_selected,
           k.step = "AWAIT_CERTIFICATE_VERIFY" =>
              \E at \in {2, 4} : /\ Greeted(k, at) /\ Len(k.t.transcript) = at + 2
                                 /\ k.t.transcript[at + 1].type = "encrypted_extensions"
                                 /\ ~k.t.psk_selected /\ LeafShown(k, at + 2),
           k.step = "AWAIT_FINISHED" =>
              \E at \in {2, 4} : /\ Greeted(k, at)
                                 /\ Len(k.t.transcript) = IF k.t.psk_selected THEN at + 1 ELSE at + 3
                                 /\ k.t.transcript[at + 1].type = "encrypted_extensions"
                                 /\ ~k.t.psk_selected => LegalCertificate(k, k.t.transcript, at + 2)
    PROVE  Tells(k)
  <2> USE <1>MidFlight
  <2>1. k.step \notin AwaitsHello /\ k.step # "COMPLETE"
    BY DEF FlightSteps, AwaitsHello
  <2>2. ClientStory(k)
    BY <2>1, ZenonT(40) DEF ClientStory
  <2> QED BY <2>2, ZenonT(40) DEF Tells
\* A handler's answer, and the step after it.
<1>GotoTold.
    ASSUME NEW res, IsSession(res.h), res.ok \in BOOLEAN, NEW s,
           res.ok => LET k == [res.h EXCEPT !.step = s] IN IsSession(k) /\ Tells(k)
    PROVE  Told(Goto(res, s))
  <2> USE <1>GotoTold
  <2> DEFINE k == [res.h EXCEPT !.step = s]
  <2>1. CASE ~res.ok
    <3>1. Goto(res, s) = res
      BY <2>1, ZenonT(40) DEF Goto
    <3> QED BY <2>1, <3>1, ZenonT(40) DEF Told
  <2>2. CASE res.ok
    <3>1. Goto(res, s) = Ok(k)
      BY <2>2, ZenonT(40) DEF Goto
    <3>2. IsSession(k) /\ Tells(k)
      BY <2>2, ZenonT(40)
    <3> HIDE DEF k
    <3>3. Ok(k).ok = TRUE /\ Ok(k).h = k
      BY DEF Ok
    <3> QED BY <3>1, <3>2, <3>3, ZenonT(40) DEF Told
  <2> QED BY <2>1, <2>2, ZenonT(40)
\* The EncryptedExtensions.
<1>ExtensionsTold.
    ASSUME NEW h, Client(h), h.step = "AWAIT_ENCRYPTED_EXTENSIONS", NEW m
    PROVE  Told(Goto(hsf_read_encrypted_extensions(h, m),
                     IF h.t.psk_selected THEN "AWAIT_FINISHED" ELSE "AWAIT_CERTIFICATE"))
  <2> USE <1>ExtensionsTold
  <2> DEFINE res == hsf_read_encrypted_extensions(h, m)
             s   == IF h.t.psk_selected THEN "AWAIT_FINISHED" ELSE "AWAIT_CERTIFICATE"
             k   == [res.h EXCEPT !.step = s]
             old == h.t.transcript
             tr  == k.t.transcript
  <2>1. /\ IsSession(res.h) /\ res.ok \in BOOLEAN
        /\ res.ok => /\ SameBut(h, res.h, {"transcript", "alpn_selected"}, {"alert"})
                     /\ m.type = "encrypted_extensions"
                     /\ res.h.t.transcript = Append(h.t.transcript, m)
    BY <1>ExtensionsFacts, ZenonT(40) DEF Client
  <2> HIDE DEF res
  <2>2. PICK at \in {2, 4} : Greeted(h, at) /\ Len(old) = at
    BY ZenonT(40) DEF Client, ClientStory
  <2>3. ASSUME res.ok PROVE IsSession(k) /\ Tells(k)
    <3>1. SameBut(h, res.h, HeardTls, HeardHs)
      BY <2>1, <2>3 DEF SameBut, HeardTls, HeardHs
    <3>2. h.step \in FlightSteps
      BY DEF FlightSteps
    <3>3. m.type = "encrypted_extensions" /\ res.h.t.transcript = Append(h.t.transcript, m)
      BY <2>1, <2>3, ZenonT(40)
    <3>4. Onward(h, k, m, at, s)
      BY <2>1, <2>2, <3>1, <3>2, <3>3, <1>HeardOn, ZenonT(40)
    <3>5. s \in {"AWAIT_FINISHED", "AWAIT_CERTIFICATE"}
          /\ (h.t.psk_selected <=> s = "AWAIT_FINISHED") /\ (~h.t.psk_selected <=> s = "AWAIT_CERTIFICATE")
      OBVIOUS
    <3> HIDE DEF k, s
    <3>6. /\ IsSession(k) /\ k.step = s /\ k.tx = << >> /\ k.made = HelloRecords(tr)
          /\ k.t.cfg.role # "server" /\ k.t.cfg.stored \in Nat
          /\ EpochChecked(k) => k.t.epoch = k.t.cfg.stored
          /\ k.t.psk_selected = h.t.psk_selected /\ Greeted(k, at)
          /\ Len(tr) = Len(old) + 1 /\ tr[Len(old) + 1] = m
      BY <3>4, ZenonT(40) DEF Onward
    <3>7. Len(tr) = at + 1 /\ tr[at + 1].type = "encrypted_extensions"
      BY <2>2, <3>3, <3>6, ZenonT(40)
    <3> HIDE DEF tr, old
    <3>8. s \in FlightSteps /\ s # "AWAIT_ENCRYPTED_EXTENSIONS" /\ s # "AWAIT_CERTIFICATE_VERIFY"
      BY <3>5 DEF FlightSteps
    <3>9. Tells(k)
      BY <3>5, <3>6, <3>7, <3>8, <1>MidFlight, ZenonT(40) DEF tr
    <3> QED BY <3>6, <3>9, ZenonT(40)
  <2> HIDE DEF s
  <2> QED BY <2>1, <2>3, <1>GotoTold, ZenonT(40) DEF res, s
\* The Certificate.
<1>CertificateTold.
    ASSUME NEW h, Client(h), h.step = "AWAIT_CERTIFICATE", NEW m
    PROVE  Told(Goto(hsa_server_auth(h, m), "AWAIT_CERTIFICATE_VERIFY"))
  <2> USE <1>CertificateTold
  <2> DEFINE res == hsa_server_auth(h, m)
             s   == "AWAIT_CERTIFICATE_VERIFY"
             k   == [res.h EXCEPT !.step = s]
             old == h.t.transcript
             tr  == k.t.transcript
  <2>1. /\ IsSession(res.h) /\ res.ok \in BOOLEAN
        /\ res.ok =>
              /\ SameBut(h, res.h, {"transcript", "epoch_seen", "epoch_status"}, {"alert", "leaf"})
              /\ m.type = "certificate" /\ (h.t.cfg.trust # "raw" => m.verdict = "none")
              /\ res.h.t.transcript = Append(h.t.transcript, m)
              /\ (EpochChecked(h) /\ h.t.epoch \in Nat) =>
                    /\ m.epoch_ok /\ m.epoch \in h.t.epoch..(h.t.epoch + EpochBound)
    BY <1>CertificateFacts, ZenonT(40) DEF Client
  <2> HIDE DEF res
  <2>2. PICK at \in {2, 4} : /\ Greeted(h, at) /\ Len(old) = at + 1
                             /\ old[at + 1].type = "encrypted_extensions" /\ ~h.t.psk_selected
    BY ZenonT(40) DEF Client, ClientStory
  <2>3. ASSUME res.ok PROVE IsSession(k) /\ Tells(k)
    <3>1. SameBut(h, res.h, HeardTls, HeardHs)
      BY <2>1, <2>3 DEF SameBut, HeardTls, HeardHs
    <3>2. h.step \in FlightSteps
      BY DEF FlightSteps
    <3>3. res.h.t.transcript = Append(h.t.transcript, m)
      BY <2>1, <2>3, ZenonT(40)
    <3>4. Onward(h, k, m, at, s)
      BY <2>1, <2>2, <3>1, <3>2, <3>3, <1>HeardOn, ZenonT(40)
    <3> HIDE DEF k
    <3>5. /\ IsSession(k) /\ k.step = s /\ k.tx = << >> /\ k.made = HelloRecords(tr)
          /\ k.t.cfg = h.t.cfg /\ k.t.cfg.role # "server" /\ k.t.cfg.stored \in Nat
          /\ EpochChecked(h) => h.t.epoch = h.t.cfg.stored
          /\ EpochChecked(k) => k.t.epoch = k.t.cfg.stored
          /\ k.t.psk_selected = h.t.psk_selected /\ Greeted(k, at)
          /\ Len(tr) = Len(old) + 1 /\ tr[Len(old) + 1] = m
          /\ \A i \in 1..Len(old) : tr[i] = old[i]
      BY <3>4, ZenonT(40) DEF Onward
    <3> HIDE DEF tr, old
    <3>6. Len(tr) = at + 2 /\ tr[at + 2] = m /\ tr[at + 1] = old[at + 1]
      <4>1. (at + 1) + 1 = at + 2 /\ at + 1 \in 1..(at + 1)
        OBVIOUS
      <4> QED BY <2>2, <3>5, <4>1, ZenonT(40)
    <3>7. LeafShown(k, at + 2)
      <4>1. EpochChecked(k) => EpochChecked(h)
        BY <3>5, ZenonT(40) DEF EpochChecked
      <4>2. EpochChecked(k) => m.epoch_ok /\ m.epoch \in k.t.cfg.stored..(k.t.cfg.stored + EpochBound)
        BY <2>1, <2>3, <3>5, <4>1, ZenonT(40)
      <4>3. m.type = "certificate" /\ (k.t.cfg.trust # "raw" => m.verdict = "none")
        BY <2>1, <2>3, <3>5, ZenonT(40)
      <4> QED BY <3>6, <4>2, <4>3, ZenonT(40) DEF LeafShown, tr
    <3>8. s \in FlightSteps /\ s # "AWAIT_ENCRYPTED_EXTENSIONS" /\ s # "AWAIT_CERTIFICATE"
          /\ s # "AWAIT_FINISHED"
      BY DEF FlightSteps
    <3>9. /\ Len(tr) = at + 2 /\ tr[at + 1].type = "encrypted_extensions" /\ ~k.t.psk_selected
      BY <2>2, <3>5, <3>6, ZenonT(40)
    <3>10. Tells(k)
      BY <3>5, <3>7, <3>8, <3>9, <1>MidFlight, ZenonT(40) DEF tr
    <3> QED BY <3>5, <3>10, ZenonT(40)
  <2> QED BY <2>1, <2>3, <1>GotoTold, ZenonT(40) DEF res
\* The CertificateVerify.
<1>VerifyTold.
    ASSUME NEW h, Client(h), h.step = "AWAIT_CERTIFICATE_VERIFY", NEW m
    PROVE  Told(Goto(hsa_read_certificate_verify(h, m), "AWAIT_FINISHED"))
  <2> USE <1>VerifyTold
  <2> DEFINE res == hsa_read_certificate_verify(h, m)
             s   == "AWAIT_FINISHED"
             k   == [res.h EXCEPT !.step = s]
             old == h.t.transcript
             tr  == k.t.transcript
  <2>1. /\ IsSession(res.h) /\ res.ok \in BOOLEAN
        /\ res.ok => /\ SameBut(h, res.h, {"transcript"}, {"alert"})
                     /\ m.type = "certificate_verify"
                     /\ m.signer = "leaf" /\ m.over = h.t.transcript
                     /\ res.h.t.transcript = Append(h.t.transcript, m)
    BY <1>VerifyFacts, ZenonT(40) DEF Client
  <2> HIDE DEF res
  <2>2. PICK at \in {2, 4} : /\ Greeted(h, at) /\ Len(old) = at + 2
                             /\ old[at + 1].type = "encrypted_extensions"
                             /\ ~h.t.psk_selected /\ LeafShown(h, at + 2)
    BY Zenon DEF Client, ClientStory
  <2>3. ASSUME res.ok PROVE IsSession(k) /\ Tells(k)
    <3>1. SameBut(h, res.h, HeardTls, HeardHs)
      BY <2>1, <2>3 DEF SameBut, HeardTls, HeardHs
    <3>2. h.step \in FlightSteps
      BY DEF FlightSteps
    <3>3. /\ m.type = "certificate_verify" /\ m.signer = "leaf" /\ m.over = old
          /\ res.h.t.transcript = Append(h.t.transcript, m)
      BY <2>1, <2>3, ZenonT(40)
    <3>4. Onward(h, k, m, at, s)
      BY <2>1, <2>2, <3>1, <3>2, <3>3, <1>HeardOn, ZenonT(40)
    <3> HIDE DEF k
    <3>5. /\ IsSession(k) /\ k.step = s /\ k.tx = << >> /\ k.made = HelloRecords(tr)
          /\ k.t.cfg = h.t.cfg /\ k.t.cfg.role # "server" /\ k.t.cfg.stored \in Nat
          /\ EpochChecked(k) => k.t.epoch = k.t.cfg.stored
          /\ k.t.psk_selected = h.t.psk_selected /\ Greeted(k, at)
          /\ Len(tr) = Len(old) + 1 /\ tr[Len(old) + 1] = m
          /\ \A i \in 1..Len(old) : tr[i] = old[i]
          /\ Prefix(tr, Len(old)) = old
      BY <3>4, ZenonT(40) DEF Onward
    <3>6. /\ old[at + 2].type = "certificate" /\ (h.t.cfg.trust # "raw" => old[at + 2].verdict = "none")
          /\ EpochChecked(h) => /\ old[at + 2].epoch_ok
                                /\ old[at + 2].epoch \in h.t.cfg.stored..(h.t.cfg.stored + EpochBound)
      BY <2>2, ZenonT(40) DEF LeafShown
    <3> HIDE DEF tr, old
    <3>7. /\ Len(tr) = at + 3 /\ tr[(at + 2) + 1] = m /\ tr[at + 1] = old[at + 1]
          /\ tr[at + 2] = old[at + 2] /\ Prefix(tr, at + 2) = old
      <4>1. (at + 2) + 1 = at + 3 /\ at + 1 \in 1..(at + 2) /\ at + 2 \in 1..(at + 2)
        OBVIOUS
      <4> QED BY <2>2, <3>5, <4>1, ZenonT(40)
    <3>8. EpochChecked(k) => EpochChecked(h)
      BY <3>5, ZenonT(40) DEF EpochChecked
    <3>9. LegalCertificate(k, tr, at + 2)
      BY <3>3, <3>5, <3>6, <3>7, <3>8, ZenonT(40) DEF LegalCertificate
    <3>10. s \in FlightSteps /\ s # "AWAIT_ENCRYPTED_EXTENSIONS" /\ s # "AWAIT_CERTIFICATE"
           /\ s # "AWAIT_CERTIFICATE_VERIFY"
      BY DEF FlightSteps
    <3>11. /\ ~k.t.psk_selected /\ Len(tr) = IF k.t.psk_selected THEN at + 1 ELSE at + 3
           /\ tr[at + 1].type = "encrypted_extensions"
      BY <2>2, <3>5, <3>7, ZenonT(40)
    <3>12. Tells(k)
      BY <3>5, <3>9, <3>10, <3>11, <1>MidFlight, ZenonT(40) DEF tr
    <3> QED BY <3>5, <3>12, ZenonT(40)
  <2> QED BY <2>1, <2>3, <1>GotoTold, ZenonT(40) DEF res
<1> DEFINE h == Taken(q)
           m == NextMsg(q)
<1>1. /\ SameTelling(q, h) /\ Tells(h) /\ q.tx = << >> /\ IsSeq(q.t.transcript) /\ IsSession(h)
  BY TurnTells, ZenonT(40)
<1>2. q.t.cfg.role # "server"
  <2>1. q.t.cfg.role = "client"
    BY ZenonT(40) DEF step_encrypted_extensions, step_certificate, step_certificate_verify, At
  <2> QED BY <2>1
<1> HIDE DEF h, m
<1>3. Client(h) /\ h.step = q.step /\ h.t.psk_selected = q.t.psk_selected
  BY <1>1, <1>2, ZenonT(40) DEF SameTelling, Client, Tells
<1>4. CASE step_encrypted_extensions
  <2> DEFINE res == Goto(hsf_read_encrypted_extensions(h, m),
                         IF h.t.psk_selected THEN "AWAIT_FINISHED" ELSE "AWAIT_CERTIFICATE")
  <2>1. Advance(res)
    BY <1>3, <1>4, ZenonT(40) DEF step_encrypted_extensions, h, m
  <2>2. h.step = "AWAIT_ENCRYPTED_EXTENSIONS"
    BY <1>3, <1>4 DEF step_encrypted_extensions, At
  <2>3. Told(res)
    BY <1>3, <2>2, <1>ExtensionsTold, ZenonT(40)
  <2> HIDE DEF res
  <2> QED BY <2>1, <2>3, AdvanceTells, ZenonT(40) DEF Told
<1>5. CASE step_certificate
  <2> DEFINE res == Goto(hsa_server_auth(h, m), "AWAIT_CERTIFICATE_VERIFY")
  <2>1. Advance(res)
    BY <1>5, ZenonT(40) DEF step_certificate, h, m
  <2>2. h.step = "AWAIT_CERTIFICATE"
    BY <1>3, <1>5 DEF step_certificate, At
  <2>3. Told(res)
    BY <1>3, <2>2, <1>CertificateTold, ZenonT(40)
  <2> HIDE DEF res
  <2> QED BY <2>1, <2>3, AdvanceTells, Zenon DEF Told
<1>6. CASE step_certificate_verify
  <2> DEFINE res == Goto(hsa_read_certificate_verify(h, m), "AWAIT_FINISHED")
  <2>1. Advance(res)
    BY <1>6, ZenonT(40) DEF step_certificate_verify, h, m
  <2>2. h.step = "AWAIT_CERTIFICATE_VERIFY"
    BY <1>3, <1>6 DEF step_certificate_verify, At
  <2>3. Told(res)
    BY <1>3, <2>2, <1>VerifyTold, ZenonT(40)
  <2> HIDE DEF res
  <2> QED BY <2>1, <2>3, AdvanceTells, Zenon DEF Told
<1> QED BY <1>4, <1>5, <1>6

\* The turn on a server's Finished.
LEMMA FinishedTells ==
    ASSUME Turn, Story, NEW failed, step_finished(failed)
    PROVE  Story'
<1> DEFINE h    == Taken(q)
           m    == NextMsg(q)
           read == hsf_read_finished(h, m)
           res  == IF read.ok THEN Ok(Finished(hsa_epoch_commit(read.h, failed))) ELSE read
<1>1. /\ SameTelling(q, h) /\ Tells(h) /\ q.tx = << >> /\ IsSeq(q.t.transcript) /\ IsSession(h)
      /\ Alive(h)
  BY TurnTells, ZenonT(40)
<1>2. Advance(res)
  BY ZenonT(40) DEF step_finished, Then
<1>3. q.t.cfg.role # "server" /\ q.step = "AWAIT_FINISHED"
  BY DEF step_finished, At
<1> HIDE DEF h, m
<1>4. Client(h) /\ h.step = "AWAIT_FINISHED"
  BY <1>1, <1>3, ZenonT(40) DEF SameTelling, Client, Tells
<1>5. h.step \in FlightSteps /\ h.step \notin HelloSteps /\ h.step # "AWAIT_CLIENT_FINISHED"
      /\ h.step # "COMPLETE"
  BY <1>4 DEF FlightSteps, HelloSteps
<1>6. h.t.state = "START" /\ IsSecret(h.hs.handshake_secret) /\ DOMAIN h.app_rx = KeySets
  BY <1>1, <1>5, ZenonT(40) DEF Alive
<1>7. "over" \in DOMAIN h.hs.handshake_secret
  BY <1>6 DEF IsSecret
<1>8. Told(res)
  BY <1>4, <1>6, <1>7, FinishedTold, ZenonT(40)
<1> HIDE DEF res
<1> QED BY <1>2, <1>8, AdvanceTells, ZenonT(40) DEF Told

-----------------------------------------------------------------------------
(* The handlers of a server *)

\* What is pushed goes to the sink, or is refused there.
LEMMA Pushes ==
    ASSUME NEW h, Open(h), NEW recs
    PROVE  Answers(h, Push(h, recs))
<1> DEFINE res   == Push(h, recs)
           taken == Fewer(Len(recs), h.room)
           built == Fewer(Len(recs), taken + 1)
           room  == h.room - taken
           made  == h.made \o [i \in 1..built |-> Made(recs[i], i <= taken)]
           out   == [h EXCEPT !.room = room, !.made = made]
<1>1. res = IF taken = Len(recs) THEN Ok(out) ELSE No(out, "internal_error")
  <2>1. out = [h EXCEPT !.room = @ - taken,
                        !.made = @ \o [i \in 1..built |-> Made(recs[i], i <= taken)]]
    BY DEF Open, IsSession, OwnFields
  <2> QED BY <2>1, Zenon DEF Push
<1> HIDE DEF taken, room, made
<1>2. /\ IsSession(out) /\ out.t = h.t /\ out.hs = h.hs
      /\ \A f \in KeptOwn : out[f] = h[f]
  BY ZenonT(40) DEF Open, IsSession, OwnFields, KeptOwn
<1> HIDE DEF out, res
<1>3. Quiet(h, out) /\ Grows(h, out) /\ Open(out)
  BY <1>2, StaysQuiet, Zenon DEF Open
<1>4. Answers(h, Ok(out)) /\ Answers(h, No(out, "internal_error"))
  <2>1. Answers(out, No(out, "internal_error"))
    BY <1>3, Refuses
  <2> QED BY <2>1, <1>3, Accepts, AnswersThen, Zenon
<1> QED BY <1>1, <1>4, Zenon DEF res

\* A handler's answer on h, its acceptance changed where no key depends on it.
LEMMA AnswersTouched ==
    ASSUME NEW h, NEW a, Answers(h, a), NEW res, res.ok = a.ok, IsSession(res.h),
           res.h.t.transcript = a.h.t.transcript, res.h.hs = a.h.hs,
           \A f \in KeptOwn : res.h[f] = a.h[f],
           \A f \in KeptTls : res.h.t[f] = a.h.t[f]
    PROVE  Answers(h, res)
<1>1. Quiet(h, a.h) /\ Grows(h, a.h) /\ Open(a.h) /\ a.ok \in BOOLEAN
      /\ (~a.ok => a.h.hs.alert # "none")
  BY AnswersOpen, Zenon DEF Answers
<1>2. \A f \in KeptHs : res.h.hs[f] = a.h.hs[f]
  OBVIOUS
<1>3. Quiet(a.h, res.h) /\ Grows(a.h, res.h)
  BY <1>1, <1>2, Touches
<1>4. Quiet(h, res.h) /\ Grows(h, res.h)
  BY <1>1, <1>3, QuietThen, GrowsThen
<1> QED BY <1>1, <1>4, Zenon DEF Answers

\* One message goes out, in the clear or sealed.
LEMMA SendsOut ==
    ASSUME NEW h, Open(h), NEW m
    PROVE  Answers(h, srv_out_plain(h, m)) /\ Answers(h, srv_out_sealed(h, m))
<1>1. Answers(h, srv_out_plain(h, m))
  BY Pushes DEF srv_out_plain
<1>2. Answers(h, srv_out_sealed(h, m))
  <2> DEFINE limit == srv_out_limit(h)
             count == (m.size + limit - 1) \div limit
             Piece(i) == SubSeq(Cells(m), (i - 1) * limit + 1, Fewer(i * limit, m.size))
             Dir(i) == [h.t.wr EXCEPT !.seq = @ + i - 1]
             recs == [i \in 1..count |->
                         IF OverQuic(h) THEN CryptoFrames(h.hs.level, Piece(i))
                                        ELSE SealedRecord(Dir(i), "handshake", Piece(i))]
             a    == Push(h, recs)
             n    == Len(a.h.made) - Len(h.made)
             b    == [a EXCEPT !.h.t.wr.seq = @ + Len(a.h.made) - Len(h.made)]
             res  == srv_out_sealed(h, m)
  <2>1. res = IF OverQuic(h) THEN a ELSE b
    BY DEF srv_out_sealed
  <2>2. Answers(h, a)
    <3> HIDE DEF recs
    <3> QED BY Pushes
  <2>3. DOMAIN a = {"ok", "h"}
    <3> HIDE DEF recs
    <3> QED BY DEF Push, Ok, No
  <2> HIDE DEF a, res
  <2>4. Answers(h, b)
    <3> DEFINE w == [a.h.t.wr EXCEPT !.seq = @ + Len(a.h.made) - Len(h.made)]
    <3>1. IsSession(a.h)
      BY <2>2, Zenon DEF Answers, Quiet
    <3>2. b = [a EXCEPT !.h.t.wr = w]
      BY <3>1, <2>3 DEF IsSession, TlsFields
    <3> HIDE DEF w, b
    <3>3. b.ok = a.ok /\ b.h = [a.h EXCEPT !.t.wr = w]
      BY <3>2, <2>3
    <3>4. /\ IsSession(b.h) /\ b.h.t.transcript = a.h.t.transcript /\ b.h.hs = a.h.hs
          /\ \A f \in KeptOwn : b.h[f] = a.h[f]
          /\ \A f \in KeptTls : b.h.t[f] = a.h.t[f]
      BY <3>1, <3>3 DEF IsSession, OwnFields, TlsFields, KeptOwn, KeptTls
    <3> QED BY <3>3, <3>4, <2>2, AnswersTouched, ZenonT(40)
  <2> HIDE DEF b
  <2> QED BY <2>1, <2>2, <2>4, Zenon DEF res
<1> QED BY <1>1, <1>2

\* A message joins the transcript and goes out.
LEMMA Sends ==
    ASSUME NEW h, Open(h), NEW m
    PROVE  Answers(h, Send(h, m)) /\ Answers(h, srv_out_plain(Hear(h, m), m))
<1> DEFINE g == Hear(h, m)
<1>1. Quiet(h, g) /\ Grows(h, g)
  BY Hears
<1> HIDE DEF g
<1>2. Open(g)
  BY <1>1, Zenon DEF Open, Quiet, Grows
<1>3. Answers(g, srv_out_sealed(g, m)) /\ Answers(g, srv_out_plain(g, m))
  BY <1>2, SendsOut
<1>4. Answers(h, srv_out_sealed(g, m)) /\ Answers(h, srv_out_plain(g, m))
  BY <1>1, <1>3, AnswersThen, Zenon
<1> QED BY <1>4 DEF Send, g

\* The ClientHello is heard or refused.
LEMMA ReadsClientHello ==
    ASSUME NEW h, Open(h), NEW m
    PROVE  Answers(h, srv_read_client_hello(h, m))
<1> DEFINE alert == srv_parse_client_hello(m)
           sni   == m.sni /\ h.t.cfg.sni_buf
           g     == [h EXCEPT !.hs.alert = "decode_error", !.t.sni = sni]
           heard == Hear(g, m)
           res   == srv_read_client_hello(h, m)
<1>1. \/ res = No(h, "unexpected_message")
      \/ alert # "none" /\ res = No(h, alert)
      \/ res = No(heard, "missing_extension")
      \/ res = Ok(heard)
  <2>1. res = IF m.type # "client_hello" THEN No(h, "unexpected_message")
              ELSE IF alert # "none" THEN No(h, alert)
              ELSE IF h.t.cfg.require_server_name /\ ~heard.t.sni
                   THEN No(heard, "missing_extension") ELSE Ok(heard)
    BY Zenon DEF srv_read_client_hello
  <2> HIDE DEF alert, heard, res
  <2> QED BY <2>1, Zenon
<1>2. Quiet(h, g) /\ Grows(h, g) /\ Open(g)
  <2> HIDE DEF sni
  <2>1. /\ IsSession(g) /\ g.t.transcript = h.t.transcript
        /\ \A f \in KeptOwn : g[f] = h[f]
        /\ \A f \in KeptTls : g.t[f] = h.t[f]
        /\ \A f \in KeptHs : g.hs[f] = h.hs[f]
    BY Zenon DEF Open, IsSession, OwnFields, TlsFields, HsFields, KeptOwn, KeptTls, KeptHs
  <2> HIDE DEF g
  <2> QED BY <2>1, Touches
<1> HIDE DEF g
<1>3. Quiet(g, heard) /\ Grows(g, heard)
  BY <1>2, Hears
<1> HIDE DEF heard, res, alert
<1>4. Quiet(h, heard) /\ Grows(h, heard)
  BY <1>2, <1>3, QuietThen, GrowsThen
<1>5. Open(heard)
  BY <1>4, Zenon DEF Open, Quiet, Grows
<1>6. Answers(h, Ok(heard)) /\ Answers(h, No(heard, "missing_extension"))
  <2>1. Answers(heard, No(heard, "missing_extension"))
    BY <1>5, Refuses
  <2> QED BY <2>1, <1>4, Accepts, AnswersThen, ZenonT(40)
<1>7. /\ Answers(h, No(h, "unexpected_message"))
      /\ alert # "none" => Answers(h, No(h, alert))
  BY Refuses
<1> QED BY <1>1, <1>6, <1>7, ZenonT(40) DEF res

\* The ticket is taken, or the certificate, or neither will do.
LEMMA SelectsAuth ==
    ASSUME NEW h, Open(h), NEW m, NEW sel
    PROVE  Answers(h, srv_select_auth(h, m, sel))
<1> DEFINE i   == IF tickets_on(h.t.cfg) /\ ticket_offered(m) THEN find_ticket(h, m, sel) ELSE 0
           au  == m.tickets[i].auth
           g   == [h EXCEPT !.hs.early = "psk", !.hs.ticket_auth = au]
           s   == [sel EXCEPT !.psk_selected = TRUE, !.sigalg = "none", !.index = i]
           al  == IF "sigalgs" \in m.has THEN "handshake_failure" ELSE "missing_extension"
           Ans(r, x) == [ok |-> r.ok, h |-> r.h, sel |-> x]
           res == srv_select_auth(h, m, sel)
<1>1. \/ res = Ans(No(h, "decrypt_error"), sel) \/ res = Ans(Ok(g), s)
      \/ res = Ans(Ok(h), sel) \/ res = Ans(No(h, al), sel)
  <2>1. res = IF i # 0 /\ ~binder_matches(h, m, i) THEN Ans(No(h, "decrypt_error"), sel)
              ELSE IF i # 0 THEN Ans(Ok(g), s)
              ELSE IF sel.sigalg # "none" THEN Ans(Ok(h), sel) ELSE Ans(No(h, al), sel)
    BY DEF srv_select_auth
  <2> HIDE DEF i, g, s, al, Ans, res
  <2> QED BY <2>1, Zenon
<1>2. Quiet(h, g) /\ Grows(h, g)
  <2> HIDE DEF au
  <2>1. /\ IsSession(g) /\ g.t.transcript = h.t.transcript
        /\ \A f \in KeptOwn : g[f] = h[f]
        /\ \A f \in KeptTls : g.t[f] = h.t[f]
        /\ \A f \in KeptHs : g.hs[f] = h.hs[f]
    BY Zenon DEF Open, IsSession, OwnFields, HsFields, KeptOwn, KeptHs
  <2> HIDE DEF g
  <2> QED BY <2>1, Touches
<1>3. al # "none"
  OBVIOUS
<1> HIDE DEF g, s, al, res
<1>4. /\ Answers(h, No(h, "decrypt_error")) /\ Answers(h, Ok(g)) /\ Answers(h, Ok(h))
      /\ Answers(h, No(h, al))
  <2>1. Quiet(h, h) /\ Grows(h, h)
    BY StaysQuiet, Zenon DEF Open
  <2> QED BY <2>1, <1>2, <1>3, Accepts, Refuses
<1>5. ASSUME NEW r, NEW x, Answers(h, r) PROVE Answers(h, Ans(r, x))
  <2>1. Ans(r, x).ok = r.ok /\ Ans(r, x).h = r.h
    OBVIOUS
  <2> HIDE DEF Ans
  <2> QED BY <2>1, <1>5, Zenon DEF Answers
<1> HIDE DEF Ans
<1> QED BY <1>1, <1>4, <1>5, ZenonT(40) DEF res

\* A refusal with a selection beside it.
LEMMA RefusesWith ==
    ASSUME NEW h, Open(h), NEW g, Quiet(h, g), Grows(h, g), NEW alert, alert # "none", NEW sel
    PROVE  Answers(h, [ok |-> FALSE, h |-> No(g, alert).h, sel |-> sel])
<1> DEFINE res == [ok |-> FALSE, h |-> No(g, alert).h, sel |-> sel]
<1>1. res.ok = FALSE /\ res.h = No(g, alert).h /\ No(g, alert).ok = FALSE
  BY DEF No
<1>2. Open(g)
  BY Zenon DEF Open, Quiet, Grows
<1>3. Answers(h, No(g, alert))
  BY <1>2, Refuses, AnswersThen
<1> HIDE DEF res
<1> QED BY <1>1, <1>3, Zenon DEF Answers, res

\* The alert a handler starts from.
LEMMA Alerted ==
    ASSUME NEW h, Open(h), NEW alert, alert # "none"
    PROVE  LET g == [h EXCEPT !.hs.alert = alert] IN Quiet(h, g) /\ Grows(h, g) /\ Open(g)
<1>1. No(h, alert).h = [h EXCEPT !.hs.alert = alert]
  BY DEF No
<1>2. Answers(h, No(h, alert))
  BY Refuses
<1> QED BY <1>1, <1>2, AnswersOpen, ZenonT(40) DEF Answers

\* The first hello is answered by a selection or a refusal.
LEMMA Selects ==
    ASSUME NEW h, Open(h), NEW m
    PROVE  Answers(h, srv_select(h, m))
<1> DEFINE cfg   == h.t.cfg
           suite == FirstOffered(cfg.suites, m.suites)
           group == srv_kex_group(m)
           sel   == [NoSelection EXCEPT !.suite = suite, !.group = group,
                                        !.sigalg = srv_select_sigalg(cfg, m),
                                        !.need_retry = ~srv_kex_shared(m, group)]
           g     == [h EXCEPT !.hs.alert = "handshake_failure"]
           Ref(alert) == [ok |-> FALSE, h |-> No(g, alert).h, sel |-> sel]
           go    == [ok |-> TRUE, h |-> g, sel |-> sel]
           res   == srv_select(h, m)
<1>1. \/ res = Ref("handshake_failure") \/ res = Ref("no_application_protocol")
      \/ res = go \/ res = srv_select_auth(g, m, sel)
  <2>1. res = IF suite = "none" \/ group = "none" THEN Ref("handshake_failure")
              ELSE IF sel.sigalg = "none" /\ "psk" \notin m.has THEN Ref("handshake_failure")
              ELSE IF alpn_mismatch(cfg, m) THEN Ref("no_application_protocol")
              ELSE IF sel.need_retry THEN go ELSE srv_select_auth(g, m, sel)
    BY DEF srv_select
  <2> HIDE DEF suite, group, sel, g, Ref, go, res
  <2> QED BY <2>1, Zenon
<1>2. Quiet(h, g) /\ Grows(h, g) /\ Open(g)
  BY Alerted
<1> HIDE DEF g, sel
<1>3. Answers(h, Ref("handshake_failure")) /\ Answers(h, Ref("no_application_protocol"))
  BY <1>2, RefusesWith
<1>4. Answers(h, go)
  <2>1. go.ok = TRUE /\ go.h = g
    OBVIOUS
  <2> HIDE DEF go
  <2> QED BY <2>1, <1>2, ZenonT(40) DEF Answers
<1>5. Answers(h, srv_select_auth(g, m, sel))
  <2>1. Answers(g, srv_select_auth(g, m, sel))
    BY <1>2, SelectsAuth
  <2> QED BY <2>1, <1>2, AnswersThen, ZenonT(40)
<1> HIDE DEF Ref, go, res
<1> QED BY <1>1, <1>3, <1>4, <1>5, Zenon DEF res

\* So is the second.
LEMMA ChecksRetry ==
    ASSUME NEW h, Open(h), NEW m
    PROVE  Answers(h, srv_check_retry_hello(h, m))
<1> DEFINE g   == [h EXCEPT !.hs.alert = "illegal_parameter"]
           Ref(alert) == [ok |-> FALSE, h |-> No(g, alert).h, sel |-> NoSelection]
           c   == m.cookie[1]
           sel == [NoSelection EXCEPT !.suite = c.suite, !.group = c.group,
                                      !.sigalg = srv_select_sigalg(h.t.cfg, m)]
           res == srv_check_retry_hello(h, m)
<1>1. \/ res = Ref("illegal_parameter") \/ res = Ref("handshake_failure")
      \/ res = srv_select_auth(g, m, sel)
  <2>1. res = IF m.cookie = << >> \/ m.early_data THEN Ref("illegal_parameter")
              ELSE IF ~CookieHolds(h.t.cfg, m, c) THEN Ref("illegal_parameter")
              ELSE IF ~srv_kex_shared(m, c.group) THEN Ref("handshake_failure")
              ELSE srv_select_auth(g, m, sel)
    BY DEF srv_check_retry_hello
  <2> HIDE DEF c, sel, g, Ref, res
  <2> QED BY <2>1, Zenon
<1>2. Quiet(h, g) /\ Grows(h, g) /\ Open(g)
  BY Alerted
<1> HIDE DEF g, sel
<1>3. Answers(h, Ref("illegal_parameter")) /\ Answers(h, Ref("handshake_failure"))
  BY <1>2, RefusesWith
<1>4. Answers(h, srv_select_auth(g, m, sel))
  <2>1. Answers(g, srv_select_auth(g, m, sel))
    BY <1>2, SelectsAuth
  <2> QED BY <2>1, <1>2, AnswersThen, ZenonT(40)
<1> HIDE DEF Ref, res
<1> QED BY <1>1, <1>3, <1>4, ZenonT(40) DEF res

\* The selection is stored where no key depends on it.
LEMMA Stores ==
    ASSUME NEW h, Open(h), NEW m, NEW sel
    PROVE  LET g == srv_store_selection(h, m, sel) IN Quiet(h, g) /\ Grows(h, g) /\ Open(g)
<1> DEFINE al == alpn_selected(h.t.cfg, m)
           li == IF m.limit # 0 THEN Fewer(h.t.peer_limit, m.limit) ELSE h.t.peer_limit
           g  == [h EXCEPT !.t.suite = sel.suite, !.t.group = sel.group, !.t.sigalg = sel.sigalg,
                           !.t.psk_selected = sel.psk_selected, !.t.alpn_selected = al,
                           !.t.peer_limit = li]
<1>1. srv_store_selection(h, m, sel) = g
  BY DEF srv_store_selection, Open, IsSession, TlsFields
<1> HIDE DEF al, li
<1>2. /\ IsSession(g) /\ g.t.transcript = h.t.transcript
      /\ \A f \in KeptOwn : g[f] = h[f]
      /\ \A f \in KeptTls : g.t[f] = h.t[f]
      /\ \A f \in KeptHs : g.hs[f] = h.hs[f]
  BY ZenonT(40) DEF Open, IsSession, OwnFields, TlsFields, KeptOwn, KeptTls
<1> HIDE DEF g
<1>3. Quiet(h, g) /\ Grows(h, g) /\ Open(g)
  BY <1>2, Touches
<1> QED BY <1>1, <1>3

\* The ServerHello goes out, or the share is refused.
LEMMA SendsServerHello ==
    ASSUME NEW h, Open(h), NEW m, NEW sel
    PROVE  Answers(h, srv_send_server_hello(h, m, sel))
<1> DEFINE hello == ServerHello(sel, FALSE, << >>)
           res   == srv_send_server_hello(h, m, sel)
<1>1. res = No(h, "illegal_parameter") \/ res = srv_out_plain(Hear(h, hello), hello)
  BY Zenon DEF srv_send_server_hello
<1> HIDE DEF hello, res
<1>2. Answers(h, No(h, "illegal_parameter"))
  BY Refuses
<1>3. Answers(h, srv_out_plain(Hear(h, hello), hello))
  BY Sends
<1> QED BY <1>1, <1>2, <1>3, Zenon DEF res

\* The server's handshake secrets are over what was heard.
LEMMA DerivesServer ==
    ASSUME NEW h, Open(h), NEW m, NEW sel
    PROVE  LET res == srv_derive_handshake_secrets(h, m, sel)
               g   == res.h
           IN
           /\ res.ok \in BOOLEAN /\ IsSession(g) /\ g.t.transcript = h.t.transcript
           /\ \A f \in KeptTls : g.t[f] = h.t[f]
           /\ \A f \in KeptOwn : g[f] = h[f]
           /\ ~res.ok => g.hs.alert # "none"
           /\ res.ok =>
                 /\ IsSecret(g.hs.handshake_secret) /\ g.hs.handshake_secret.ku = 0
                 /\ IsSecret(g.hs.c_hs) /\ g.hs.c_hs.label = "c hs"
                 /\ g.hs.c_hs.over = h.t.transcript
                 /\ IsSecret(g.hs.s_hs) /\ g.hs.s_hs.label = "s hs"
                 /\ g.hs.s_hs.over = h.t.transcript
<1> DEFINE spent == [h EXCEPT !.hs.kex = {}]
           early == IF sel.psk_selected THEN spent ELSE [spent EXCEPT !.hs.early = "nopsk"]
           a     == Secret(early, "hs")
           b     == Secret(early, "c hs")
           c     == Secret(early, "s hs")
           done  == [early EXCEPT !.hs.early = "zero", !.hs.handshake_secret = a,
                                  !.hs.c_hs = b, !.hs.s_hs = c]
           keyed == Keyed(done, b, c)
           res   == srv_derive_handshake_secrets(h, m, sel)
<1>1. res = IF m.bad = "secret" THEN No(spent, "illegal_parameter") ELSE Ok(keyed)
  BY Zenon DEF srv_derive_handshake_secrets
<1>2. IsSession(spent) /\ spent.t = h.t /\ \A f \in KeptOwn : spent[f] = h[f]
  BY DEF Open, IsSession, OwnFields, HsFields, KeptOwn
<1>3. IsSession(early) /\ early.t = h.t /\ \A f \in KeptOwn : early[f] = h[f]
  <2>1. early = spent \/ early = [spent EXCEPT !.hs.early = "nopsk"]
    BY SMTT(30)
  <2> HIDE DEF spent, early
  <2> QED BY <2>1, <1>2 DEF IsSession, OwnFields, HsFields, KeptOwn
<1> HIDE DEF spent, early
<1>4. /\ IsSecret(a) /\ a.ku = 0
      /\ IsSecret(b) /\ b.label = "c hs" /\ b.over = h.t.transcript
      /\ IsSecret(c) /\ c.label = "s hs" /\ c.over = h.t.transcript
  BY <1>3, Zenon DEF Secret, IsSecret
<1> HIDE DEF a, b, c
<1>5. /\ IsSession(done) /\ done.t = h.t /\ \A f \in KeptOwn : done[f] = h[f]
      /\ done.hs.handshake_secret = a /\ done.hs.c_hs = b /\ done.hs.s_hs = c
  BY <1>3, Zenon DEF IsSession, OwnFields, HsFields, KeptOwn
<1> HIDE DEF done
<1>6. /\ IsSession(keyed) /\ keyed.t.transcript = done.t.transcript
      /\ \A f \in KeptTls : keyed.t[f] = done.t[f]
      /\ \A f \in KeptOwn : keyed[f] = done[f]
      /\ keyed.hs.handshake_secret = done.hs.handshake_secret
      /\ keyed.hs.c_hs = done.hs.c_hs /\ keyed.hs.s_hs = done.hs.s_hs
  <2> DEFINE x == [key |-> b, seq |-> 0]
             y == [key |-> c, seq |-> 0]
             w == [done EXCEPT !.t.rd = x, !.t.wr = y, !.hs.encrypted = TRUE, !.t.keys = TRUE]
  <2>1. keyed = done \/ keyed = w
    BY Zenon DEF Keyed
  <2> HIDE DEF x, y
  <2>2. /\ IsSession(w) /\ w.t.transcript = done.t.transcript
        /\ \A f \in KeptTls : w.t[f] = done.t[f]
        /\ \A f \in KeptOwn : w[f] = done[f]
        /\ w.hs.handshake_secret = done.hs.handshake_secret
        /\ w.hs.c_hs = done.hs.c_hs /\ w.hs.s_hs = done.hs.s_hs
    BY <1>5, ZenonT(40) DEF IsSession, OwnFields, HsFields, TlsFields, KeptOwn, KeptTls
  <2> HIDE DEF w, keyed
  <2> QED BY <2>1, <2>2, <1>5, ZenonT(40)
<1> HIDE DEF keyed, res
<1>7. CASE m.bad = "secret"
  <2>1. res = No(spent, "illegal_parameter")
    BY <1>1, <1>7, ZenonT(40)
  <2>2. /\ res.ok = FALSE /\ res.h.t = spent.t /\ res.h.hs.alert = "illegal_parameter"
        /\ IsSession(res.h) /\ \A f \in KeptOwn : res.h[f] = spent[f]
    BY <2>1, <1>2 DEF No, IsSession, HsFields, OwnFields, KeptOwn
  <2> QED BY <2>2, <1>2, ZenonT(40) DEF res
<1>8. CASE m.bad # "secret"
  <2>1. res.ok = TRUE /\ res.h = keyed
    BY <1>1, <1>8 DEF Ok
  <2> QED BY <2>1, <1>4, <1>5, <1>6, ZenonT(30) DEF res
<1> QED BY <1>7, <1>8, Zenon

-----------------------------------------------------------------------------
(* The flight of a server *)

\* g is k before it has any key but the Initial ones
Early(k, g) ==
    /\ Open(g) /\ \A f \in KeptOwn : g[f] = k[f]
    /\ g.t.state = k.t.state /\ g.t.buf = k.t.buf /\ g.t.cfg = k.t.cfg

\* A handler leaves it at that.
LEMMA EarlyThen ==
    ASSUME NEW k, NEW h, Early(k, h), NEW g, Quiet(h, g), Open(g)
    PROVE  Early(k, g)
<1>1. g.t.state = h.t.state /\ g.t.buf = h.t.buf /\ g.t.cfg = h.t.cfg
  BY DEF Quiet, KeptTls
<1> QED BY <1>1, Zenon DEF Early, Quiet

\* A refusal before the keys ends the turn.
LEMMA EarlyRefusal ==
    ASSUME NEW k, Alive(k), k.step \in HelloSteps, NEW h, Early(k, h),
           NEW res, Answers(h, res), ~res.ok
    PROVE  Turned(k, res)
<1>1. \A f \in KeyFields : h[f] = k[f]
  BY QuietFields, Zenon DEF Early
<1>2. WriteBits(h) /\ h.ready \subseteq Levels \X Dirs /\ Open(h)
  BY <1>1, HelloBits, ZenonT(40) DEF Early
<1> QED BY <1>2, Declines, Zenon

\* g is k with the handshake keys installed and the application keys to come
Mid(k, g) ==
    /\ Open(g) /\ WriteBits(g) /\ ReadBits(g) /\ g.ready \subseteq {0, 1} \X {"READ", "WRITE"}
    /\ g.key_phase = 0 /\ DOMAIN g.app_rx = KeySets
    /\ IsSecret(g.hs.handshake_secret) /\ g.hs.handshake_secret.ku = 0
    /\ g.t.state = "START" /\ g.t.buf = k.t.buf /\ g.t.cfg.role = "server"

\* A handler leaves it at that.
LEMMA MidThen ==
    ASSUME NEW k, NEW h, Mid(k, h), NEW res, Answers(h, res)
    PROVE  Mid(k, res.h) /\ (~res.ok => Turned(k, res))
<1> DEFINE g == res.h
<1>1. Quiet(h, g) /\ Grows(h, g) /\ Open(g)
  BY AnswersOpen, Zenon DEF Answers
<1>2. /\ Open(h) /\ WriteBits(h) /\ ReadBits(h) /\ h.ready \subseteq {0, 1} \X {"READ", "WRITE"}
      /\ h.key_phase = 0 /\ DOMAIN h.app_rx = KeySets
      /\ IsSecret(h.hs.handshake_secret) /\ h.hs.handshake_secret.ku = 0
      /\ h.t.state = "START" /\ h.t.buf = k.t.buf /\ h.t.cfg.role = "server"
  BY Zenon DEF Mid
<1> HIDE DEF g
<1>3. WriteBits(g) /\ ReadBits(g)
  BY <1>1, <1>2, QuietKeys, KeysStay, ZenonT(40)
<1>4. /\ g.ready = h.ready /\ g.key_phase = h.key_phase /\ g.app_rx = h.app_rx
      /\ g.hs.handshake_secret = h.hs.handshake_secret
      /\ g.t.state = h.t.state /\ g.t.buf = h.t.buf /\ g.t.cfg = h.t.cfg
  BY <1>1, SMTT(30) DEF Quiet, KeptOwn, OwnFields, KeptHs, KeptTls
<1>5. Mid(k, g)
  BY <1>1, <1>2, <1>3, <1>4, SMTT(30) DEF Mid
<1>6. h.ready \subseteq Levels \X Dirs
  <2>1. {0, 1} \subseteq Levels
    BY DEF Levels
  <2> QED BY <2>1, <1>2 DEF Dirs
<1>7. ~res.ok => Turned(k, res)
  BY <1>2, <1>6, Declines, ZenonT(40)
<1> QED BY <1>5, <1>7 DEF g

\* The messages of the flight go out, each under what was heard before it.
LEMMA SendsFlight ==
    ASSUME NEW h, Open(h), NEW signs
    PROVE  /\ Answers(h, srv_send_encrypted_extensions(h))
           /\ Answers(h, srv_send_certificate(h))
           /\ Answers(h, srv_send_certificate_verify(h, signs))
<1>1. \A m : Answers(h, Send(h, m))
  BY Sends
<1>2. Answers(h, srv_send_encrypted_extensions(h)) /\ Answers(h, srv_send_certificate(h))
  BY <1>1, Zenon DEF srv_send_encrypted_extensions, srv_send_certificate
<1>3. Answers(h, No(h, "internal_error"))
  BY Refuses
<1>4. Answers(h, srv_send_certificate_verify(h, signs))
  BY <1>1, <1>3, ZenonT(40) DEF srv_send_certificate_verify
<1> QED BY <1>2, <1>4

\* The server's Finished goes out and the application keys are installed.
LEMMA ServerFinishes ==
    ASSUME NEW k, NEW h, Mid(k, h)
    PROVE  Turned(k, Then(srv_send_finished(h), LAMBDA g :
               Ok([install_application_keys(g, {"WRITE"}) EXCEPT
                      !.rx_level = 1, !.step = "AWAIT_CLIENT_FINISHED"])))
<1> DEFINE fin == FinishedMessage(HashOf(h.t.suite), h.hs.s_hs, h.t.transcript)
           a   == Send(h, fin)
           g   == a.h
           ms  == Derived(g, "master")
           rd  == Derived(g, "c ap")
           wr  == Derived(g, "s ap")
           dir == IF OverQuic(h) THEN g.t.wr ELSE [key |-> wr, seq |-> 0]
           f   == [g EXCEPT !.hs.master = ms, !.t.rd_secret = rd, !.t.wr_secret = wr, !.t.wr = dir]
           i   == install_application_keys(f, {"WRITE"})
           n   == [i EXCEPT !.rx_level = 1, !.step = "AWAIT_CLIENT_FINISHED"]
           res == Then(srv_send_finished(h), LAMBDA x :
                       Ok([install_application_keys(x, {"WRITE"}) EXCEPT
                              !.rx_level = 1, !.step = "AWAIT_CLIENT_FINISHED"]))
<1>1. Answers(h, a)
  BY Sends, Zenon DEF Mid
<1> HIDE DEF fin, a
<1>2. Mid(k, g) /\ (~a.ok => Turned(k, a)) /\ a.ok \in BOOLEAN
  BY <1>1, MidThen, ZenonT(40) DEF Answers
<1>3. /\ Open(g) /\ WriteBits(g) /\ ReadBits(g) /\ g.ready \subseteq {0, 1} \X {"READ", "WRITE"}
      /\ g.key_phase = 0 /\ DOMAIN g.app_rx = KeySets
      /\ IsSecret(g.hs.handshake_secret) /\ g.hs.handshake_secret.ku = 0
      /\ g.t.state = "START" /\ g.t.buf = k.t.buf /\ g.t.cfg.role = "server"
  BY <1>2, ZenonT(40) DEF Mid
<1> HIDE DEF g
<1>4. srv_send_finished(h) = IF a.ok THEN Ok(f) ELSE a
  <2>1. f = [g EXCEPT !.hs.master = ms, !.t.rd_secret = rd, !.t.wr_secret = wr,
                      !.t.wr = IF OverQuic(h) THEN @ ELSE [key |-> wr, seq |-> 0]]
    BY <1>3 DEF Open, IsSession, TlsFields
  <2> QED BY <2>1 DEF srv_send_finished, Then, a, fin, g
<1>5. a.ok => res.ok = TRUE /\ res.h = n
  <2>1. a.ok => srv_send_finished(h).ok = TRUE /\ srv_send_finished(h).h = f
    BY <1>4 DEF Ok
  <2> HIDE DEF f
  <2> QED BY <2>1, Zenon DEF Then, Ok
<1>6. ~a.ok => res = a
  BY <1>4 DEF Then
<1>7. /\ IsSecret(rd) /\ rd.label = "c ap" /\ rd.ku = 0 /\ rd.over = g.t.transcript
      /\ IsSecret(wr) /\ wr.label = "s ap" /\ wr.ku = 0 /\ wr.over = g.t.transcript
      /\ [wr EXCEPT !.ku = 0] = wr
  <2>1. ASSUME NEW label
        PROVE  /\ IsSecret(Derived(g, label)) /\ Derived(g, label).label = label
               /\ Derived(g, label).ku = 0 /\ Derived(g, label).over = g.t.transcript
               /\ [Derived(g, label) EXCEPT !.ku = 0] = Derived(g, label)
    BY <1>3, DerivedFacts
  <2> QED BY <2>1, Zenon
<1>8. Covers(g.t.transcript, rd) /\ Covers(g.t.transcript, wr)
  BY <1>3, <1>7, CoversAll, ZenonT(40) DEF Open
<1> HIDE DEF ms, rd, wr, dir, res
<1>9. /\ IsSession(f) /\ f.t.rd_secret = rd /\ f.t.wr_secret = wr
      /\ \A x \in OwnFields : f[x] = g[x]
      /\ \A x \in TlsFields \ {"rd_secret", "wr_secret", "wr"} : f.t[x] = g.t[x]
  BY <1>3, ZenonT(40) DEF Open, IsSession, OwnFields, TlsFields, HsFields
<1> HIDE DEF f
<1>10. /\ f.t.cfg = g.t.cfg /\ f.t.state = g.t.state /\ f.t.buf = g.t.buf
       /\ f.t.transcript = g.t.transcript
       /\ f.t.quic_negotiated_version = g.t.quic_negotiated_version
       /\ f.app_rx = g.app_rx /\ f.key_phase = g.key_phase /\ f.ready = g.ready
  BY <1>9 DEF TlsFields, OwnFields
<1>11. Whose(f, TRUE, "ap") = "s ap" /\ Whose(f, FALSE, "ap") = "c ap"
  <2>1. f.t.cfg.role = "server"
    BY <1>3, <1>10
  <2> QED BY <2>1, Labels, ZenonT(40)
<1>12. AppReads(i) /\ AppWrites(i)
  <2>1. /\ DOMAIN f.app_rx = KeySets /\ f.key_phase = 0
        /\ rd.label = Whose(f, FALSE, "ap") /\ wr.label = Whose(f, TRUE, "ap")
        /\ Covers(f.t.transcript, rd) /\ Covers(f.t.transcript, wr)
    BY <1>3, <1>7, <1>8, <1>10, <1>11, ZenonT(40)
  <2> HIDE DEF i
  <2> QED BY <2>1, <1>7, <1>9, ApplicationKeyed, ZenonT(30) DEF i
<1>13. /\ IsSession(i) /\ i.ready = f.ready \cup ({2} \X {"WRITE"})
       /\ \A x \in TlsFields \ {"rd_secret"} : i.t[x] = f.t[x]
       /\ \A x \in OwnFields \ {"ready", "app_tx", "app_hp_tx", "app_rx", "app_hp_rx"} :
              i[x] = f[x]
  <2>1. DOMAIN f.app_rx = KeySets
    BY <1>3, <1>10
  <2> QED BY <2>1, <1>9, InstallsApplication, SMTT(30)
<1> HIDE DEF i
<1>14. /\ IsSession(n) /\ n.t = i.t /\ n.hs = i.hs /\ n.step = "AWAIT_CLIENT_FINISHED"
       /\ \A x \in KeyFields : n[x] = i[x]
  BY <1>13, SMTT(30) DEF IsSession, OwnFields, KeyFields, ReadFields, WriteFields
<1> HIDE DEF n
<1>15. Open(i) /\ i.t.state = g.t.state /\ i.t.buf = g.t.buf
  <2>1. i.t.transcript = f.t.transcript /\ i.t.state = f.t.state /\ i.t.buf = f.t.buf
    BY <1>13 DEF TlsFields
  <2> QED BY <2>1, <1>3, <1>10, <1>13 DEF Open
<1>16. SameKeys(i, n) /\ Open(n)
  BY <1>14, <1>15, EditKeys, ZenonT(40)
<1>17. AppReads(n) /\ AppWrites(n)
  BY <1>12, <1>16, KeysStay, ZenonT(40)
<1>18. SameStory(g, n)
  <2>1. /\ n.t.cfg = g.t.cfg /\ n.t.quic_negotiated_version = g.t.quic_negotiated_version
        /\ n.t.transcript = g.t.transcript
    BY <1>10, <1>13, <1>14 DEF TlsFields
  <2> QED BY <2>1, ZenonT(40) DEF SameStory
<1>19. \A x \in LowFields : n[x] = g[x]
  <2>1. \A x \in LowFields : n[x] = i[x]
    BY <1>14 DEF LowFields, KeyFields, ReadFields, WriteFields
  <2>2. \A x \in LowFields : i[x] = f[x]
    BY <1>13 DEF LowFields, OwnFields
  <2>3. \A x \in LowFields : f[x] = g[x]
    BY <1>9 DEF LowFields, OwnFields
  <2> QED BY <2>1, <2>2, <2>3
<1>20. n.ready = g.ready \cup ({2} \X {"WRITE"})
  <2>1. n.ready = i.ready
    BY <1>14 DEF KeyFields
  <2> QED BY <2>1, <1>10, <1>13
<1>21. WriteBits(n) /\ ReadBits(n) /\ n.ready \subseteq Levels \X Dirs
  <2> DEFINE ds == {"WRITE"}
  <2>1. ds \subseteq Dirs /\ n.ready = g.ready \cup ({2} \X ds)
    BY <1>20 DEF Dirs
  <2> HIDE DEF ds
  <2> QED BY <2>1, <1>3, <1>17, <1>18, <1>19, LowBits, ZenonT(30)
<1>22. n.t.state = "START" /\ n.t.buf = k.t.buf
  BY <1>3, <1>14, <1>15
<1>23. ~Ready(n, 2, "READ")
  BY <1>3, <1>20 DEF Ready
<1>24. Alive(n)
  <2>1. AppKeys(n)
    BY <1>17, Zenon DEF AppKeys
  <2>2. n.t.cfg.role = "server"
    BY <1>3, <1>18, Zenon DEF SameStory
  <2> QED BY <2>1, <2>2, <1>14, <1>21, <1>22, <1>23, ZenonT(40) DEF Alive
<1>25. CASE a.ok
  BY <1>5, <1>16, <1>21, <1>22, <1>24, <1>25, ZenonT(40) DEF Turned, res
<1>26. CASE ~a.ok
  BY <1>2, <1>6, <1>26, ZenonT(40) DEF res
<1> QED BY <1>25, <1>26

\* the secrets a server derived over what it heard
Derives(g) ==
    /\ IsSecret(g.hs.handshake_secret) /\ g.hs.handshake_secret.ku = 0
    /\ IsSecret(g.hs.c_hs) /\ g.hs.c_hs.label = "c hs" /\ g.hs.c_hs.over = g.t.transcript
    /\ IsSecret(g.hs.s_hs) /\ g.hs.s_hs.label = "s hs" /\ g.hs.s_hs.over = g.t.transcript

\* the server's flight under the handshake keys
Rest(h, psk, signs) ==
    Then(srv_send_encrypted_extensions(h), LAMBDA h3 :
    Then(IF psk THEN Ok(h3)
         ELSE Then(srv_send_certificate(h3), LAMBDA h4 : srv_send_certificate_verify(h4, signs)),
         LAMBDA h5 : Then(srv_send_finished(h5), LAMBDA h6 :
         Ok([install_application_keys(h6, {"WRITE"}) EXCEPT
                !.rx_level = 1, !.step = "AWAIT_CLIENT_FINISHED"]))))

\* The handshake keys are installed over the ServerHello.
LEMMA ServerKeyed ==
    ASSUME NEW k, Alive(k), k.step \in HelloSteps, k.t.cfg.role = "server",
           NEW g, Early(k, g), Derives(g)
    PROVE  Mid(k, [install_handshake_keys(g, g.hs.c_hs, g.hs.s_hs) EXCEPT !.hs.level = 1])
<1> DEFINE c == g.hs.c_hs
           s == g.hs.s_hs
           i == install_handshake_keys(g, c, s)
           n == [i EXCEPT !.hs.level = 1]
<1>1. /\ Open(g) /\ g.t.state = k.t.state /\ g.t.buf = k.t.buf /\ g.t.cfg = k.t.cfg
      /\ \A f \in KeyFields : g[f] = k[f]
  BY QuietFields, Zenon DEF Early
<1>2. /\ WriteBits(g) /\ ReadBits(g) /\ g.key_phase = 0 /\ k.t.state = "START"
      /\ g.ready \subseteq {0} \X {"READ", "WRITE"} /\ DOMAIN g.app_rx = KeySets
  <2>1. \A f \in KeyFields : g[f] = k[f]
    BY <1>1
  <2> QED BY <2>1, HelloBits, ZenonT(40)
<1>3. c.label = Whose(g, FALSE, "hs") /\ s.label = Whose(g, TRUE, "hs")
  <2>1. g.t.cfg.role = "server"
    BY <1>1
  <2> QED BY <2>1, Labels, ZenonT(40) DEF Derives
<1>4. /\ IsSecret(c) /\ IsSecret(s) /\ c.over = g.t.transcript /\ s.over = g.t.transcript
      /\ IsSecret(g.hs.handshake_secret) /\ g.hs.handshake_secret.ku = 0
  BY Zenon DEF Derives
<1> HIDE DEF c, s
<1>5. WriteBits(i) /\ ReadBits(i) /\ i.ready \subseteq {0, 1} \X {"READ", "WRITE"}
  BY <1>1, <1>2, <1>3, <1>4, HandshakeKeyed, ZenonT(40)
<1>6. /\ IsSession(i) /\ i.t = g.t /\ i.hs = g.hs
      /\ \A f \in OwnFields \ {"ready", "handshake_rx", "handshake_hp_rx",
                               "handshake_tx", "handshake_hp_tx"} : i[f] = g[f]
  <2>1. IsSession(g)
    BY <1>1 DEF Open
  <2>2. i = install_handshake_keys(g, c, s)
    OBVIOUS
  <2> HIDE DEF i
  <2> QED BY <2>1, <2>2, InstallsHandshake, SMTT(30)
<1> HIDE DEF i
<1>7. i.key_phase = 0 /\ DOMAIN i.app_rx = KeySets
  <2>1. i.key_phase = g.key_phase /\ i.app_rx = g.app_rx
    BY <1>6 DEF OwnFields
  <2> QED BY <2>1, <1>2
<1>8. /\ IsSession(n) /\ n.t = i.t /\ \A f \in KeyFields : n[f] = i[f]
      /\ n.hs.handshake_secret = i.hs.handshake_secret
      /\ n.ready = i.ready /\ n.key_phase = i.key_phase /\ n.app_rx = i.app_rx
  BY <1>6 DEF IsSession, OwnFields, HsFields, KeyFields, ReadFields, WriteFields
<1> HIDE DEF n
<1>9. Open(i)
  BY <1>1, <1>6 DEF Open
<1>10. SameKeys(i, n) /\ Open(n)
  BY <1>8, <1>9, EditKeys, ZenonT(40)
<1>11. WriteBits(n) /\ ReadBits(n)
  BY <1>5, <1>10, KeysStay, ZenonT(40)
<1>12. /\ n.t.state = "START" /\ n.t.buf = k.t.buf /\ n.t.cfg.role = "server"
       /\ n.hs.handshake_secret = g.hs.handshake_secret
  BY <1>1, <1>2, <1>6, <1>8, SMTT(30)
<1>13. Mid(k, n)
  BY <1>4, <1>5, <1>7, <1>8, <1>10, <1>11, <1>12 DEF Mid
<1> QED BY <1>13 DEF n, i, c, s

\* The flight under the handshake keys ends the turn.
LEMMA FlightTurns ==
    ASSUME NEW k, NEW h, Mid(k, h), NEW psk, NEW signs
    PROVE  Turned(k, Rest(h, psk, signs))
<1> DEFINE End(x) == Then(srv_send_finished(x), LAMBDA h6 :
                          Ok([install_application_keys(h6, {"WRITE"}) EXCEPT
                                 !.rx_level = 1, !.step = "AWAIT_CLIENT_FINISHED"]))
           a1 == srv_send_encrypted_extensions(h)
           c1 == srv_send_certificate(a1.h)
           a2 == IF psk THEN Ok(a1.h)
                 ELSE IF c1.ok THEN srv_send_certificate_verify(c1.h, signs) ELSE c1
           res == IF a1.ok THEN IF a2.ok THEN End(a2.h) ELSE a2 ELSE a1
<1>1. Answers(h, a1)
  BY SendsFlight, Zenon DEF Mid
<1>2. Mid(k, a1.h) /\ (~a1.ok => Turned(k, a1))
  BY <1>1, MidThen, ZenonT(40)
<1> HIDE DEF a1
<1>3. Open(a1.h)
  BY <1>2, Zenon DEF Mid
<1>4. Answers(a1.h, c1)
  BY <1>3, SendsFlight, ZenonT(40)
<1> HIDE DEF c1
<1>5. Mid(k, c1.h) /\ (~c1.ok => Turned(k, c1))
  BY <1>2, <1>4, MidThen, ZenonT(40)
<1>6. Answers(c1.h, srv_send_certificate_verify(c1.h, signs))
  BY <1>5, SendsFlight, ZenonT(40) DEF Mid
<1>7. Mid(k, a2.h) /\ (~a2.ok => Turned(k, a2))
  <2>1. CASE psk
    <3>1. a2.ok = TRUE /\ a2.h = a1.h
      BY <2>1 DEF Ok
    <3> QED BY <3>1, <1>2, ZenonT(40)
  <2>2. CASE ~psk /\ ~c1.ok
    <3>1. a2 = c1
      BY <2>2, Zenon
    <3> QED BY <3>1, <1>5, ZenonT(40)
  <2>3. CASE ~psk /\ c1.ok
    <3>1. a2 = srv_send_certificate_verify(c1.h, signs)
      BY <2>3, Zenon
    <3> HIDE DEF a2
    <3> QED BY <3>1, <1>5, <1>6, MidThen, ZenonT(40)
  <2> QED BY <2>1, <2>2, <2>3
<1> HIDE DEF a2
<1>8. Turned(k, End(a2.h))
  BY <1>7, ServerFinishes, ZenonT(40)
<1> HIDE DEF End
<1>9. Turned(k, res)
  BY <1>2, <1>7, <1>8, ZenonT(40)
<1> QED BY <1>9, Zenon DEF Rest, Then, End, a1, c1, a2

\* All the server owes once a hello is accepted.
LEMMA ServerFlightTurns ==
    ASSUME NEW k, Alive(k), k.step \in HelloSteps, k.t.cfg.role = "server",
           NEW h, Early(k, h), NEW m, NEW sel, NEW signs
    PROVE  Turned(k, server_flight(h, m, sel, signs))
<1> DEFINE h0 == [h EXCEPT !.hs.level = 0]
           a1 == srv_send_server_hello(h0, m, sel)
           s1 == srv_store_selection(a1.h, m, sel)
           a2 == srv_derive_handshake_secrets(s1, m, sel)
           h2 == a2.h
           kd == [install_handshake_keys(h2, h2.hs.c_hs, h2.hs.s_hs) EXCEPT !.hs.level = 1]
           res == IF a1.ok THEN IF a2.ok THEN Rest(kd, sel.psk_selected, signs) ELSE a2 ELSE a1
<1>1. Early(k, h0)
  <2>1. IsSession(h0) /\ h0.t = h.t /\ \A f \in KeptOwn : h0[f] = h[f]
    BY DEF Early, Open, IsSession, OwnFields, HsFields, KeptOwn
  <2> HIDE DEF h0
  <2> QED BY <2>1, Zenon DEF Early, Open
<1> HIDE DEF h0
<1>2. Answers(h0, a1)
  BY <1>1, SendsServerHello, ZenonT(40) DEF Early
<1> HIDE DEF a1
<1>3. Early(k, a1.h) /\ (~a1.ok => Turned(k, a1))
  BY <1>1, <1>2, AnswersOpen, EarlyThen, EarlyRefusal, ZenonT(40) DEF Answers
<1>4. Early(k, s1)
  <2>1. Quiet(a1.h, s1) /\ Open(s1)
    BY <1>3, Stores, SMTT(30) DEF Early
  <2> HIDE DEF s1
  <2> QED BY <2>1, <1>3, EarlyThen, ZenonT(40)
<1> HIDE DEF s1
<1>5. /\ a2.ok \in BOOLEAN /\ IsSession(h2) /\ h2.t.transcript = s1.t.transcript
      /\ \A f \in KeptTls : h2.t[f] = s1.t[f]
      /\ \A f \in KeptOwn : h2[f] = s1[f]
      /\ ~a2.ok => h2.hs.alert # "none"
      /\ a2.ok =>
            /\ IsSecret(h2.hs.handshake_secret) /\ h2.hs.handshake_secret.ku = 0
            /\ IsSecret(h2.hs.c_hs) /\ h2.hs.c_hs.label = "c hs"
            /\ h2.hs.c_hs.over = s1.t.transcript
            /\ IsSecret(h2.hs.s_hs) /\ h2.hs.s_hs.label = "s hs"
            /\ h2.hs.s_hs.over = s1.t.transcript
  <2>1. Open(s1)
    BY <1>4, Zenon DEF Early
  <2> QED BY <2>1, DerivesServer, ZenonT(40)
<1> HIDE DEF a2
<1>6. Early(k, h2)
  <2>1. h2.t.state = s1.t.state /\ h2.t.buf = s1.t.buf /\ h2.t.cfg = s1.t.cfg
    BY <1>5, ZenonT(40) DEF KeptTls
  <2> HIDE DEF h2
  <2> QED BY <2>1, <1>4, <1>5, ZenonT(40) DEF Early, Open
<1>7. CASE ~a1.ok
  <2>1. Turned(k, res)
    BY <1>3, <1>7, ZenonT(40)
  <2> QED BY <2>1, Zenon DEF server_flight, Then, Rest, a1, a2, s1, h0
<1>8. CASE a1.ok /\ ~a2.ok
  <2>1. WriteBits(h2) /\ h2.ready \subseteq Levels \X Dirs
    <3>1. \A f \in KeyFields : h2[f] = k[f]
      BY <1>6, QuietFields, ZenonT(40) DEF Early
    <3> QED BY <3>1, HelloBits, ZenonT(40)
  <2>2. Turned(k, a2)
    BY <1>5, <1>6, <1>8, <2>1, ZenonT(40) DEF Turned, Early
  <2>3. Turned(k, res)
    BY <2>2, <1>8, ZenonT(40)
  <2> QED BY <2>3, Zenon DEF server_flight, Then, Rest, a1, a2, s1, h0
<1>9. CASE a1.ok /\ a2.ok
  <2>1. Mid(k, kd)
    <3> HIDE DEF h2
    <3>1. Derives(h2)
      BY <1>5, <1>9, ZenonT(40) DEF Derives
    <3> QED BY <3>1, <1>6, ServerKeyed, ZenonT(40)
  <2> HIDE DEF kd
  <2>2. Turned(k, Rest(kd, sel.psk_selected, signs))
    BY <2>1, FlightTurns, ZenonT(40)
  <2>3. Turned(k, res)
    BY <2>2, <1>9, ZenonT(40)
  <2> QED BY <2>3, Zenon DEF server_flight, Then, Rest, kd, a1, a2, s1, h0
<1> QED BY <1>5, <1>7, <1>8, <1>9, ZenonT(40)

=============================================================================
