----------------------------- MODULE QuicProofs -----------------------------
(***************************************************************************)
(* Proofs about QUIC packet protection, for every window, packet number    *)
(* limit and number of packets and updates.                                *)
(*                                                                         *)
(* A receiver recovers every packet number inside the window its sender    *)
(* chose.  From that and from the inductive invariant IInv it follows that *)
(* every packet whose keys are held opens under the set it was sealed with *)
(* (AuthenticOpens), and that the key sets stay in step (PhasesInStep).    *)
(*                                                                         *)
(* IInv says more than the two: what an acknowledgement proves about the   *)
(* endpoint that sent it, that packet numbers grow with the phase, and     *)
(* that the lowest number a caller keeps parts the phases.                 *)
(*                                                                         *)
(* For the two limits (LimitsHold), Tallied says that the count kept with  *)
(* the write key is the number of packets sealed in its phase, the close   *)
(* of a failed session included.                                           *)
(***************************************************************************)
EXTENDS QuicKeys, Integers, FiniteSetTheorems, TLAPS

-----------------------------------------------------------------------------
(* The invariant *)

CallerType ==
    [next_pn : Nat, len : PnLens, largest : Nat, lowest : Nat, due : Nat, gen : Nat,
     heard : Nat, acked : BOOLEAN]

\* the fields the proofs read are there
Shaped(s) ==
    /\ {"t", "hs", "tx", "alert", "key_phase", "ready", "initial_dcid", "open_failures",
        "handshake_rx", "handshake_tx", "handshake_hp_rx", "handshake_hp_tx", "app_tx",
        "app_rx", "app_hp_rx", "app_hp_tx"} \subseteq DOMAIN s
    /\ {"state", "alert_sent", "rd_secret", "wr_secret", "res_master", "buf", "suite"}
          \subseteq DOMAIN s.t
    /\ {"alert"} \subseteq DOMAIN s.hs
    /\ {"secret", "sealed"} \subseteq DOMAIN s.app_tx
    /\ DOMAIN s.app_rx = KeySets

\* what a set write bit stands for
Writes(s, e, g) ==
    s.app_tx.secret = Phase(e, g) /\ s.app_hp_tx = AppSecret(e) /\ s.key_phase = g % 2

SessionOk(s, e, g) ==
    /\ Shaped(s)
    /\ s.t.state \in {"CONNECTED", "FAILED"}
    /\ s.t.state = "CONNECTED" => KeysInPhase(s, e, g)
    /\ <<2, "WRITE">> \in s.ready => Writes(s, e, g)

\* a packet was sealed in a phase its sender has reached, and acknowledges nothing
\* its sender has not processed
PacketOk(p, c) ==
    /\ p.from \in Ends /\ p.pn \in Nat /\ p.gen \in Nat /\ p.acks \in Nat
    /\ \E len \in PnLens : p.win = PnWin(len)
    /\ p.phase = p.gen % 2 /\ p.keys = Phase(p.from, p.gen) /\ p.hp = AppSecret(p.from)
    /\ p.pn < PnLimit /\ p.pn < c.next_pn
    /\ p.gen <= c.gen /\ p.acks <= p.gen + 1 /\ p.acks <= c.heard

InOrder == \A p, o \in net : p.from = o.from /\ p.gen < o.gen => p.pn < o.pn

\* how far ahead a caller c may be of its peer's caller d, and what the two say of
\* each other
Apart(c, d) ==
    /\ c.gen <= d.gen + 1 /\ c.heard <= c.gen + 2
    /\ c.due = NoPn => c.heard <= c.gen + 1
    /\ c.acked => c.gen <= d.gen /\ c.gen + 1 <= d.heard
    /\ c.due # NoPn => d.gen = c.gen + 1 /\ c.due < d.next_pn
    /\ c.lowest # NoPn => c.gen <= d.gen /\ c.lowest < d.next_pn
    /\ d.gen = c.gen + 1 => c.lowest # NoPn
    /\ c.due = NoPn /\ c.heard = c.gen + 1 => c.lowest # NoPn

\* the numbers c keeps part the phases of the packets sent to it
Parts(c, sent) ==
    \A p \in sent :
        /\ c.due # NoPn /\ p.gen <= c.gen => p.pn < c.due
        /\ c.lowest # NoPn /\ p.gen < c.gen => p.pn < c.lowest
        /\ c.lowest # NoPn /\ p.gen > c.gen => p.pn > c.lowest

IInv ==
    /\ DOMAIN q = Ends /\ call \in [Ends -> CallerType]
    /\ \A p \in net : PacketOk(p, call[p.from])
    /\ InOrder
    /\ \A e \in Ends : /\ SessionOk(q[e], e, call[e].gen)
                       /\ Apart(call[e], call[Peer(e)])
                       /\ Parts(call[e], SentBy(Peer(e)))

-----------------------------------------------------------------------------
(* Packet numbers *)

\* division with remainder, as the provers need it
LEMMA Divides ==
    ASSUME NEW n \in Nat, NEW win \in Nat \ {0}
    PROVE  \E d \in Nat, m \in 0..(win - 1) : m = n % win /\ n = win * d + m
<1>1. PICK d \in Nat : d = n \div win
  BY SMT
<1>2. PICK m \in 0..(win - 1) : m = n % win
  BY SMT
<1>3. n = win * d + m
  BY <1>1, <1>2, SMT
<1> QED BY <1>2, <1>3, Zenon

\* Two numbers less than two windows apart, with the same place in the window, are
\* the same or one window apart.
LEMMA Neighbours ==
    ASSUME NEW win \in Nat \ {0}, NEW a \in Int, NEW c \in Int,
           win * c - win * a < 2 * win, win * a - win * c < 2 * win
    PROVE  \/ win * c = win * a
           \/ win * c = win * a + win
           \/ win * c = win * a - win
<1>1. c - a < 2
  <2>1. SUFFICES ASSUME c - a >= 2 PROVE FALSE
    BY SMT
  <2>2. PICK k \in Nat : c = a + 2 + k
    BY <2>1, SMT
  <2>3. win * c = win * a + 2 * win + win * k /\ win * k >= 0
    BY <2>2, SMT
  <2> QED BY <2>3, SMT
<1>2. a - c < 2
  <2>1. SUFFICES ASSUME a - c >= 2 PROVE FALSE
    BY SMT
  <2>2. PICK k \in Nat : a = c + 2 + k
    BY <2>1, SMT
  <2>3. win * a = win * c + 2 * win + win * k /\ win * k >= 0
    BY <2>2, SMT
  <2> QED BY <2>3, SMT
<1>3. c = a \/ c = a + 1 \/ c = a - 1
  BY <1>1, <1>2, SMT
<1> QED BY <1>3, SMT

\* quic_pn_decode recovers every packet number inside the window of the bytes the
\* sender spent on it, at both ends of the packet number space too: whatever the
\* even window, the limit and the largest number processed so far.
THEOREM DecodeRecovers ==
    ASSUME NEW pn \in Nat, NEW largest \in Nat, NEW win \in Nat \ {0}, win % 2 = 0,
           pn < PnLimit, InWindow(pn, largest, win)
    PROVE  quic_pn_decode(largest, Truncated(pn, win), win) = pn
<1>1. PICK E \in Nat : E = largest + 1
  BY SMT
<1>2. PICK h \in Nat : h = win \div 2 /\ win = 2 * h
  BY SMT
<1>3. PICK a \in Nat, b \in 0..(win - 1) : b = E % win /\ E = win * a + b
  BY Divides, Zenon
<1>4. PICK c \in Nat, d \in 0..(win - 1) : d = pn % win /\ pn = win * c + d
  BY Divides, Zenon
<1>5. E < pn + h /\ pn <= E + h
  BY <1>1, <1>2 DEF InWindow
<1>6. PICK x \in Int, y \in Int : x = win * a /\ y = win * c
  BY SMT
<1>7. /\ b \in Int /\ 0 <= b /\ b < win /\ d \in Int /\ 0 <= d /\ d < win
      /\ E = x + b /\ pn = y + d
  BY <1>3, <1>4, <1>6, SMT
<1>8. y - x < 2 * win /\ x - y < 2 * win
  BY <1>2, <1>5, <1>7, SMT
<1>9. y = x \/ y = x + win \/ y = x - win
  BY <1>6, <1>8, Neighbours, SMT
<1>10. PnLimit \in Nat
  BY PacketAssumption
<1>11. PICK cand \in Int : cand = E - b + d
  BY <1>7, SMT
<1>12. quic_pn_decode(largest, Truncated(pn, win), win)
         = IF cand + h <= E /\ cand < PnLimit - win THEN cand + win
           ELSE IF cand > E + h /\ cand >= win THEN cand - win
           ELSE cand
  BY <1>1, <1>2, <1>3, <1>4, <1>11, Zenon DEF quic_pn_decode, Truncated
<1> QED BY <1>2, <1>5, <1>7, <1>9, <1>10, <1>11, <1>12, SMT

-----------------------------------------------------------------------------
(* Secrets *)

\* Phases are told apart, the next one is one update further, and none is the
\* secret of a wiped set.
LEMMA PhaseFacts ==
    ASSUME NEW e \in Ends, NEW n \in Nat
    PROVE  /\ \A m \in Nat : Phase(e, n) = Phase(e, m) => n = m
           /\ Advanced(Phase(e, n)) = Phase(e, n + 1)
           /\ Phase(e, n) # NoKeys.secret
<1>1. \A m \in Nat : Phase(e, n) = Phase(e, m) => n = m
  <2>1. TAKE m \in Nat
  <2>2. Phase(e, n).ku = n /\ Phase(e, m).ku = m
    BY SMT DEF Phase
  <2> QED BY <2>2
<1>2. Advanced(Phase(e, n)) = Phase(e, n + 1)
  <2> DEFINE x == IF e = "client" THEN "c ap" ELSE "s ap"
             R(m) == [label |-> x, early |-> "zero", group |-> "none", over |-> << >>, ku |-> m]
  <2> HIDE DEF x
  <2>1. Phase(e, n) = R(n) /\ Phase(e, n + 1) = R(n + 1)
    BY Zenon DEF Phase, x
  <2> QED BY <2>1, Z3 DEF Advanced
<1>3. Phase(e, n) # NoKeys.secret
  <2>1. Phase(e, n).label \in {"c ap", "s ap"}
    BY SMT DEF Phase
  <2>2. NoKeys.secret.label = "none"
    BY SMT DEF NoKeys, NoSecret
  <2>3. SUFFICES ASSUME Phase(e, n) = NoKeys.secret PROVE FALSE
    OBVIOUS
  <2>4. "none" \in {"c ap", "s ap"}
    BY <2>1, <2>2, <2>3, Zenon
  <2> QED BY <2>4, SMT
<1> QED BY <1>1, <1>2, <1>3

\* there are two endpoints, each the peer of the other
LEMMA PeerFacts ==
    ASSUME NEW e \in Ends
    PROVE  Peer(e) \in Ends /\ Peer(e) # e /\ Peer(Peer(e)) = e
                     /\ \A o \in Ends : o = e \/ o = Peer(e)
  BY SMT DEF Peer, Ends

-----------------------------------------------------------------------------
(* What the calls do to a session *)

\* u may seal under no other keys than s may
Lesser(s, u) ==
    /\ Shaped(u) /\ u.key_phase = s.key_phase
    /\ u.t.suite = s.t.suite /\ u.open_failures = s.open_failures
    /\ <<2, "WRITE">> \in u.ready =>
          <<2, "WRITE">> \in s.ready /\ u.app_tx = s.app_tx /\ u.app_hp_tx = s.app_hp_tx

\* wipe_read_keys touches nothing an endpoint seals with
LEMMA WipeRead ==
    ASSUME NEW s, Shaped(s), NEW l \in Levels
    PROVE  Lesser(s, wipe_read_keys(s, l))
  BY Z3 DEF wipe_read_keys, Lesser, Shaped

\* quic_wipe_write_keys takes keys away and gives none
LEMMA WipeWrite ==
    ASSUME NEW s, Shaped(s), NEW l \in Levels
    PROVE  /\ Lesser(s, quic_wipe_write_keys(s, l))
           /\ quic_wipe_write_keys(s, l).t = s.t
           /\ l = 2 => <<2, "WRITE">> \notin quic_wipe_write_keys(s, l).ready
  BY Z3 DEF quic_wipe_write_keys, Lesser, Shaped, NoKeys, Levels

\* so does the wipe that spares a level whose write bit is set
LEMMA WipeUnlessReady ==
    ASSUME NEW s, Shaped(s), NEW l \in Levels
    PROVE  Lesser(s, wipe_write_keys_unless_ready(s, l))
<1>1. Lesser(s, s)
  BY DEF Lesser
<1> QED BY <1>1, WipeWrite DEF wipe_write_keys_unless_ready

\* taking keys away twice is taking keys away
LEMMA LesserChain ==
    ASSUME NEW s, NEW u, NEW w, Lesser(s, u), Lesser(u, w)
    PROVE  Lesser(s, w)
  BY DEF Lesser

\* A failed session may seal its CONNECTION_CLOSE under the keys it had and no
\* others.
LEMMA Fails ==
    ASSUME NEW s, Shaped(s)
    PROVE  Lesser(s, quic_fail(s)) /\ quic_fail(s).t.state = "FAILED"
<1> DEFINE a == wipe_read_keys(s, 0)
           b == wipe_read_keys(a, 1)
           c == wipe_read_keys(b, 2)
           d == wipe_all_but_write_keys(s)
           f == wipe_write_keys_unless_ready(d, 0)
           g == wipe_write_keys_unless_ready(f, 1)
           h == wipe_write_keys_unless_ready(g, 2)
<1>0. 0 \in Levels /\ 1 \in Levels /\ 2 \in Levels
  BY SMT DEF Levels
<1>1. Lesser(s, a)
  BY <1>0, WipeRead
<1>2. Lesser(a, b)
  BY <1>0, <1>1, WipeRead DEF Lesser
<1>3. Lesser(b, c)
  BY <1>0, <1>2, WipeRead DEF Lesser
<1> HIDE DEF a, b, c
<1>4. Lesser(s, c)
  BY <1>1, <1>2, <1>3, LesserChain
<1>5. d = [c EXCEPT !.hs = NoHs, !.t.rd_secret = NoSecret, !.t.wr_secret = NoSecret,
                    !.t.res_master = NoSecret, !.tx = << >>, !.t.buf = << >>]
  BY DEF wipe_all_but_write_keys, a, b, c
<1>6. Lesser(c, d)
  <2>1. Shaped(c)
    BY <1>4 DEF Lesser
  <2>2. "alert" \in DOMAIN NoHs
    BY Z3 DEF NoHs
  <2>3. /\ DOMAIN d = DOMAIN c /\ DOMAIN d.t = DOMAIN c.t /\ d.hs = NoHs
        /\ d.app_tx = c.app_tx /\ d.app_rx = c.app_rx /\ d.app_hp_tx = c.app_hp_tx
        /\ d.key_phase = c.key_phase /\ d.ready = c.ready
        /\ d.open_failures = c.open_failures
    BY <1>5, <2>1, Z3 DEF Shaped
  <2>4. d.t.suite = c.t.suite
    <3> DEFINE m1 == [c EXCEPT !.hs = NoHs, !.t.rd_secret = NoSecret]
               m2 == [m1 EXCEPT !.t.wr_secret = NoSecret]
               m3 == [m2 EXCEPT !.t.res_master = NoSecret]
    <3>1. d = [m3 EXCEPT !.tx = << >>, !.t.buf = << >>]
      BY <1>5
    <3>2. "t" \in DOMAIN c /\ "suite" \in DOMAIN c.t
      BY <2>1, Z3 DEF Shaped
    <3>3. "t" \in DOMAIN m1 /\ "suite" \in DOMAIN m1.t /\ m1.t.suite = c.t.suite
      BY <3>2, Z3
    <3> HIDE DEF m1
    <3>4. "t" \in DOMAIN m2 /\ "suite" \in DOMAIN m2.t /\ m2.t.suite = m1.t.suite
      BY <3>3, Z3
    <3> HIDE DEF m2
    <3>5. "t" \in DOMAIN m3 /\ "suite" \in DOMAIN m3.t /\ m3.t.suite = m2.t.suite
      BY <3>4, Z3
    <3> HIDE DEF m3, d
    <3>6. d.t.suite = m3.t.suite
      BY <3>1, <3>5, Z3
    <3> QED BY <3>3, <3>4, <3>5, <3>6
  <2> QED BY <2>1, <2>2, <2>3, <2>4, Z3 DEF Lesser, Shaped
<1> HIDE DEF d
<1>7. Lesser(d, f)
  BY <1>0, <1>6, WipeUnlessReady DEF Lesser
<1>8. Lesser(f, g)
  BY <1>0, <1>7, WipeUnlessReady DEF Lesser
<1>9. Lesser(g, h)
  BY <1>0, <1>8, WipeUnlessReady DEF Lesser
<1> HIDE DEF f, g, h
<1>10. Lesser(s, h)
  BY <1>4, <1>6, <1>7, <1>8, <1>9, LesserChain
<1>11. quic_fail(s) = [h EXCEPT !.alert = s.hs.alert, !.t.alert_sent = s.hs.alert,
                                !.t.state = "FAILED"]
  BY Zenon DEF quic_fail, f, g, h, d
<1>12. Lesser(h, quic_fail(s)) /\ quic_fail(s).t.state = "FAILED"
  <2> DEFINE x == s.hs.alert
             y == "FAILED"
             u == [h EXCEPT !.alert = x, !.t.alert_sent = x, !.t.state = y]
  <2> HIDE DEF x, y
  <2>1. Shaped(h)
    BY <1>10 DEF Lesser
  <2>2. /\ DOMAIN u = DOMAIN h /\ DOMAIN u.t = DOMAIN h.t /\ u.hs = h.hs
        /\ u.app_tx = h.app_tx /\ u.app_rx = h.app_rx /\ u.app_hp_tx = h.app_hp_tx
        /\ u.key_phase = h.key_phase /\ u.ready = h.ready /\ u.open_failures = h.open_failures
    BY <2>1, Z3 DEF Shaped
  <2>4. u.t.state = y /\ u.t.suite = h.t.suite
    <3> DEFINE w == [h EXCEPT !.alert = x, !.t.alert_sent = x]
    <3>1. "t" \in DOMAIN w /\ {"state", "suite"} \subseteq DOMAIN w.t /\ w.t.suite = h.t.suite
      BY <2>1, Z3 DEF Shaped
    <3>2. u = [w EXCEPT !.t.state = y]
      OBVIOUS
    <3> HIDE DEF w, u
    <3>3. u.t.state = y /\ u.t.suite = w.t.suite
      BY <3>1, <3>2, Z3
    <3> QED BY <3>1, <3>3
  <2> HIDE DEF u
  <2>3. Lesser(h, u) /\ u.t.state = y
    BY <2>1, <2>2, <2>4, Z3 DEF Lesser, Shaped
  <2> QED BY <1>11, <2>3 DEF u, x, y
<1> QED BY <1>10, <1>12, LesserChain

\* what a sealed packet leaves alone
LEMMA SealKeeps ==
    ASSUME NEW s, NEW e \in Ends, NEW g \in Nat, SessionOk(s, e, g)
    PROVE  SessionOk(seal_at_level(s, 2), e, g)
<1> DEFINE u == seal_at_level(s, 2)
<1>1. Shaped(s)
  BY DEF SessionOk
<1>2. /\ DOMAIN u = DOMAIN s /\ u.t = s.t /\ u.hs = s.hs /\ u.app_rx = s.app_rx
      /\ u.app_hp_tx = s.app_hp_tx /\ u.app_hp_rx = s.app_hp_rx
      /\ u.key_phase = s.key_phase /\ u.ready = s.ready
  BY <1>1, Z3 DEF seal_at_level, Shaped
<1>3. DOMAIN u.app_tx = DOMAIN s.app_tx /\ u.app_tx.secret = s.app_tx.secret
  BY <1>1, Z3 DEF seal_at_level, Shaped
<1> HIDE DEF u
<1>4. Shaped(u)
  BY <1>1, <1>2, <1>3 DEF Shaped
<1>5. SessionOk(u, e, g)
  BY <1>2, <1>3, <1>4 DEF SessionOk, KeysInPhase, Writes
<1> QED BY <1>5 DEF u

\* a CONNECTION_CLOSE is the last packet at its level
LEMMA CloseKeeps ==
    ASSUME NEW s, NEW e \in Ends, NEW g \in Nat, SessionOk(s, e, g), s.t.state = "FAILED"
    PROVE  SessionOk(quic_seal_close(s, 2), e, g)
<1> DEFINE u == seal_at_level(s, 2)
           w == quic_wipe_write_keys(u, 2)
<1>1. SessionOk(u, e, g)
  BY SealKeeps
<1>2. u.t = s.t
  BY Z3 DEF SessionOk, Shaped, seal_at_level
<1> HIDE DEF u
<1>3. Lesser(u, w) /\ w.t = u.t /\ <<2, "WRITE">> \notin w.ready
  <2>1. 2 \in Levels
    BY SMT DEF Levels
  <2> QED BY <1>1, <2>1, WipeWrite DEF SessionOk
<1> HIDE DEF w
<1>4. SessionOk(w, e, g)
  BY <1>2, <1>3, Z3 DEF SessionOk, Lesser
<1> QED BY <1>4 DEF quic_seal_close, u, w

\* a packet whose tag did not match is counted, or is the last one
LEMMA OpenFailedKeeps ==
    ASSUME NEW s, NEW e \in Ends, NEW g \in Nat, SessionOk(s, e, g)
    PROVE  SessionOk(open_failed(s), e, g)
<1> DEFINE n == s.open_failures + 1
           u == [s EXCEPT !.open_failures = n]
           v == [u EXCEPT !.hs.alert = "bad_record_mac"]
           w == quic_fail(v)
<1>1. Shaped(s)
  BY DEF SessionOk
<1> HIDE DEF n
<1>2. /\ DOMAIN u = DOMAIN s /\ u.t = s.t /\ u.hs = s.hs /\ u.app_rx = s.app_rx
      /\ u.app_tx = s.app_tx /\ u.app_hp_tx = s.app_hp_tx /\ u.app_hp_rx = s.app_hp_rx
      /\ u.key_phase = s.key_phase /\ u.ready = s.ready
  BY <1>1, Z3 DEF Shaped
<1> HIDE DEF u
<1>3. SessionOk(u, e, g)
  BY <1>2 DEF SessionOk, Shaped, KeysInPhase, Writes
<1>4. /\ DOMAIN v = DOMAIN u /\ v.t = u.t /\ DOMAIN v.hs = DOMAIN u.hs /\ v.app_rx = u.app_rx
      /\ v.app_tx = u.app_tx /\ v.app_hp_tx = u.app_hp_tx
      /\ v.key_phase = u.key_phase /\ v.ready = u.ready
  BY <1>3, Z3 DEF SessionOk, Shaped
<1> HIDE DEF v
<1>5. Shaped(v) /\ (<<2, "WRITE">> \in v.ready => Writes(v, e, g))
  BY <1>3, <1>4 DEF SessionOk, Shaped, Writes
<1>6. Lesser(v, w) /\ w.t.state = "FAILED"
  BY <1>5, Fails
<1> HIDE DEF w
<1>7. SessionOk(w, e, g)
  <2>1. Shaped(w)
    BY <1>6 DEF Lesser
  <2>2. <<2, "WRITE">> \in w.ready => Writes(w, e, g)
    BY <1>5, <1>6 DEF Lesser, Writes
  <2>3. w.t.state \in {"CONNECTED", "FAILED"} /\ w.t.state # "CONNECTED"
    BY <1>6, Z3
  <2> QED BY <2>1, <2>2, <2>3 DEF SessionOk
<1>8. open_failed(s) = IF quic_integrity_limit_exceeded(u.open_failures) THEN w ELSE u
  BY Zenon DEF open_failed, n, u, v, w
<1> QED BY <1>3, <1>7, <1>8

\* an update moves every set of the session by one phase
LEMMA UpdateAdvances ==
    ASSUME NEW s, NEW e \in Ends, NEW g \in Nat, SessionOk(s, e, g), s.t.state = "CONNECTED"
    PROVE  SessionOk(quic_key_update(s), e, g + 1)
<1> DEFINE v  == s.t.quic_negotiated_version
           tx == quic_keys_update(s.t.wr_secret, v)
           nx == quic_keys_update(s.t.rd_secret, v)
           rx == [PREVIOUS |-> s.app_rx["CURRENT"], CURRENT |-> s.app_rx["NEXT"], NEXT |-> nx]
           ws == Advanced(s.t.wr_secret)
           rs == Advanced(s.t.rd_secret)
           kp == 1 - s.key_phase
           u  == [s EXCEPT !.app_tx = tx, !.t.wr_secret = ws, !.key_phase = kp,
                           !.app_rx = rx, !.t.rd_secret = rs]
<1>1. Shaped(s) /\ KeysInPhase(s, e, g)
  BY DEF SessionOk
<1>2. quic_key_update(s) = u
  <2>1. [s EXCEPT !.app_tx = tx, !.t.wr_secret = ws].t.rd_secret = s.t.rd_secret
    BY <1>1, Z3 DEF Shaped
  <2> QED BY <1>1, <2>1, Z3 DEF quic_key_update, Shaped
<1>3. /\ ws = Phase(e, g + 1) /\ tx.secret = Phase(e, g + 1)
      /\ rs = Phase(Peer(e), g + 2) /\ nx.secret = Phase(Peer(e), g + 2)
      /\ {"secret", "sealed"} \subseteq DOMAIN tx
  <2>1. Peer(e) \in Ends /\ g + 1 \in Nat /\ (g + 1) + 1 = g + 2
    BY PeerFacts, SMT
  <2>2. ws = Phase(e, g + 1) /\ rs = Phase(Peer(e), g + 2)
    BY <1>1, <2>1, PhaseFacts, Zenon DEF KeysInPhase
  <2>3. tx = [secret |-> ws, version |-> v, sealed |-> 0]
        /\ nx = [secret |-> rs, version |-> v, sealed |-> 0]
    BY DEF quic_keys_update, quic_keys_init
  <2> HIDE DEF tx, nx, ws, rs, v
  <2> QED BY <2>2, <2>3, Z3
<1>4. /\ DOMAIN rx = KeySets /\ rx["PREVIOUS"].secret = Phase(Peer(e), g)
      /\ rx["CURRENT"].secret = Phase(Peer(e), g + 1)
      /\ rx["NEXT"].secret = Phase(Peer(e), g + 2)
  <2>1. /\ s.app_rx["CURRENT"].secret = Phase(Peer(e), g)
        /\ s.app_rx["NEXT"].secret = Phase(Peer(e), g + 1)
    BY <1>1 DEF KeysInPhase
  <2> DEFINE cu == s.app_rx["CURRENT"]
             ne == s.app_rx["NEXT"]
  <2> HIDE DEF nx, cu, ne
  <2>2. rx = [PREVIOUS |-> cu, CURRENT |-> ne, NEXT |-> nx]
    BY DEF cu, ne
  <2>3. /\ rx["PREVIOUS"] = cu /\ rx["CURRENT"] = ne /\ rx["NEXT"] = nx
        /\ DOMAIN rx = {"PREVIOUS", "CURRENT", "NEXT"}
    BY <2>2, Z3
  <2> QED BY <1>3, <2>1, <2>3 DEF KeySets, cu, ne
<1>5. kp = (g + 1) % 2
  <2>1. s.key_phase = g % 2
    BY <1>1 DEF KeysInPhase
  <2> QED BY <2>1, SMT
<1> HIDE DEF tx, nx, rx, ws, rs, kp, v
<1>6. /\ DOMAIN u = DOMAIN s /\ DOMAIN u.t = DOMAIN s.t /\ u.hs = s.hs
      /\ u.app_tx = tx /\ u.app_rx = rx /\ u.key_phase = kp
      /\ u.app_hp_tx = s.app_hp_tx /\ u.app_hp_rx = s.app_hp_rx /\ u.ready = s.ready
  BY <1>1, Z3 DEF Shaped
<1>7. u.t.state = s.t.state /\ u.t.wr_secret = ws /\ u.t.rd_secret = rs
  <2> DEFINE w == [s EXCEPT !.app_tx = tx, !.t.wr_secret = ws, !.key_phase = kp, !.app_rx = rx]
             m == [s EXCEPT !.app_tx = tx]
  <2>1. /\ DOMAIN m = DOMAIN s /\ m.t = s.t
        /\ w = [m EXCEPT !.t.wr_secret = ws, !.key_phase = kp, !.app_rx = rx]
    BY <1>1, Z3 DEF Shaped
  <2> HIDE DEF m, w
  <2>2. /\ DOMAIN w = DOMAIN m /\ DOMAIN w.t = DOMAIN m.t
        /\ w.t.state = m.t.state /\ w.t.wr_secret = ws
    BY <1>1, <2>1, Z3 DEF Shaped
  <2>3. u = [w EXCEPT !.t.rd_secret = rs]
    BY DEF w
  <2> HIDE DEF u
  <2>4. "t" \in DOMAIN w /\ {"state", "wr_secret", "rd_secret"} \subseteq DOMAIN w.t
    BY <1>1, <2>1, <2>2, Z3 DEF Shaped
  <2>5. u.t.state = w.t.state /\ u.t.wr_secret = w.t.wr_secret /\ u.t.rd_secret = rs
    BY <2>3, <2>4, Z3
  <2> QED BY <2>1, <2>2, <2>5, Zenon
<1> HIDE DEF u
<1>8. Shaped(u)
  BY <1>1, <1>3, <1>4, <1>6 DEF Shaped
<1>9. KeysInPhase(u, e, g + 1)
  <2>1. g + 1 > 0 /\ (g + 1) - 1 = g /\ (g + 1) + 1 = g + 2
    BY SMT
  <2> QED BY <1>1, <1>3, <1>4, <1>5, <1>6, <1>7, <2>1, Zenon DEF KeysInPhase
<1>10. SessionOk(u, e, g + 1)
  BY <1>7, <1>8, <1>9, Zenon DEF SessionOk, Writes, KeysInPhase
<1> QED BY <1>2, <1>10

\* dropping the previous set leaves the other sets alone
LEMMA DropKeeps ==
    ASSUME NEW s, NEW e \in Ends, NEW g \in Nat, SessionOk(s, e, g)
    PROVE  SessionOk(quic_drop_previous_keys(s), e, g)
<1> DEFINE u == [s EXCEPT !.app_rx["PREVIOUS"] = NoKeys]
<1>1. Shaped(s)
  BY DEF SessionOk
<1>2. /\ DOMAIN u = DOMAIN s /\ u.t = s.t /\ u.hs = s.hs /\ u.app_tx = s.app_tx
      /\ u.app_hp_tx = s.app_hp_tx /\ u.app_hp_rx = s.app_hp_rx
      /\ u.key_phase = s.key_phase /\ u.ready = s.ready
  BY <1>1, Z3 DEF Shaped
<1>3. /\ DOMAIN u.app_rx = DOMAIN s.app_rx /\ u.app_rx["PREVIOUS"] = NoKeys
      /\ u.app_rx["CURRENT"] = s.app_rx["CURRENT"] /\ u.app_rx["NEXT"] = s.app_rx["NEXT"]
  BY <1>1, Z3 DEF Shaped, KeySets
<1> HIDE DEF u
<1>4. SessionOk(u, e, g)
  BY <1>1, <1>2, <1>3, Zenon DEF SessionOk, Shaped, KeysInPhase, Writes
<1> QED BY <1>4 DEF quic_drop_previous_keys, u

\* a session starts in phase 0
LEMMA Starting ==
    ASSUME NEW e \in Ends, NEW suite
    PROVE  SessionOk(Established(e, suite), e, 0)
<1> DEFINE cfg == [quic_original_version |-> 1]
           b == Blank(cfg)
           wr == AppSecret(e)
           rd == AppSecret(Peer(e))
           y == "CONNECTED"
           c == [b EXCEPT !.t.state = y, !.step = "COMPLETE", !.rx_level = 2,
                          !.t.quic_negotiated_version = 1, !.t.suite = suite,
                          !.t.wr_secret = wr, !.t.rd_secret = rd]
           dirs == {"READ", "WRITE"}
           u == install_application_keys(c, dirs)
<1>1. Established(e, suite) = u
  BY DEF Established
<1>2. Shaped(b) /\ b.key_phase = 0 /\ b.app_rx["PREVIOUS"] = NoKeys
  <2> DEFINE nt == NoTls(cfg)
             nr == [s \in KeySets |-> NoKeys]
  <2>1. {"state", "alert_sent", "rd_secret", "wr_secret", "res_master", "buf", "suite"}
           \subseteq DOMAIN nt
    BY Z3 DEF NoTls
  <2>2. "alert" \in DOMAIN NoHs /\ {"secret", "sealed"} \subseteq DOMAIN NoKeys
    BY Z3 DEF NoHs, NoKeys
  <2>3. DOMAIN nr = KeySets /\ nr["PREVIOUS"] = NoKeys
    BY Z3 DEF KeySets
  <2> HIDE DEF nt, nr
  <2>4. /\ b.t = nt /\ b.hs = NoHs /\ b.app_tx = NoKeys /\ b.app_rx = nr /\ b.key_phase = 0
        /\ {"t", "hs", "tx", "alert", "key_phase", "ready", "initial_dcid", "open_failures",
            "handshake_rx", "handshake_tx", "handshake_hp_rx", "handshake_hp_tx", "app_tx",
            "app_rx", "app_hp_rx", "app_hp_tx"} \subseteq DOMAIN b
    BY Z3 DEF Blank, nt, nr
  <2> HIDE DEF b
  <2> QED BY <2>1, <2>2, <2>3, <2>4, Z3 DEF Shaped
<1> HIDE DEF b, wr, rd, y
<1>3. /\ DOMAIN c = DOMAIN b /\ DOMAIN c.t = DOMAIN b.t /\ c.hs = b.hs /\ c.app_tx = b.app_tx
      /\ c.app_rx = b.app_rx /\ c.key_phase = b.key_phase /\ c.ready = b.ready
  BY <1>2, Z3 DEF Shaped
<1>4. c.t.state = y /\ c.t.wr_secret = wr /\ c.t.rd_secret = rd
  <2> DEFINE c1 == [b EXCEPT !.t.state = y]
             c0 == [c1 EXCEPT !.step = "COMPLETE", !.rx_level = 2,
                              !.t.quic_negotiated_version = 1]
             c2 == [c0 EXCEPT !.t.suite = suite]
             c3 == [c2 EXCEPT !.t.wr_secret = wr]
  <2>1. DOMAIN c1 = DOMAIN b /\ DOMAIN c1.t = DOMAIN b.t /\ c1.t.state = y
    BY <1>2, Z3 DEF Shaped
  <2> HIDE DEF c1
  <2>0. DOMAIN c0 = DOMAIN c1 /\ DOMAIN c0.t = DOMAIN c1.t /\ c0.t.state = c1.t.state
    BY <1>2, <2>1, Z3 DEF Shaped
  <2> HIDE DEF c0
  <2>2. DOMAIN c2 = DOMAIN c0 /\ DOMAIN c2.t = DOMAIN c0.t /\ c2.t.state = c0.t.state
    BY <1>2, <2>0, <2>1, Z3 DEF Shaped
  <2> HIDE DEF c2
  <2>3. /\ DOMAIN c3 = DOMAIN c2 /\ DOMAIN c3.t = DOMAIN c2.t /\ c3.t.state = c2.t.state
        /\ c3.t.wr_secret = wr
    BY <1>2, <2>0, <2>1, <2>2, Z3 DEF Shaped
  <2>4. c = [c3 EXCEPT !.t.rd_secret = rd]
    BY Zenon DEF c2, c0, c1
  <2> HIDE DEF c3, c
  <2>5. "t" \in DOMAIN c3 /\ {"state", "wr_secret", "rd_secret"} \subseteq DOMAIN c3.t
    BY <1>2, <2>0, <2>1, <2>2, <2>3, Z3 DEF Shaped
  <2>6. c.t.state = c3.t.state /\ c.t.wr_secret = c3.t.wr_secret /\ c.t.rd_secret = rd
    BY <2>4, <2>5, Z3
  <2> QED BY <2>0, <2>1, <2>2, <2>3, <2>6, Zenon
<1> HIDE DEF c
<1>5. Shaped(c)
  BY <1>2, <1>3 DEF Shaped
<1> DEFINE v  == c.t.quic_negotiated_version
           k1 == quic_keys_init(wr, v)
           k2 == quic_keys_init(rd, v)
           k3 == quic_keys_update(rd, v)
           rs == Advanced(rd)
           rx == [[c.app_rx EXCEPT !["CURRENT"] = k2] EXCEPT !["NEXT"] = k3]
           w  == [c EXCEPT !.app_tx = k1, !.app_hp_tx = wr, !.app_rx["CURRENT"] = k2,
                           !.app_hp_rx = rd, !.app_rx["NEXT"] = k3, !.t.rd_secret = rs]
           r  == w.ready \cup ({2} \X dirs)
<1>6. u = [w EXCEPT !.ready = r]
  BY <1>4, Zenon DEF install_application_keys, Announce
<1>7. /\ wr = Phase(e, 0) /\ rd = Phase(Peer(e), 0) /\ rs = Phase(Peer(e), 1)
      /\ k1.secret = wr /\ k2.secret = rd /\ k3.secret = rs
      /\ {"secret", "sealed"} \subseteq DOMAIN k1
  <2>1. wr = Phase(e, 0) /\ rd = Phase(Peer(e), 0)
    BY DEF AppSecret, wr, rd
  <2>2. rs = Phase(Peer(e), 1)
    <3>1. 0 \in Nat /\ 0 + 1 = 1 /\ Peer(e) \in Ends
      BY PeerFacts, SMT
    <3>2. Advanced(Phase(Peer(e), 0)) = Phase(Peer(e), 0 + 1)
      BY <3>1, PhaseFacts
    <3> QED BY <2>1, <3>1, <3>2
  <2>3. /\ k1 = [secret |-> wr, version |-> v, sealed |-> 0]
        /\ k2 = [secret |-> rd, version |-> v, sealed |-> 0]
        /\ k3 = [secret |-> rs, version |-> v, sealed |-> 0]
    BY DEF quic_keys_init, quic_keys_update
  <2> HIDE DEF k1, k2, k3, rs, v
  <2> QED BY <2>1, <2>2, <2>3, Z3
<1> HIDE DEF k1, k2, k3, rs, v
<1>8. /\ DOMAIN w = DOMAIN c /\ w.hs = c.hs /\ w.app_tx = k1 /\ w.key_phase = c.key_phase
      /\ w.app_hp_tx = wr /\ w.app_hp_rx = rd /\ DOMAIN w.t = DOMAIN c.t
      /\ w.t.state = c.t.state /\ w.t.wr_secret = c.t.wr_secret /\ w.t.rd_secret = rs
  BY <1>5, Z3 DEF Shaped
<1>9. w.app_rx = rx
  BY <1>5, Z3 DEF Shaped
<1>10. /\ DOMAIN rx = KeySets /\ rx["CURRENT"] = k2 /\ rx["NEXT"] = k3
       /\ rx["PREVIOUS"] = c.app_rx["PREVIOUS"]
  BY <1>5, Z3 DEF Shaped, KeySets
<1> HIDE DEF w, rx, r
<1>11. /\ DOMAIN u = DOMAIN w /\ u.hs = w.hs /\ u.app_tx = w.app_tx /\ u.app_rx = w.app_rx
       /\ u.key_phase = w.key_phase /\ u.t = w.t
       /\ u.app_hp_tx = w.app_hp_tx /\ u.app_hp_rx = w.app_hp_rx
  <2>1. Shaped(w)
    BY <1>5, <1>7, <1>8, <1>9, <1>10 DEF Shaped
  <2> HIDE DEF u
  <2> QED BY <1>6, <2>1, Z3 DEF Shaped
<1> HIDE DEF u
<1>12. Shaped(u)
  BY <1>5, <1>7, <1>8, <1>9, <1>10, <1>11 DEF Shaped
<1>13. KeysInPhase(u, e, 0)
  <2>1. 0 = 0 % 2 /\ 0 + 1 = 1
    BY SMT
  <2> QED BY <1>2, <1>3, <1>4, <1>7, <1>8, <1>9, <1>10, <1>11, <2>1, Zenon
          DEF KeysInPhase, AppSecret
<1>14. u.t.state = "CONNECTED"
  BY <1>4, <1>8, <1>11 DEF y
<1>15. SessionOk(u, e, 0)
  BY <1>12, <1>13, <1>14 DEF SessionOk, Writes, KeysInPhase
<1> QED BY <1>1, <1>15

-----------------------------------------------------------------------------
(* What the callers keep *)

\* the types of what a caller keeps
LEMMA CallerFields ==
    ASSUME NEW c \in CallerType
    PROVE  /\ c.next_pn \in Nat /\ c.len \in PnLens /\ c.largest \in Nat /\ c.lowest \in Nat
           /\ c.due \in Nat /\ c.gen \in Nat /\ c.heard \in Nat /\ c.acked \in BOOLEAN
  BY DEF CallerType

\* a set of packets one endpoint sealed, in the order of its phases
Sealed(sent) ==
    /\ \A p \in sent : p.pn \in Nat /\ p.pn < PnLimit /\ p.gen \in Nat /\ p.acks \in Nat
    /\ \A p, o \in sent : p.gen < o.gen => p.pn < o.pn

\* The caller's notes stay true when a packet opens under the set of the phase it
\* was sealed in.
LEMMA ProcessedKeeps ==
    ASSUME NEW c \in CallerType, NEW d \in CallerType, NEW sent, NEW p \in sent, NEW set,
           Apart(c, d), Apart(d, c), Parts(c, sent), Sealed(sent),
           p.pn < d.next_pn, p.gen <= d.gen, p.acks <= p.gen + 1, p.acks <= d.heard,
           \/ set = "PREVIOUS" /\ p.gen + 1 = c.gen
           \/ set = "CURRENT" /\ p.gen = c.gen
           \/ set = "NEXT" /\ p.gen = c.gen + 1
    PROVE  LET n == Processed(c, p.pn, set, p.acks) IN
           /\ n \in CallerType /\ n.next_pn = c.next_pn /\ n.gen = c.gen /\ n.heard >= c.heard
           /\ Apart(n, d) /\ Apart(d, n) /\ Parts(n, sent)
<1> DEFINE pn == p.pn
           lg == Larger(c.largest, pn)
           lo == IF set = "CURRENT" THEN Smaller(c.lowest, pn) ELSE c.lowest
           du == IF set = "NEXT" THEN Smaller(c.due, pn) ELSE c.due
           ph == CASE set = "PREVIOUS" -> c.gen
                   [] set = "CURRENT"  -> c.gen + 1
                   [] set = "NEXT"     -> c.gen + 2
           he == Larger(c.heard, ph)
           ac == c.acked \/ p.acks = c.gen + 1
           n  == [c EXCEPT !.largest = lg, !.lowest = lo, !.due = du, !.heard = he, !.acked = ac]
<1>1. n = Processed(c, p.pn, set, p.acks)
  BY DEF Processed
<1>2. /\ c.next_pn \in Nat /\ c.largest \in Nat /\ c.lowest \in Nat /\ c.due \in Nat
      /\ c.gen \in Nat /\ c.heard \in Nat /\ c.acked \in BOOLEAN
      /\ d.next_pn \in Nat /\ d.lowest \in Nat /\ d.due \in Nat /\ d.gen \in Nat
      /\ d.heard \in Nat /\ d.acked \in BOOLEAN
  BY CallerFields
<1>3. p.pn \in Nat /\ p.pn < NoPn /\ p.gen \in Nat /\ p.acks \in Nat /\ NoPn \in Nat
  BY PacketAssumption DEF Sealed, NoPn
<1>4. ph = p.gen + 1
  <2>1. CASE set = "PREVIOUS"
    BY <1>2, <1>3, <2>1, SMT
  <2>2. CASE set = "CURRENT"
    BY <1>2, <1>3, <2>2, SMT
  <2>3. CASE set = "NEXT"
    BY <1>2, <1>3, <2>3, SMT
  <2> QED BY <2>1, <2>2, <2>3
<1>5. lg \in Nat /\ he \in Nat /\ he >= c.heard /\ (he = c.heard \/ he = p.gen + 1)
  BY <1>2, <1>3, <1>4, SMT DEF Larger
<1>6. /\ lo \in Nat /\ lo <= c.lowest /\ du \in Nat /\ du <= c.due
      /\ set = "CURRENT" => lo <= p.pn
      /\ set = "NEXT" => du <= p.pn
      /\ lo # c.lowest => set = "CURRENT" /\ lo = p.pn
      /\ du # c.due => set = "NEXT" /\ du = p.pn
  BY <1>2, <1>3, SMT DEF Smaller
<1>7. ac \in BOOLEAN /\ (ac => c.acked \/ p.acks = c.gen + 1)
  OBVIOUS
<1> HIDE DEF lg, lo, du, ph, he, ac
<1>8. /\ n \in CallerType /\ n.next_pn = c.next_pn /\ n.gen = c.gen /\ n.heard = he
      /\ n.lowest = lo /\ n.due = du /\ n.acked = ac
  BY <1>5, <1>6, <1>7, Zenon DEF CallerType
<1> HIDE DEF n
<1>9. Apart(n, d)
  <2>1. n.gen <= d.gen + 1 /\ n.heard <= n.gen + 2
    BY <1>2, <1>3, <1>5, <1>8, SMT DEF Apart
  <2>2. n.due = NoPn => n.heard <= n.gen + 1
    BY <1>2, <1>3, <1>5, <1>6, <1>8, SMT DEF Apart
  <2>3. n.acked => n.gen <= d.gen /\ n.gen + 1 <= d.heard
    BY <1>2, <1>3, <1>7, <1>8, SMT DEF Apart
  <2>4. n.due # NoPn => d.gen = n.gen + 1 /\ n.due < d.next_pn
    BY <1>2, <1>3, <1>6, <1>8, SMT DEF Apart
  <2>5. n.lowest # NoPn => n.gen <= d.gen /\ n.lowest < d.next_pn
    BY <1>2, <1>3, <1>6, <1>8, SMT DEF Apart
  <2>6. d.gen = n.gen + 1 => n.lowest # NoPn
    BY <1>2, <1>3, <1>6, <1>8, SMT DEF Apart
  <2>7. n.due = NoPn /\ n.heard = n.gen + 1 => n.lowest # NoPn
    BY <1>2, <1>3, <1>5, <1>6, <1>8, SMT DEF Apart
  <2> QED BY <2>1, <2>2, <2>3, <2>4, <2>5, <2>6, <2>7 DEF Apart
<1>10. Apart(d, n)
  BY <1>2, <1>3, <1>5, <1>8, SMT DEF Apart
<1>11. Parts(n, sent)
  <2>1. SUFFICES ASSUME NEW x \in sent
                 PROVE  /\ du # NoPn /\ x.gen <= c.gen => x.pn < du
                        /\ lo # NoPn /\ x.gen < c.gen => x.pn < lo
                        /\ lo # NoPn /\ x.gen > c.gen => x.pn > lo
    BY <1>8 DEF Parts
  <2>2. x.pn \in Nat /\ x.gen \in Nat
        /\ (x.gen < p.gen => x.pn < p.pn) /\ (p.gen < x.gen => p.pn < x.pn)
    BY DEF Sealed
  <2>3. /\ c.due # NoPn /\ x.gen <= c.gen => x.pn < c.due
        /\ c.lowest # NoPn /\ x.gen < c.gen => x.pn < c.lowest
        /\ c.lowest # NoPn /\ x.gen > c.gen => x.pn > c.lowest
    BY DEF Parts
  <2>4. du # NoPn /\ x.gen <= c.gen => x.pn < du
    BY <1>2, <1>3, <1>6, <2>2, <2>3, SMT
  <2>5. lo # NoPn /\ x.gen < c.gen => x.pn < lo
    BY <1>2, <1>3, <1>6, <2>2, <2>3, SMT
  <2>6. lo # NoPn /\ x.gen > c.gen => x.pn > lo
    BY <1>2, <1>3, <1>6, <2>2, <2>3, SMT
  <2> QED BY <2>4, <2>5, <2>6
<1> QED BY <1>1, <1>5, <1>8, <1>9, <1>10, <1>11

\* what a caller keeps after an update
Updated(c) == [c EXCEPT !.gen = @ + 1, !.lowest = c.due, !.due = NoPn, !.acked = FALSE]

\* They stay true when an update is made in answer to the peer's, or after an
\* acknowledgement.
LEMMA UpdatedKeeps ==
    ASSUME NEW c \in CallerType, NEW d \in CallerType, NEW sent,
           Apart(c, d), Apart(d, c), Parts(c, sent), Sealed(sent),
           \A p \in sent : p.gen <= d.gen,
           c.due # NoPn \/ c.acked
    PROVE  LET n == Updated(c) IN
           /\ n \in CallerType /\ n.next_pn = c.next_pn /\ n.gen = c.gen + 1
           /\ n.heard = c.heard
           /\ Apart(n, d) /\ Apart(d, n) /\ Parts(n, sent)
<1> DEFINE n == Updated(c)
<1>1. /\ c.next_pn \in Nat /\ c.largest \in Nat /\ c.lowest \in Nat /\ c.due \in Nat
      /\ c.gen \in Nat /\ c.heard \in Nat /\ c.acked \in BOOLEAN
      /\ d.next_pn \in Nat /\ d.lowest \in Nat /\ d.due \in Nat /\ d.gen \in Nat
      /\ d.heard \in Nat /\ d.acked \in BOOLEAN
  BY CallerFields
<1>2. NoPn \in Nat
  BY PacketAssumption DEF NoPn
<1>3. /\ n \in CallerType /\ n.next_pn = c.next_pn /\ n.gen = c.gen + 1 /\ n.heard = c.heard
      /\ n.lowest = c.due /\ n.due = NoPn /\ n.acked = FALSE
  <2> DEFINE a == c.gen + 1
             b == c.due
             u == [c EXCEPT !.gen = a, !.lowest = b, !.due = NoPn, !.acked = FALSE]
  <2>1. n = u /\ a \in Nat /\ b \in Nat
    BY <1>1, SMT DEF Updated
  <2> HIDE DEF a, b, n
  <2>2. /\ u \in CallerType /\ u.next_pn = c.next_pn /\ u.gen = a /\ u.heard = c.heard
        /\ u.lowest = b /\ u.due = NoPn /\ u.acked = FALSE
    BY <1>2, <2>1, Zenon DEF CallerType
  <2> QED BY <2>1, <2>2 DEF a, b
<1> HIDE DEF n
<1>4. Apart(n, d)
  BY <1>1, <1>2, <1>3, SMT DEF Apart
<1>5. Apart(d, n)
  BY <1>1, <1>2, <1>3, SMT DEF Apart
<1>6. Parts(n, sent)
  <2>1. SUFFICES ASSUME NEW x \in sent, c.due # NoPn
                 PROVE  /\ x.gen < c.gen + 1 => x.pn < c.due
                        /\ ~(x.gen > c.gen + 1)
    BY <1>3 DEF Parts
  <2>2. x.gen \in Nat /\ x.gen <= d.gen /\ d.gen = c.gen + 1
    BY <2>1 DEF Sealed, Apart
  <2>3. x.gen <= c.gen => x.pn < c.due
    BY <2>1 DEF Parts
  <2>4. x.gen < c.gen + 1 => x.gen <= c.gen
    BY <1>1, <2>2, SMT
  <2>5. ~(x.gen > c.gen + 1)
    BY <1>1, <2>2, SMT
  <2> QED BY <2>3, <2>4, <2>5
<1> QED BY <1>3, <1>4, <1>5, <1>6 DEF n

-----------------------------------------------------------------------------
(* The invariant is kept *)

\* what the invariant says of the packets sent to an endpoint
LEMMA SentFacts ==
    ASSUME IInv, NEW e \in Ends
    PROVE  /\ call[e] \in CallerType /\ Sealed(SentBy(e))
           /\ \A p \in SentBy(e) : PacketOk(p, call[e])
<1>1. call[e] \in CallerType
  BY DEF IInv
<1>2. \A p \in SentBy(e) : PacketOk(p, call[e])
  BY DEF IInv, SentBy
<1>3. Sealed(SentBy(e))
  <2>1. \A p \in SentBy(e) : p.pn \in Nat /\ p.pn < PnLimit /\ p.gen \in Nat /\ p.acks \in Nat
    BY <1>2 DEF PacketOk
  <2>2. \A p, o \in SentBy(e) : p.gen < o.gen => p.pn < o.pn
    BY DEF IInv, InOrder, SentBy
  <2> QED BY <2>1, <2>2 DEF Sealed
<1> QED BY <1>1, <1>2, <1>3

\* a step of e that sends nothing
LEMMA QuietStep ==
    ASSUME IInv, NEW e \in Ends, NEW c \in CallerType,
           DOMAIN q' = Ends, q'[Peer(e)] = q[Peer(e)], SessionOk(q'[e], e, c.gen),
           call' = [call EXCEPT ![e] = c], net' = net,
           c.next_pn = call[e].next_pn, c.gen >= call[e].gen, c.heard >= call[e].heard,
           Apart(c, call[Peer(e)]), Apart(call[Peer(e)], c), Parts(c, SentBy(Peer(e)))
    PROVE  IInv'
<1> DEFINE d == Peer(e)
<1>1. d \in Ends /\ d # e /\ Peer(d) = e /\ \A o \in Ends : o = e \/ o = d
  BY PeerFacts
<1>2. call \in [Ends -> CallerType]
  BY DEF IInv
<1>3. call' \in [Ends -> CallerType] /\ call'[e] = c /\ call'[d] = call[d]
  BY <1>1, <1>2
<1>4. SentBy(e)' = SentBy(e) /\ SentBy(d)' = SentBy(d)
  BY DEF SentBy
<1>5. \A p \in net' : PacketOk(p, call'[p.from])
  <2>1. SUFFICES ASSUME NEW p \in net PROVE PacketOk(p, call'[p.from])
    OBVIOUS
  <2>2. PacketOk(p, call[p.from]) /\ p.from \in Ends
    BY DEF IInv, PacketOk
  <2>3. CASE p.from = d
    BY <1>3, <2>2, <2>3
  <2>4. CASE p.from = e
    <3>1. call[e] \in CallerType
      BY <1>2
    <3>2. /\ call[e].next_pn \in Nat /\ call[e].gen \in Nat /\ call[e].heard \in Nat
          /\ c.next_pn \in Nat /\ c.gen \in Nat /\ c.heard \in Nat
      BY <3>1, CallerFields
    <3>3. PacketOk(p, call[e])
      BY <2>2, <2>4
    <3>4. p.gen <= c.gen /\ p.acks <= c.heard /\ p.pn < c.next_pn
      BY <3>2, <3>3, SMT DEF PacketOk
    <3>5. PacketOk(p, c)
      BY <3>3, <3>4 DEF PacketOk
    <3> QED BY <1>3, <2>4, <3>5
  <2> QED BY <1>1, <2>2, <2>3, <2>4
<1>6. InOrder'
  BY DEF IInv, InOrder
<1>7. SessionOk(q'[e], e, call'[e].gen) /\ SessionOk(q'[d], d, call'[d].gen)
  BY <1>1, <1>3 DEF IInv
<1>8. Apart(call'[e], call'[d]) /\ Apart(call'[d], call'[e])
  BY <1>3
<1>9. Parts(call'[e], SentBy(d)') /\ Parts(call'[d], SentBy(e)')
  BY <1>1, <1>3, <1>4 DEF IInv
<1>10. \A o \in Ends : /\ SessionOk(q'[o], o, call'[o].gen)
                       /\ Apart(call'[o], call'[Peer(o)])
                       /\ Parts(call'[o], SentBy(Peer(o))')
  BY <1>1, <1>7, <1>8, <1>9
<1> QED BY <1>3, <1>5, <1>6, <1>10 DEF IInv

\* a step that changes the session of e and nothing else
LEMMA SessionStep ==
    ASSUME IInv, NEW e \in Ends, NEW u, SessionOk(u, e, call[e].gen),
           q' = [q EXCEPT ![e] = u], call' = call, net' = net
    PROVE  IInv'
<1> DEFINE c == call[e]
<1>1. Peer(e) \in Ends /\ Peer(e) # e /\ Peer(Peer(e)) = e
  BY PeerFacts
<1>2. DOMAIN q' = Ends /\ q'[Peer(e)] = q[Peer(e)] /\ q'[e] = u
  BY <1>1 DEF IInv
<1>3. c \in CallerType /\ call' = [call EXCEPT ![e] = c]
  BY DEF IInv
<1>4. c.gen >= c.gen /\ c.heard >= c.heard
  BY <1>3, CallerFields, SMT
<1>5. Apart(c, call[Peer(e)]) /\ Apart(call[Peer(e)], c) /\ Parts(c, SentBy(Peer(e)))
  BY <1>1 DEF IInv
<1> QED BY <1>2, <1>3, <1>4, <1>5, QuietStep, Zenon

\* a step of e that seals a packet
LEMMA SealStep ==
    ASSUME IInv, NEW e \in Ends, NEW u, NEW acks \in Nat, SessionOk(u, e, call[e].gen),
           q' = [q EXCEPT ![e] = u], Writes(q[e], e, call[e].gen), Sends(e, acks),
           acks <= call[e].gen + 1, acks <= call[e].heard
    PROVE  IInv'
<1> DEFINE d == Peer(e)
           c == call[e]
           n == [c EXCEPT !.next_pn = @ + 1]
           p == Packet(e, acks)
<1>1. d \in Ends /\ d # e /\ Peer(d) = e /\ \A o \in Ends : o = e \/ o = d
  BY PeerFacts
<1>2. call \in [Ends -> CallerType] /\ c \in CallerType /\ call[d] \in CallerType
  BY <1>1 DEF IInv
<1>3. /\ c.next_pn \in Nat /\ c.len \in PnLens /\ c.lowest \in Nat
      /\ c.due \in Nat /\ c.gen \in Nat /\ c.heard \in Nat /\ c.acked \in BOOLEAN
      /\ call[d].lowest \in Nat /\ call[d].due \in Nat /\ call[d].gen \in Nat
      /\ call[d].next_pn \in Nat /\ call[d].heard \in Nat
  BY <1>2, CallerFields
<1>4. c.next_pn < PnLimit /\ net' = net \cup {p} /\ call' = [call EXCEPT ![e] = n]
  BY <1>2 DEF Sends
<1>5. /\ n \in CallerType /\ n.next_pn = c.next_pn + 1 /\ n.lowest = c.lowest /\ n.due = c.due
      /\ n.gen = c.gen /\ n.heard = c.heard /\ n.acked = c.acked
  <2> DEFINE x == c.next_pn + 1
  <2>1. x \in Nat
    BY <1>3, SMT
  <2> HIDE DEF x
  <2>2. n = [c EXCEPT !.next_pn = x]
    BY DEF x
  <2>3. /\ n \in CallerType /\ n.next_pn = x /\ n.lowest = c.lowest /\ n.due = c.due
        /\ n.gen = c.gen /\ n.heard = c.heard /\ n.acked = c.acked
    BY <1>2, <2>1, <2>2, SMTT(30) DEF CallerType
  <2> QED BY <2>3 DEF x
<1>6. /\ p.from = e /\ p.pn = c.next_pn /\ p.win = PnWin(c.len) /\ p.gen = c.gen
      /\ p.phase = q[e].key_phase /\ p.keys = q[e].app_tx.secret /\ p.hp = q[e].app_hp_tx
      /\ p.acks = acks
  BY SMTT(30) DEF Packet
<1> HIDE DEF n, p, c
<1>7. PacketOk(p, n)
  <2>1. p.phase = p.gen % 2 /\ p.keys = Phase(p.from, p.gen) /\ p.hp = AppSecret(p.from)
    BY <1>6, SMTT(30) DEF Writes, c
  <2>2. p.pn < PnLimit /\ p.pn < n.next_pn /\ p.gen <= n.gen
    BY <1>3, <1>4, <1>5, <1>6, SMT
  <2>3. p.acks <= p.gen + 1 /\ p.acks <= n.heard
    BY <1>5, <1>6 DEF c
  <2>4. \E len \in PnLens : p.win = PnWin(len)
    BY <1>3, <1>6
  <2> QED BY <1>3, <1>6, <2>1, <2>2, <2>3, <2>4, SMTT(30) DEF PacketOk
<1>8. call' \in [Ends -> CallerType] /\ call'[e] = n /\ call'[d] = call[d]
  BY <1>1, <1>2, <1>4, <1>5
<1>9. \A o \in SentBy(e) : PacketOk(o, c)
  BY SentFacts DEF c
<1>10. \A o \in net' : PacketOk(o, call'[o.from])
  <2>1. SUFFICES ASSUME NEW o \in net PROVE PacketOk(o, call'[o.from])
    BY <1>4, <1>6, <1>7, <1>8
  <2>2. PacketOk(o, call[o.from]) /\ o.from \in Ends
    BY DEF IInv, PacketOk
  <2>3. CASE o.from = d
    BY <1>8, <2>2, <2>3
  <2>4. CASE o.from = e
    <3>1. PacketOk(o, c)
      BY <2>2, <2>4 DEF c
    <3>2. o.pn < n.next_pn
      BY <1>3, <1>5, <3>1, SMT DEF PacketOk
    <3>3. PacketOk(o, n)
      BY <1>5, <3>1, <3>2 DEF PacketOk
    <3> QED BY <1>8, <2>4, <3>3
  <2> QED BY <1>1, <2>2, <2>3, <2>4
<1>11. InOrder'
  <2>1. SUFFICES ASSUME NEW a \in net', NEW b \in net', a.from = b.from, a.gen < b.gen
                 PROVE  a.pn < b.pn
    BY DEF InOrder
  <2>2. CASE a \in net /\ b \in net
    BY <2>1, <2>2 DEF IInv, InOrder
  <2>3. CASE a \in net /\ b = p
    BY <1>6, <1>9, <2>1, <2>3 DEF SentBy, PacketOk
  <2>4. CASE a = p
    <3>1. b = p \/ b \in SentBy(e)
      BY <1>4, <1>6, <2>1, <2>4 DEF SentBy
    <3>2. b.gen <= c.gen /\ b.gen \in Nat
      BY <1>3, <1>6, <1>9, <3>1, SMT DEF PacketOk
    <3> QED BY <1>3, <1>6, <2>1, <2>4, <3>2, SMT
  <2> QED BY <1>4, <2>2, <2>3, <2>4
<1>12. SessionOk(q'[e], e, call'[e].gen) /\ SessionOk(q'[d], d, call'[d].gen) /\ DOMAIN q' = Ends
  BY <1>1, <1>5, <1>8 DEF IInv, c
<1>13. Apart(c, call[d]) /\ Apart(call[d], c)
  BY <1>1, SMTT(30) DEF IInv, c
<1>14. Apart(n, call[d])
  BY <1>3, <1>5, <1>13, SMTT(30) DEF Apart
<1>15. Apart(call[d], n)
  BY <1>3, <1>5, <1>13, SMT DEF Apart
<1>16. Parts(n, SentBy(d)')
  <2>1. SentBy(d)' = SentBy(d)
    BY <1>1, <1>4, <1>6 DEF SentBy
  <2> QED BY <1>1, <1>5, <2>1 DEF IInv, Parts, c
<1>17. Parts(call[d], SentBy(e)')
  <2>1. SentBy(e)' = SentBy(e) \cup {p}
    BY <1>4, <1>6 DEF SentBy
  <2>2. Parts(call[d], SentBy(e))
    BY <1>1 DEF IInv
  <2>3. /\ call[d].due # NoPn /\ p.gen <= call[d].gen => p.pn < call[d].due
        /\ call[d].lowest # NoPn /\ p.gen < call[d].gen => p.pn < call[d].lowest
        /\ call[d].lowest # NoPn /\ p.gen > call[d].gen => p.pn > call[d].lowest
    BY <1>3, <1>6, <1>13, SMT DEF Apart
  <2> QED BY <2>1, <2>2, <2>3 DEF Parts
<1>18. \A o \in Ends : /\ SessionOk(q'[o], o, call'[o].gen)
                       /\ Apart(call'[o], call'[Peer(o)])
                       /\ Parts(call'[o], SentBy(Peer(o))')
  BY <1>1, <1>8, <1>12, <1>14, <1>15, <1>16, <1>17
<1> QED BY <1>8, <1>10, <1>11, <1>12, <1>18 DEF IInv

\* a packet that opens names the set of the phase it was sealed in
LEMMA OpensInPhase ==
    ASSUME IInv, NEW e \in Ends, NEW p \in SentBy(Peer(e)), q[e].t.state = "CONNECTED",
           Opens(e, p)
    PROVE  \/ Selected(e, p) = "PREVIOUS" /\ p.gen + 1 = call[e].gen
           \/ Selected(e, p) = "CURRENT" /\ p.gen = call[e].gen
           \/ Selected(e, p) = "NEXT" /\ p.gen = call[e].gen + 1
<1> DEFINE d == Peer(e)
           g == call[e].gen
           s == q[e]
<1>1. d \in Ends
  BY PeerFacts
<1>2. KeysInPhase(s, e, g)
  BY DEF IInv, SessionOk
<1>3. g \in Nat
  BY CallerFields DEF IInv
<1>4. p.gen \in Nat /\ p.keys = Phase(d, p.gen)
  BY <1>1, SentFacts, Zenon DEF PacketOk, SentBy
<1>5. Selected(e, p) \in {"PREVIOUS", "CURRENT", "NEXT"}
  BY DEF Selected, quic_key_set_select
<1>6. p.keys = s.app_rx[Selected(e, p)].secret
  BY DEF Opens
<1>7. CASE Selected(e, p) = "CURRENT"
  <2>1. Phase(d, p.gen) = Phase(d, g)
    BY <1>2, <1>4, <1>6, <1>7 DEF KeysInPhase
  <2> QED BY <1>1, <1>3, <1>4, <1>7, <2>1, PhaseFacts
<1>8. CASE Selected(e, p) = "NEXT"
  <2>1. Phase(d, p.gen) = Phase(d, g + 1) /\ g + 1 \in Nat
    BY <1>2, <1>3, <1>4, <1>6, <1>8 DEF KeysInPhase
  <2> QED BY <1>1, <1>4, <1>8, <2>1, PhaseFacts
<1>9. CASE Selected(e, p) = "PREVIOUS"
  <2>1. Phase(d, p.gen) = s.app_rx["PREVIOUS"].secret
    BY <1>4, <1>6, <1>9
  <2>2. s.app_rx["PREVIOUS"] # NoKeys
    BY <1>1, <1>4, <2>1, PhaseFacts
  <2>3. g > 0 /\ Phase(d, p.gen) = Phase(d, g - 1)
    BY <1>2, <2>1, <2>2 DEF KeysInPhase
  <2>4. g - 1 \in Nat
    BY <1>3, <2>3, SMT
  <2>5. p.gen = g - 1
    BY <1>1, <1>4, <2>3, <2>4, PhaseFacts
  <2>6. p.gen + 1 = g
    BY <1>3, <2>5, SMT
  <2> QED BY <1>9, <2>6
<1> QED BY <1>5, <1>7, <1>8, <1>9

\* the invariant holds of two sessions as the handshake leaves them
LEMMA Initially == Init => IInv
<1>1. SUFFICES ASSUME Init PROVE IInv
  OBVIOUS
<1>2. PICK suite \in Suites : q = [e \in Ends |-> Established(e, suite)]
  BY <1>1 DEF Init
<1>3. PICK start \in Starts, lens \in [Ends -> PnLens] :
         call = [e \in Ends |-> Caller(start, lens[e])]
  BY <1>1 DEF Init
<1>4. start \in Nat /\ start < PnLimit /\ PnLimit \in Nat
  BY KeysAssumption, PacketAssumption, SMT
<1>5. net = {}
  BY <1>1 DEF Init
<1>6. \A e \in Ends :
        /\ call[e] \in CallerType /\ call[e].next_pn = start
        /\ call[e].lowest = (IF start = 0 THEN NoPn ELSE start - 1) /\ call[e].due = NoPn
        /\ call[e].gen = 0 /\ call[e].heard = (IF start = 0 THEN 0 ELSE 1) /\ ~call[e].acked
  <2>1. SUFFICES ASSUME NEW e \in Ends
                 PROVE  LET c == Caller(start, lens[e]) IN
                        /\ c \in CallerType /\ c.next_pn = start
                        /\ c.lowest = (IF start = 0 THEN NoPn ELSE start - 1) /\ c.due = NoPn
                        /\ c.gen = 0 /\ c.heard = (IF start = 0 THEN 0 ELSE 1) /\ ~c.acked
    BY <1>3
  <2> DEFINE lg == IF start = 0 THEN 0 ELSE start - 1
             lo == IF start = 0 THEN NoPn ELSE start - 1
             he == IF start = 0 THEN 0 ELSE 1
             c  == [next_pn |-> start, len |-> lens[e], largest |-> lg, lowest |-> lo,
                    due |-> NoPn, gen |-> 0, heard |-> he, acked |-> FALSE]
  <2>2. lg \in Nat /\ lo \in Nat /\ he \in Nat /\ NoPn \in Nat /\ lens[e] \in PnLens
    BY <1>4, SMT DEF NoPn
  <2>3. c = Caller(start, lens[e])
    BY DEF Caller
  <2> HIDE DEF lg, lo, he
  <2>4. /\ c \in CallerType /\ c.next_pn = start /\ c.lowest = lo /\ c.due = NoPn
        /\ c.gen = 0 /\ c.heard = he /\ ~c.acked
    BY <1>4, <2>2 DEF CallerType
  <2> QED BY <2>3, <2>4, Zenon DEF lo, he
<1>7. DOMAIN q = Ends /\ call \in [Ends -> CallerType]
  BY <1>2, <1>3, <1>6
<1>8. \A e \in Ends : SessionOk(q[e], e, call[e].gen)
  BY <1>2, <1>6, Starting
<1>9. \A e \in Ends : Apart(call[e], call[Peer(e)])
  <2>1. SUFFICES ASSUME NEW e \in Ends, NEW d \in Ends PROVE Apart(call[e], call[d])
    BY PeerFacts
  <2> QED BY <1>4, <1>6, SMT DEF Apart, NoPn
<1>10. \A e \in Ends : Parts(call[e], SentBy(Peer(e)))
  BY <1>5 DEF Parts, SentBy
<1> QED BY <1>5, <1>7, <1>8, <1>9, <1>10 DEF IInv, InOrder

\* every step keeps the invariant
LEMMA Inductive == IInv /\ [Next]_vars => IInv'
<1>1. SUFFICES ASSUME IInv, [Next]_vars PROVE IInv'
  OBVIOUS
<1>2. CASE UNCHANGED vars
  BY <1>1, <1>2 DEF vars, IInv, InOrder, SentBy
<1>3. ASSUME NEW e \in Ends, \/ quic_seal(e) \/ seal_close(e)
                             \/ \E p \in net : quic_open(e, p)
                             \/ open_forged(e) \/ key_update(e) \/ drop_previous_keys(e)
      PROVE  IInv'
  <2> DEFINE d == Peer(e)
             c == call[e]
             g == call[e].gen
  <2>1. /\ d \in Ends /\ d # e /\ Peer(d) = e /\ DOMAIN q = Ends
        /\ c \in CallerType /\ call[d] \in CallerType
        /\ SessionOk(q[e], e, g) /\ Apart(c, call[d]) /\ Apart(call[d], c)
        /\ Parts(c, SentBy(d))
    BY <1>1, PeerFacts DEF IInv
  <2>2. g \in Nat /\ c.heard \in Nat
    BY <2>1, CallerFields
  <2>3. CASE quic_seal(e)
    <3>1. /\ q' = [q EXCEPT ![e] = seal_at_level(q[e], 2)] /\ Sends(e, c.heard)
          /\ c.due = NoPn /\ <<2, "WRITE">> \in q[e].ready
      BY <2>1, <2>3 DEF quic_seal, CanSealNow, CanSeal, Ready
    <3>2. c.heard <= g + 1 /\ c.heard <= c.heard
      BY <2>1, <2>2, <3>1, SMT DEF Apart
    <3>3. SessionOk(seal_at_level(q[e], 2), e, g) /\ Writes(q[e], e, g)
      BY <2>1, <2>2, <3>1, SealKeeps DEF SessionOk
    <3> QED BY <1>1, <2>2, <3>1, <3>2, <3>3, SealStep, ZenonT(40)
  <2>4. CASE seal_close(e)
    <3>1. /\ q' = [q EXCEPT ![e] = quic_seal_close(q[e], 2)] /\ Sends(e, 0)
          /\ q[e].t.state = "FAILED" /\ <<2, "WRITE">> \in q[e].ready
      BY <2>1, <2>4 DEF seal_close, CanSealClose, CanSeal, Ready
    <3>2. 0 <= g + 1 /\ 0 <= c.heard /\ 0 \in Nat
      BY <2>2, SMT
    <3>3. SessionOk(quic_seal_close(q[e], 2), e, g) /\ Writes(q[e], e, g)
      BY <2>1, <2>2, <3>1, CloseKeeps, Zenon DEF SessionOk
    <3> QED BY <1>1, <3>1, <3>2, <3>3, SealStep, ZenonT(40)
  <2>5. ASSUME NEW p \in net, quic_open(e, p) PROVE IInv'
    <3>1. p \in SentBy(d) /\ q[e].t.state = "CONNECTED" /\ net' = net
      BY <2>5 DEF quic_open, CanOpen, SentBy
    <3>2. CASE Opens(e, p)
      <4> DEFINE n == Processed(c, p.pn, Selected(e, p), p.acks)
      <4>1. q' = q /\ call' = [call EXCEPT ![e] = n]
        BY <2>1, <2>5, <3>2 DEF quic_open, Opens
      <4>2. PacketOk(p, call[d]) /\ Sealed(SentBy(d))
        BY <1>1, <2>1, <3>1, SentFacts
      <4>3. /\ n \in CallerType /\ n.next_pn = c.next_pn /\ n.gen = g /\ n.heard >= c.heard
            /\ Apart(n, call[d]) /\ Apart(call[d], n) /\ Parts(n, SentBy(d))
        <5>1. \/ Selected(e, p) = "PREVIOUS" /\ p.gen + 1 = g
              \/ Selected(e, p) = "CURRENT" /\ p.gen = g
              \/ Selected(e, p) = "NEXT" /\ p.gen = g + 1
          BY <1>1, <3>1, <3>2, OpensInPhase
        <5>2. /\ p.pn < call[d].next_pn /\ p.gen <= call[d].gen
              /\ p.acks <= p.gen + 1 /\ p.acks <= call[d].heard
          BY <4>2 DEF PacketOk
        <5> HIDE DEF c, g
        <5> QED BY <2>1, <3>1, <4>2, <5>1, <5>2, ProcessedKeeps, ZenonT(40) DEF g, c
      <4> HIDE DEF n
      <4>4. n.gen >= g
        BY <2>2, <4>3, SMT
      <4> QED BY <1>1, <2>1, <3>1, <4>1, <4>3, <4>4, QuietStep, ZenonT(40)
    <3>3. CASE ~Opens(e, p)
      <4>1. q' = [q EXCEPT ![e] = open_failed(q[e])] /\ call' = call
        BY <2>1, <2>5, <3>3 DEF quic_open
      <4>2. SessionOk(open_failed(q[e]), e, g)
        BY <2>1, <2>2, OpenFailedKeeps
      <4> QED BY <1>1, <3>1, <4>1, <4>2, SessionStep, Zenon
    <3> QED BY <3>2, <3>3, SMTT(30)
  <2>6. CASE open_forged(e)
    <3>1. q' = [q EXCEPT ![e] = open_failed(q[e])] /\ call' = call /\ net' = net
      BY <2>1, <2>6 DEF open_forged
    <3>2. SessionOk(open_failed(q[e]), e, g)
      BY <2>1, <2>2, OpenFailedKeeps
    <3> QED BY <1>1, <3>1, <3>2, SessionStep, Zenon
  <2>7. CASE key_update(e)
    <3> DEFINE n == Updated(c)
    <3>1. /\ q[e].t.state = "CONNECTED" /\ (c.due # NoPn \/ c.acked)
          /\ q' = [q EXCEPT ![e] = quic_key_update(q[e])] /\ net' = net
      BY <2>1, <2>7 DEF key_update
    <3>2. call' = [call EXCEPT ![e] = n]
      BY <1>1, <2>1, <2>7, Z3 DEF key_update, Updated, IInv, CallerType
    <3>3. Sealed(SentBy(d)) /\ \A p \in SentBy(d) : p.gen <= call[d].gen
      BY <1>1, <2>1, SentFacts DEF PacketOk
    <3>4. /\ n \in CallerType /\ n.next_pn = c.next_pn /\ n.gen = g + 1 /\ n.heard = c.heard
          /\ Apart(n, call[d]) /\ Apart(call[d], n) /\ Parts(n, SentBy(d))
      <4>1. c.due # NoPn \/ c.acked
        BY <3>1, SMTT(30)
      <4> HIDE DEF c, g
      <4> QED BY <2>1, <3>3, <4>1, UpdatedKeeps DEF g, c
    <3> HIDE DEF n
    <3>5. SessionOk(quic_key_update(q[e]), e, g + 1)
      BY <2>1, <2>2, <3>1, UpdateAdvances
    <3>6. DOMAIN q' = Ends /\ q'[d] = q[d] /\ q'[e] = quic_key_update(q[e])
      BY <2>1, <3>1
    <3>7. n.gen >= g /\ n.heard >= c.heard
      BY <2>2, <3>4, SMT
    <3> QED BY <1>1, <3>1, <3>2, <3>4, <3>5, <3>6, <3>7, QuietStep, ZenonT(40)
  <2>8. CASE drop_previous_keys(e)
    <3>1. q' = [q EXCEPT ![e] = quic_drop_previous_keys(q[e])] /\ call' = call /\ net' = net
      BY <2>1, <2>8 DEF drop_previous_keys
    <3>2. SessionOk(quic_drop_previous_keys(q[e]), e, g)
      BY <2>1, <2>2, DropKeeps
    <3> QED BY <1>1, <3>1, <3>2, SessionStep, Zenon
  <2> QED BY <1>3, <2>3, <2>4, <2>5, <2>6, <2>7, <2>8
<1> QED BY <1>1, <1>2, <1>3 DEF Next

-----------------------------------------------------------------------------
(* What the packet calls promise *)

\* The invariant at every packet that may open: its number is recovered, and the
\* bit in its header and the lowest number of the phase name its own set.
LEMMA OpensUnderItsSet ==
    ASSUME IInv, NEW e \in Ends, NEW p \in SentBy(Peer(e)), q[e].t.state = "CONNECTED",
           InWindow(p.pn, call[e].largest, p.win)
    PROVE  LET g == call[e].gen IN
           /\ p.gen <= g + 1
           /\ p.gen = g + 1 => Opens(e, p) /\ Selected(e, p) = "NEXT"
           /\ p.gen = g     => Opens(e, p) /\ Selected(e, p) = "CURRENT"
           /\ (p.gen + 1 = g /\ q[e].app_rx["PREVIOUS"] # NoKeys) =>
                  Opens(e, p) /\ Selected(e, p) = "PREVIOUS"
<1> DEFINE d == Peer(e)
           c == call[e]
           g == call[e].gen
           s == q[e]
<1>1. /\ d \in Ends /\ Peer(d) = e /\ c \in CallerType /\ call[d] \in CallerType
      /\ KeysInPhase(s, e, g) /\ Apart(c, call[d]) /\ Apart(call[d], c) /\ Parts(c, SentBy(d))
  BY PeerFacts, SMTT(30) DEF IInv, SessionOk
<1>2. /\ c.largest \in Nat /\ c.lowest \in Nat /\ g \in Nat /\ call[d].gen \in Nat
      /\ NoPn \in Nat
  BY <1>1, CallerFields, PacketAssumption, SMTT(30) DEF NoPn
<1>3. PacketOk(p, call[d]) /\ p.from = d
  BY <1>1, SentFacts, SMTT(30) DEF SentBy
<1>4. Recovered(e, p) = p.pn
  <2>1. PICK len \in PnLens : p.win = PnWin(len)
    BY <1>3 DEF PacketOk
  <2>2. p.win \in Nat \ {0} /\ p.win % 2 = 0
    BY <2>1, KeysAssumption
  <2>3. p.pn \in Nat /\ p.pn < PnLimit
    BY <1>3, SMTT(30) DEF PacketOk
  <2> QED BY <1>2, <2>2, <2>3, DecodeRecovers DEF Recovered
<1>5. /\ p.pn \in Nat /\ p.pn < NoPn /\ p.gen \in Nat /\ p.gen <= call[d].gen
      /\ p.phase = p.gen % 2 /\ p.keys = Phase(d, p.gen) /\ p.hp = s.app_hp_rx
      /\ s.key_phase = g % 2
  BY <1>1, <1>3 DEF PacketOk, KeysInPhase, NoPn
<1>6. Selected(e, p) = IF p.phase = s.key_phase THEN "CURRENT"
                       ELSE IF p.pn < c.lowest THEN "PREVIOUS" ELSE "NEXT"
  BY <1>4 DEF Selected, quic_key_set_select
<1>7. Opens(e, p) <=> Phase(d, p.gen) = s.app_rx[Selected(e, p)].secret
  BY <1>4, <1>5, SMTT(30) DEF Opens
<1>8. p.gen <= g + 1
  BY <1>1, <1>2, <1>5, SMT DEF Apart
<1>9. ASSUME p.gen = g + 1 PROVE Opens(e, p) /\ Selected(e, p) = "NEXT"
  <2>1. p.phase # s.key_phase
    BY <1>2, <1>5, <1>9, SMT
  <2>2. call[d].gen = g + 1
    BY <1>1, <1>2, <1>5, <1>9, SMT DEF Apart
  <2>3. c.lowest # NoPn
    BY <1>1, <2>2 DEF Apart
  <2>4. p.gen > g
    BY <1>2, <1>9, SMT
  <2>5. p.pn > c.lowest
    BY <1>1, <2>3, <2>4 DEF Parts
  <2>6. ~(p.pn < c.lowest)
    BY <1>2, <1>5, <2>5, SMT
  <2>7. Selected(e, p) = "NEXT"
    BY <1>6, <2>1, <2>6, SMTT(30)
  <2> QED BY <1>1, <1>7, <1>9, <2>7 DEF KeysInPhase
<1>10. ASSUME p.gen = g PROVE Opens(e, p) /\ Selected(e, p) = "CURRENT"
  <2>1. Selected(e, p) = "CURRENT"
    BY <1>5, <1>6, <1>10
  <2> QED BY <1>1, <1>7, <1>10, <2>1 DEF KeysInPhase
<1>11. ASSUME p.gen + 1 = g, s.app_rx["PREVIOUS"] # NoKeys
       PROVE  Opens(e, p) /\ Selected(e, p) = "PREVIOUS"
  <2>1. p.phase # s.key_phase
    BY <1>2, <1>5, <1>11, SMT
  <2>2. p.gen < g /\ g - 1 = p.gen
    BY <1>2, <1>5, <1>11, SMT
  <2>3. p.pn < c.lowest
    BY <1>1, <1>5, <2>2 DEF Parts
  <2>4. Selected(e, p) = "PREVIOUS"
    BY <1>6, <2>1, <2>3
  <2>5. s.app_rx["PREVIOUS"].secret = Phase(d, g - 1)
    BY <1>1, <1>11 DEF KeysInPhase
  <2> QED BY <1>7, <2>2, <2>4, <2>5
<1> QED BY <1>8, <1>9, <1>10, <1>11, SMTT(30)

\* the inductive invariant holds of every behaviour
LEMMA Invariant == Spec => []IInv
  BY Initially, Inductive, PTL DEF Spec

\* Every packet within its window opens with its own number, and under the set it
\* was sealed with when the session holds that set: for every number of packets
\* and updates, every window, limit and suite, and every order of arrival.
THEOREM PacketsOpen == Spec => []AuthenticOpens
<1>1. IInv => AuthenticOpens
  BY OpensUnderItsSet DEF AuthenticOpens
<1> QED BY <1>1, Invariant, PTL

\* The two endpoints are at most one phase apart, and the key sets of a live one
\* are those of three phases in a row, as quic_session.h states.
THEOREM PhasesStayInStep == Spec => []PhasesInStep
<1>1. IInv => PhasesInStep
  <2>1. SUFFICES ASSUME IInv PROVE PhasesInStep
    OBVIOUS
  <2>2. /\ "client" \in Ends /\ "server" \in Ends
        /\ Peer("client") = "server" /\ Peer("server") = "client"
    BY SMT DEF Ends, Peer
  <2>3. /\ call["client"].gen <= call["server"].gen + 1
        /\ call["server"].gen <= call["client"].gen + 1
    BY <2>1, <2>2 DEF IInv, Apart
  <2>4. \A e \in Ends : q[e].t.state = "CONNECTED" => KeysInPhase(q[e], e, call[e].gen)
    BY <2>1 DEF IInv, SessionOk
  <2> QED BY <2>3, <2>4 DEF PhasesInStep
<1> QED BY <1>1, Invariant, PTL

-----------------------------------------------------------------------------
(* The two limits *)

\* the packets of `sent` that were sealed in phase n
Under(sent, n) == {p \in sent : p.gen = n}

\* The count a session keeps is the number of packets of the current phase, of an
\* AES-GCM suite, and no phase has as many as the limit.
Tally(s, g, sent) ==
    /\ s.open_failures \in Nat
    /\ s.open_failures > IntegrityLimit => s.t.state = "FAILED"
    /\ suite_runs_aes_gcm(s.t.suite) =>
          /\ \A n \in Nat : Cardinality(Under(sent, n)) < ConfidentialityLimit
          /\ <<2, "WRITE">> \in s.ready => s.app_tx.sealed = Cardinality(Under(sent, g))

Tallied ==
    IsFiniteSet(net) /\ \A e \in Ends : Tally(q[e], call[e].gen, SentBy(e))

\* a packet sealed counts one more, and nothing else
LEMMA SealCounts ==
    ASSUME NEW s, Shaped(s)
    PROVE  LET u == seal_at_level(s, 2) IN
           /\ u.t = s.t /\ u.ready = s.ready /\ u.open_failures = s.open_failures
           /\ suite_runs_aes_gcm(s.t.suite) => u.app_tx.sealed = s.app_tx.sealed + 1
<1> DEFINE u == seal_at_level(s, 2)
           one == IF suite_runs_aes_gcm(s.t.suite) THEN 1 ELSE 0
           n == s.app_tx.sealed + one
           v == [s EXCEPT !.initial_sealed = s.initial_sealed,
                          !.handshake_tx.sealed = s.handshake_tx.sealed]
<1>1. u.t = s.t /\ u.ready = s.ready /\ u.open_failures = s.open_failures
  BY Z3 DEF seal_at_level, Shaped
<1>2. suite_runs_aes_gcm(s.t.suite) => u.app_tx.sealed = s.app_tx.sealed + 1
  <2>1. SUFFICES ASSUME suite_runs_aes_gcm(s.t.suite) PROVE u.app_tx.sealed = s.app_tx.sealed + 1
    OBVIOUS
  <2>2. u = [v EXCEPT !.app_tx.sealed = @ + 1]
    BY <2>1, Z3 DEF seal_at_level
  <2>3. "app_tx" \in DOMAIN v /\ v.app_tx = s.app_tx /\ "sealed" \in DOMAIN v.app_tx
    BY Z3 DEF Shaped
  <2> HIDE DEF u, v
  <2> QED BY <2>2, <2>3, Z3
<1> QED BY <1>1, <1>2

\* a packet that did not open is counted, and past the limit the session is dead
LEMMA FailureCounts ==
    ASSUME NEW s, Shaped(s), s.open_failures \in Nat
    PROVE  LET u == open_failed(s) IN
           /\ u.t.suite = s.t.suite /\ u.open_failures = s.open_failures + 1
           /\ u.open_failures > IntegrityLimit => u.t.state = "FAILED"
           /\ <<2, "WRITE">> \in u.ready => <<2, "WRITE">> \in s.ready /\ u.app_tx = s.app_tx
<1> DEFINE n == s.open_failures + 1
           v == [s EXCEPT !.open_failures = n]
           w == [v EXCEPT !.hs.alert = "bad_record_mac"]
           f == quic_fail(w)
<1> HIDE DEF n
<1>1. /\ DOMAIN v = DOMAIN s /\ v.t = s.t /\ v.hs = s.hs /\ v.app_rx = s.app_rx /\ v.app_tx = s.app_tx
      /\ v.ready = s.ready /\ v.open_failures = n
  BY Z3 DEF Shaped
<1> HIDE DEF v
<1>2. Shaped(v)
  BY <1>1 DEF Shaped
<1>3. /\ DOMAIN w = DOMAIN v /\ w.t = v.t /\ DOMAIN w.hs = DOMAIN v.hs /\ w.app_rx = v.app_rx
      /\ w.app_tx = v.app_tx /\ w.ready = v.ready /\ w.open_failures = v.open_failures
  BY <1>2, Z3 DEF Shaped
<1> HIDE DEF w
<1>4. Shaped(w)
  BY <1>2, <1>3 DEF Shaped
<1>5. Lesser(w, f) /\ f.t.state = "FAILED"
  BY <1>4, Fails
<1> HIDE DEF f
<1>6. open_failed(s) = IF v.open_failures > IntegrityLimit THEN f ELSE v
  BY Zenon DEF open_failed, quic_integrity_limit_exceeded, n, v, w, f
<1>7. CASE v.open_failures > IntegrityLimit
  <2>1. open_failed(s) = f
    BY <1>6, <1>7
  <2> QED BY <1>1, <1>3, <1>5, <2>1, SMT DEF Lesser, n
<1>8. CASE ~(v.open_failures > IntegrityLimit)
  <2>1. open_failed(s) = v
    BY <1>6, <1>8
  <2> QED BY <1>1, <1>8, <2>1, SMT DEF n
<1> QED BY <1>7, <1>8

\* an update starts a count at nothing
LEMMA UpdateCounts ==
    ASSUME NEW s, Shaped(s)
    PROVE  LET u == quic_key_update(s) IN
           /\ u.t.suite = s.t.suite /\ u.t.state = s.t.state /\ u.ready = s.ready
           /\ u.open_failures = s.open_failures /\ u.app_tx.sealed = 0
<1> DEFINE v  == s.t.quic_negotiated_version
           tx == quic_keys_update(s.t.wr_secret, v)
           rx == [PREVIOUS |-> s.app_rx["CURRENT"], CURRENT |-> s.app_rx["NEXT"],
                  NEXT |-> quic_keys_update(s.t.rd_secret, v)]
           ws == Advanced(s.t.wr_secret)
           kp == 1 - s.key_phase
           rs == Advanced(s.t.rd_secret)
           m  == [s EXCEPT !.app_tx = tx, !.t.wr_secret = ws, !.key_phase = kp, !.app_rx = rx]
           u  == [m EXCEPT !.t.rd_secret = rs]
<1>1. quic_key_update(s) = u
  <2>1. [s EXCEPT !.app_tx = tx, !.t.wr_secret = ws].t.rd_secret = s.t.rd_secret
    BY Z3 DEF Shaped
  <2> QED BY <2>1, Z3 DEF quic_key_update, Shaped
<1>2. tx.sealed = 0
  BY Z3 DEF quic_keys_update, quic_keys_init
<1> HIDE DEF tx, rx, ws, kp, v
<1>3. /\ DOMAIN m = DOMAIN s /\ DOMAIN m.t = DOMAIN s.t /\ m.t.suite = s.t.suite
      /\ m.t.state = s.t.state /\ m.ready = s.ready /\ m.open_failures = s.open_failures
      /\ m.app_tx = tx
  BY SMTT(30) DEF Shaped
<1>4. {"t", "ready", "open_failures", "app_tx"} \subseteq DOMAIN m /\ {"suite", "state"} \subseteq DOMAIN m.t
  BY <1>3 DEF Shaped
<1> HIDE DEF m, rs
<1>5. /\ u.t.suite = m.t.suite /\ u.t.state = m.t.state /\ u.ready = m.ready
      /\ u.open_failures = m.open_failures /\ u.app_tx = m.app_tx
  BY <1>4, Z3
<1> HIDE DEF u
<1> QED BY <1>1, <1>2, <1>3, <1>5

\* a step of e that sends nothing leaves the counts right
LEMMA TallyQuiet ==
    ASSUME IInv, Tallied, NEW e \in Ends, NEW u, q'[e] = u, q'[Peer(e)] = q[Peer(e)],
           net' = net, call'[Peer(e)] = call[Peer(e)], Tally(u, call'[e].gen, SentBy(e))
    PROVE  Tallied'
<1>1. DOMAIN q = Ends /\ Peer(e) \in Ends /\ Peer(e) # e /\ \A o \in Ends : o = e \/ o = Peer(e)
  BY PeerFacts DEF IInv
<1>2. \A o : SentBy(o)' = SentBy(o)
  BY DEF SentBy
<1> QED BY <1>1, <1>2 DEF Tallied

\* a packet sealed makes one more of its phase
LEMMA TallySealed ==
    ASSUME IInv, Tallied, NEW e \in Ends, NEW u, NEW acks, q' = [q EXCEPT ![e] = u],
           Sends(e, acks), ~LimitReached(q[e], 2), <<2, "WRITE">> \in q[e].ready,
           u.t = q[e].t, u.open_failures = q[e].open_failures,
           suite_runs_aes_gcm(q[e].t.suite) /\ <<2, "WRITE">> \in u.ready =>
               u.app_tx.sealed = q[e].app_tx.sealed + 1
    PROVE  Tallied'
<1> DEFINE d == Peer(e)
           p == Packet(e, acks)
           g == call[e].gen
           sent == SentBy(e)
<1>1. DOMAIN q = Ends /\ d \in Ends /\ d # e /\ \A o \in Ends : o = e \/ o = d
  BY PeerFacts DEF IInv
<1>2. call[e] \in CallerType /\ g \in Nat /\ call[e].next_pn \in Nat
  BY CallerFields DEF IInv
<1>3. p.from = e /\ p.pn = call[e].next_pn /\ p.gen = g
  BY SMTT(30) DEF Packet
<1>4. net' = net \cup {p} /\ call'[d].gen = call[d].gen /\ call'[e].gen = g
  <2>1. net' = net \cup {p} /\ call' = [call EXCEPT ![e].next_pn = @ + 1]
    BY DEF Sends
  <2>2. call \in [Ends -> CallerType]
    BY DEF IInv
  <2> HIDE DEF p
  <2> QED BY <1>1, <2>1, <2>2, Z3 DEF CallerType
<1> HIDE DEF p
<1>5. p \notin net
  <2>1. SUFFICES ASSUME p \in sent PROVE FALSE
    BY <1>3 DEF SentBy
  <2>2. p.pn \in Nat /\ p.pn < call[e].next_pn
    BY <2>1, SentFacts DEF PacketOk
  <2> QED BY <1>2, <1>3, <2>2, SMT
<1>6. SentBy(e)' = sent \cup {p} /\ SentBy(d)' = SentBy(d)
  BY <1>1, <1>3, <1>4 DEF SentBy
<1>7. IsFiniteSet(net')
  BY <1>4, FS_AddElement DEF Tallied
<1>8. q'[e] = u /\ q'[d] = q[d]
  BY <1>1
<1>9. Tally(q[e], g, sent)
  BY DEF Tallied
<1>10. Tally(u, g, sent \cup {p})
  <2>1. u.open_failures \in Nat /\ (u.open_failures > IntegrityLimit => u.t.state = "FAILED")
    BY <1>9 DEF Tally
  <2>2. ASSUME suite_runs_aes_gcm(u.t.suite)
        PROVE  /\ \A n \in Nat : Cardinality(Under(sent \cup {p}, n)) < ConfidentialityLimit
               /\ <<2, "WRITE">> \in u.ready =>
                     u.app_tx.sealed = Cardinality(Under(sent \cup {p}, g))
    <3>1. /\ \A n \in Nat : Cardinality(Under(sent, n)) < ConfidentialityLimit
          /\ q[e].app_tx.sealed = Cardinality(Under(sent, g))
      BY <1>9, <2>2 DEF Tally
    <3>2. \A n : n # g => Under(sent \cup {p}, n) = Under(sent, n)
      BY <1>3 DEF Under
    <3>3. Under(sent \cup {p}, g) = Under(sent, g) \cup {p}
      BY <1>3 DEF Under
    <3>4. IsFiniteSet(Under(sent, g))
      BY FS_Subset DEF Under, SentBy, Tallied
    <3>5. p \notin Under(sent, g)
      BY <1>5 DEF Under, SentBy
    <3>6. /\ Cardinality(Under(sent \cup {p}, g)) = Cardinality(Under(sent, g)) + 1
          /\ Cardinality(Under(sent, g)) \in Nat
      BY <3>3, <3>4, <3>5, FS_AddElement, FS_CardinalityType, ZenonT(40)
    <3>7. ~(q[e].app_tx.sealed >= ConfidentialityLimit - 1)
      BY <2>2, SMT DEF LimitReached, SealedAt, quic_confidentiality_limit_reached
    <3>8. Cardinality(Under(sent \cup {p}, g)) < ConfidentialityLimit
      BY <3>1, <3>6, <3>7, PacketAssumption, SMT
    <3>9. <<2, "WRITE">> \in u.ready => u.app_tx.sealed = Cardinality(Under(sent \cup {p}, g))
      BY <2>2, <3>1, <3>6
    <3> QED BY <3>1, <3>2, <3>8, <3>9, ZenonT(40)
  <2> QED BY <2>1, <2>2 DEF Tally
<1>11. Tally(q[d], call[d].gen, SentBy(d))
  BY <1>1 DEF Tallied
<1> QED BY <1>1, <1>4, <1>6, <1>7, <1>8, <1>10, <1>11 DEF Tallied

\* the counts are right from the start
LEMMA TallyInitially == Init => Tallied
<1>1. SUFFICES ASSUME Init PROVE Tallied
  OBVIOUS
<1>2. net = {} /\ IsFiniteSet({}) /\ Cardinality({}) = 0
  BY <1>1, FS_EmptySet DEF Init
<1>3. PICK suite \in Suites : q = [e \in Ends |-> Established(e, suite)]
  BY <1>1 DEF Init
<1>4. ASSUME NEW e \in Ends
      PROVE  Established(e, suite).open_failures = 0 /\ Established(e, suite).app_tx.sealed = 0
  <2> DEFINE b == Blank([quic_original_version |-> 1])
             c == [b EXCEPT !.t.state = "CONNECTED", !.step = "COMPLETE", !.rx_level = 2,
                            !.t.quic_negotiated_version = 1, !.t.suite = suite,
                            !.t.wr_secret = AppSecret(e), !.t.rd_secret = AppSecret(Peer(e))]
             v == c.t.quic_negotiated_version
             k == quic_keys_init(c.t.wr_secret, v)
             r == quic_keys_init(c.t.rd_secret, v)
             n == quic_keys_update(c.t.rd_secret, v)
             a == Advanced(c.t.rd_secret)
             w == [c EXCEPT !.app_tx = k, !.app_hp_tx = c.t.wr_secret, !.app_rx["CURRENT"] = r,
                            !.app_hp_rx = c.t.rd_secret, !.app_rx["NEXT"] = n, !.t.rd_secret = a]
             x == w.ready \cup ({2} \X {"READ", "WRITE"})
  <2>1. Established(e, suite) = [w EXCEPT !.ready = x]
    BY Zenon DEF Established, install_application_keys, Announce
  <2>2. k.sealed = 0
    BY Z3 DEF quic_keys_init
  <2>3. {"open_failures", "app_tx"} \subseteq DOMAIN b /\ b.open_failures = 0
    BY Z3 DEF Blank
  <2> HIDE DEF b
  <2>4. DOMAIN c = DOMAIN b /\ c.open_failures = b.open_failures
    BY <2>3, Z3
  <2> HIDE DEF c, k, r, n, a
  <2>5. DOMAIN w = DOMAIN c /\ w.open_failures = c.open_failures /\ w.app_tx = k
    BY <2>3, <2>4, Z3
  <2> HIDE DEF w, x
  <2> QED BY <2>1, <2>2, <2>3, <2>4, <2>5, Z3
<1>5. ASSUME NEW e \in Ends PROVE Tally(q[e], call[e].gen, SentBy(e))
  <2>1. q[e].open_failures = 0 /\ q[e].app_tx.sealed = 0
    BY <1>3, <1>4
  <2>2. \A n : Under(SentBy(e), n) = {}
    BY <1>2 DEF Under, SentBy
  <2>3. ~(0 > IntegrityLimit) /\ 0 < ConfidentialityLimit /\ 0 \in Nat
    BY PacketAssumption, SMT
  <2> QED BY <1>2, <2>1, <2>2, <2>3, Zenon DEF Tally
<1> QED BY <1>2, <1>5 DEF Tallied

\* every step keeps them right
LEMMA TallyInductive == IInv /\ Tallied /\ [Next]_vars => Tallied'
<1>1. SUFFICES ASSUME IInv, Tallied, [Next]_vars PROVE Tallied'
  OBVIOUS
<1>2. CASE UNCHANGED vars
  BY <1>1, <1>2 DEF vars, Tallied, SentBy
<1>3. ASSUME NEW e \in Ends, \/ quic_seal(e) \/ seal_close(e)
                             \/ \E p \in net : quic_open(e, p)
                             \/ open_forged(e) \/ key_update(e) \/ drop_previous_keys(e)
      PROVE  Tallied'
  <2> DEFINE d == Peer(e)
             g == call[e].gen
  <2>1. /\ d \in Ends /\ d # e /\ DOMAIN q = Ends /\ call \in [Ends -> CallerType]
        /\ SessionOk(q[e], e, g) /\ Shaped(q[e]) /\ g \in Nat
        /\ Tally(q[e], g, SentBy(e))
    BY <1>1, PeerFacts, CallerFields DEF IInv, SessionOk, Tallied
  <2>2. ASSUME q' = [q EXCEPT ![e] = open_failed(q[e])], call' = call, net' = net
        PROVE  Tallied'
    <3> DEFINE u == open_failed(q[e])
    <3>1. /\ u.t.suite = q[e].t.suite /\ u.open_failures = q[e].open_failures + 1
          /\ u.open_failures > IntegrityLimit => u.t.state = "FAILED"
          /\ <<2, "WRITE">> \in u.ready => <<2, "WRITE">> \in q[e].ready /\ u.app_tx = q[e].app_tx
      BY <2>1, FailureCounts DEF Tally
    <3> HIDE DEF u
    <3>2. u.open_failures \in Nat
      BY <2>1, <3>1, SMT DEF Tally
    <3>3. Tally(u, g, SentBy(e))
      BY <2>1, <3>1, <3>2 DEF Tally
    <3> QED BY <1>1, <2>1, <2>2, <3>3, TallyQuiet DEF u
  <2>3. CASE quic_seal(e)
    <3>1. /\ q' = [q EXCEPT ![e] = seal_at_level(q[e], 2)] /\ Sends(e, call[e].heard)
          /\ <<2, "WRITE">> \in q[e].ready /\ ~LimitReached(q[e], 2)
      BY <2>1, <2>3 DEF quic_seal, CanSealNow, CanSeal, Ready
    <3> DEFINE u == seal_at_level(q[e], 2)
    <3>2. /\ u.t = q[e].t /\ u.open_failures = q[e].open_failures
          /\ suite_runs_aes_gcm(q[e].t.suite) => u.app_tx.sealed = q[e].app_tx.sealed + 1
      BY <2>1, SealCounts
    <3> HIDE DEF u
    <3> QED BY <1>1, <3>1, <3>2, TallySealed, Zenon DEF u
  <2>4. CASE seal_close(e)
    <3>1. /\ q' = [q EXCEPT ![e] = quic_seal_close(q[e], 2)] /\ Sends(e, 0)
          /\ <<2, "WRITE">> \in q[e].ready /\ ~LimitReached(q[e], 2) /\ q[e].t.state = "FAILED"
      BY <2>1, <2>4 DEF seal_close, CanSealClose, CanSeal, Ready
    <3> DEFINE v == seal_at_level(q[e], 2)
               u == quic_wipe_write_keys(v, 2)
    <3>2. v.t = q[e].t /\ v.open_failures = q[e].open_failures
      BY <2>1, SealCounts
    <3>3. Shaped(v)
      BY <2>1, SealKeeps DEF SessionOk
    <3>4. u.t = v.t /\ u.open_failures = v.open_failures /\ <<2, "WRITE">> \notin u.ready
      <4>1. 2 \in Levels
        BY SMT DEF Levels
      <4> QED BY <3>3, <4>1, WipeWrite DEF Lesser
    <3>5. quic_seal_close(q[e], 2) = u
      BY DEF quic_seal_close
    <3> HIDE DEF u, v
    <3> QED BY <1>1, <3>1, <3>2, <3>4, <3>5, TallySealed, ZenonT(40)
  <2>5. ASSUME NEW p \in net, quic_open(e, p) PROVE Tallied'
    <3>1. CASE Opens(e, p)
      <4>1. /\ q' = q /\ net' = net
            /\ call' = [call EXCEPT ![e] = Processed(@, Recovered(e, p), Selected(e, p), p.acks)]
        BY <2>5, <3>1 DEF quic_open
      <4>2. Processed(call[e], Recovered(e, p), Selected(e, p), p.acks).gen = g
        <5> DEFINE c == call[e]
                   P == Processed(c, Recovered(e, p), Selected(e, p), p.acks)
        <5>1. "gen" \in DOMAIN c
          BY <2>1, Z3 DEF CallerType
        <5> HIDE DEF c
        <5>2. P.gen = c.gen
          BY <5>1, Z3 DEF Processed
        <5> QED BY <5>2 DEF c
      <4>3. call'[d] = call[d] /\ call'[e].gen = g
        <5> DEFINE P == Processed(call[e], Recovered(e, p), Selected(e, p), p.acks)
        <5>1. call' = [call EXCEPT ![e] = P] /\ P.gen = g
          BY <2>1, <4>1, <4>2
        <5> HIDE DEF P
        <5>2. call'[e] = P /\ call'[d] = call[d]
          BY <2>1, <5>1
        <5> QED BY <5>1, <5>2
      <4> QED BY <1>1, <2>1, <4>1, <4>3, TallyQuiet
    <3>2. CASE ~Opens(e, p)
      BY <2>2, <2>5, <3>2 DEF quic_open
    <3> QED BY <3>1, <3>2
  <2>6. CASE open_forged(e)
    BY <2>2, <2>6 DEF open_forged
  <2>7. CASE key_update(e)
    <3> DEFINE u == quic_key_update(q[e])
    <3>1. /\ u.t.suite = q[e].t.suite /\ u.t.state = q[e].t.state /\ u.ready = q[e].ready
          /\ u.open_failures = q[e].open_failures /\ u.app_tx.sealed = 0
      BY <2>1, UpdateCounts
    <3>2. /\ q' = [q EXCEPT ![e] = u] /\ net' = net
          /\ call' = [call EXCEPT ![e].gen = @ + 1, ![e].lowest = call[e].due,
                                  ![e].due = NoPn, ![e].acked = FALSE]
      BY <2>7 DEF key_update
    <3> HIDE DEF u
    <3>3. call'[d] = call[d] /\ call'[e].gen = g + 1
      BY <2>1, <3>2, Z3 DEF CallerType
    <3>4. Under(SentBy(e), g + 1) = {}
      <4>1. SUFFICES ASSUME NEW p \in SentBy(e), p.gen = g + 1 PROVE FALSE
        BY DEF Under
      <4>2. p.gen <= g
        BY <1>1, SentFacts DEF PacketOk
      <4> QED BY <2>1, <4>1, <4>2, SMT
    <3>5. Tally(u, g + 1, SentBy(e))
      BY <2>1, <3>1, <3>4, FS_EmptySet, Zenon DEF Tally
    <3> QED BY <1>1, <2>1, <3>2, <3>3, <3>5, TallyQuiet
  <2>8. CASE drop_previous_keys(e)
    <3> DEFINE u == quic_drop_previous_keys(q[e])
    <3>1. /\ u.t = q[e].t /\ u.ready = q[e].ready /\ u.app_tx = q[e].app_tx
          /\ u.open_failures = q[e].open_failures
      BY <2>1, Z3 DEF quic_drop_previous_keys, Shaped
    <3>2. q' = [q EXCEPT ![e] = u] /\ net' = net /\ call' = call
      BY <2>8 DEF drop_previous_keys
    <3> HIDE DEF u
    <3>3. Tally(u, g, SentBy(e))
      BY <2>1, <3>1 DEF Tally
    <3> QED BY <1>1, <2>1, <3>2, <3>3, TallyQuiet
  <2> QED BY <1>3, <2>3, <2>4, <2>5, <2>6, <2>7, <2>8
<1> QED BY <1>1, <1>2, <1>3 DEF Next

\* No key of an AES-GCM suite ever seals as many packets as the confidentiality
\* limit, the CONNECTION_CLOSE of a failed session included, and a session that
\* refused more packets than the integrity limit is dead: for every limit and
\* every order in which packets arrive and keys are updated.
THEOREM LimitsAlwaysHold == Spec => []LimitsHold
<1>1. IInv /\ Tallied => LimitsHold
  <2>1. SUFFICES ASSUME IInv, Tallied, NEW e \in Ends
                 PROVE  /\ suite_runs_aes_gcm(q[e].t.suite) =>
                             \A p \in SentBy(e) :
                                Cardinality({o \in SentBy(e) : o.keys = p.keys}) < ConfidentialityLimit
                        /\ q[e].open_failures > IntegrityLimit => session_dead(q[e])
    BY DEF LimitsHold
  <2>2. Tally(q[e], call[e].gen, SentBy(e))
    BY <2>1 DEF Tallied
  <2>3. \A p \in SentBy(e) : p.gen \in Nat /\ p.keys = Phase(e, p.gen)
    BY <2>1, SentFacts, Zenon DEF PacketOk, SentBy
  <2>4. ASSUME NEW p \in SentBy(e)
        PROVE  {o \in SentBy(e) : o.keys = p.keys} = Under(SentBy(e), p.gen)
    <3>1. ASSUME NEW o \in SentBy(e) PROVE o.keys = p.keys <=> o.gen = p.gen
      <4>1. o.keys = Phase(e, o.gen) /\ p.keys = Phase(e, p.gen) /\ o.gen \in Nat /\ p.gen \in Nat
        BY <2>3
      <4>2. Phase(e, o.gen) = Phase(e, p.gen) => o.gen = p.gen
        BY <4>1, PhaseFacts
      <4> QED BY <4>1, <4>2
    <3> QED BY <3>1 DEF Under
  <2>5. suite_runs_aes_gcm(q[e].t.suite) =>
          \A p \in SentBy(e) :
             Cardinality({o \in SentBy(e) : o.keys = p.keys}) < ConfidentialityLimit
    BY <2>2, <2>3, <2>4, ZenonT(40) DEF Tally
  <2>6. q[e].open_failures > IntegrityLimit => session_dead(q[e])
    BY <2>2, SMT DEF Tally, session_dead
  <2> QED BY <2>5, <2>6
<1>2. Spec => []Tallied
  BY TallyInitially, TallyInductive, Invariant, PTL DEF Spec
<1> QED BY <1>1, <1>2, Invariant, PTL

=============================================================================
