------------------------------ MODULE QuicKeys ------------------------------
(***************************************************************************)
(* Two connected QUIC endpoints exchanging 1-RTT packets while both update *)
(* their keys (ch_quic_seal, ch_quic_open, ch_quic_key_update,             *)
(* ch_quic_drop_previous_keys and ch_quic_seal_close).                     *)
(*                                                                         *)
(* The network keeps every packet ever sent: a packet may arrive at any    *)
(* time, any number of times, in any order, or never, and packets that     *)
(* nobody sealed arrive too.                                               *)
(*                                                                         *)
(* The library holds no packet number and no acknowledgement.  Those are   *)
(* the callers', and they keep to what quic.h asks of them: a number is    *)
(* used once, the largest and the lowest processed number are handed to    *)
(* every open, a packet that opened under the next keys is answered with   *)
(* an update before anything is sealed, and an update is begun only after  *)
(* a packet under the current keys was acknowledged.                       *)
(***************************************************************************)
EXTENDS QuicSession

CONSTANTS
    Suites,      \* the suites a connection may run
    PnLens,      \* the lengths a sender may truncate a packet number to
    Starts,      \* the packet numbers the exchange may start from
    MaxPackets,  \* bound: the packets an endpoint seals
    MaxUpdates   \* bound: the updates an endpoint makes

ASSUME KeysAssumption ==
    /\ Starts \subseteq 0..(PnLimit - 1) /\ PnLens \subseteq Nat \ {0}
    /\ \A len \in PnLens : PnWin(len) \in Nat \ {0} /\ PnWin(len) % 2 = 0

Ends == {"client", "server"}
Peer(e) == IF e = "client" THEN "server" ELSE "client"

VARIABLES
    q,      \* the two sessions
    call,   \* what each caller keeps
    net     \* every packet sealed so far

vars == <<q, call, net>>

NoPn == PnLimit   \* no packet number: above every one

\* The application secret of an endpoint after n updates.  The handshake that made
\* the first one is not this module's subject.
Phase(e, n) == [label |-> IF e = "client" THEN "c ap" ELSE "s ap", early |-> "zero",
                group |-> "none", over |-> << >>, ku |-> n]
AppSecret(e) == Phase(e, 0)

\* a session as the handshake leaves it
Established(e, suite) ==
    install_application_keys(
        [Blank([quic_original_version |-> 1]) EXCEPT
            !.t.state = "CONNECTED", !.step = "COMPLETE", !.rx_level = 2,
            !.t.quic_negotiated_version = 1, !.t.suite = suite,
            !.t.wr_secret = AppSecret(e), !.t.rd_secret = AppSecret(Peer(e))],
        {"READ", "WRITE"})

\* next_pn is the number the next packet gets and len the bytes the header spends
\* on it.  largest and lowest are what an
\* open is given: the largest number processed, and the lowest in the current
\* phase.  due is the lowest number processed under the next keys.  heard is the
\* last of the peer's phases a packet was processed from, which is what a packet
\* acknowledges, and acked says that the peer acknowledged the current one.
Caller(start, len) ==
    [next_pn |-> start, len |-> len, largest |-> IF start = 0 THEN 0 ELSE start - 1,
     lowest |-> IF start = 0 THEN NoPn ELSE start - 1, due |-> NoPn,
     gen |-> 0, heard |-> IF start = 0 THEN 0 ELSE 1, acked |-> FALSE]

Init ==
    /\ \E suite \in Suites : q = [e \in Ends |-> Established(e, suite)]
    /\ \E start \in Starts, lens \in [Ends -> PnLens] :
          call = [e \in Ends |-> Caller(start, lens[e])]
    /\ net = {}

-----------------------------------------------------------------------------
(* Sealing *)

SentBy(e) == {p \in net : p.from = e}

Packet(e, acks) ==
    [from |-> e, pn |-> call[e].next_pn, win |-> PnWin(call[e].len), phase |-> q[e].key_phase,
     keys |-> q[e].app_tx.secret, hp |-> q[e].app_hp_tx, gen |-> call[e].gen,
     acks |-> acks]

Sends(e, acks) ==
    /\ call[e].next_pn < PnLimit /\ Cardinality(SentBy(e)) < MaxPackets
    /\ net' = net \cup {Packet(e, acks)}
    /\ call' = [call EXCEPT ![e].next_pn = @ + 1]

\* nothing is sealed between a packet under the next keys and the update it asks for
quic_seal(e) ==
    /\ call[e].due = NoPn /\ CanSealNow(q[e], 2, 1)
    /\ q' = [q EXCEPT ![e] = seal_at_level(@, 2)]
    /\ Sends(e, call[e].heard)

\* one CONNECTION_CLOSE, which acknowledges nothing
seal_close(e) ==
    /\ CanSealClose(q[e], 2, 1)
    /\ q' = [q EXCEPT ![e] = quic_seal_close(@, 2)]
    /\ Sends(e, 0)

-----------------------------------------------------------------------------
(* Opening *)

\* the number the header yields, and the key set it then selects
Recovered(e, p) == quic_pn_decode(call[e].largest, Truncated(p.pn, p.win), p.win)
Selected(e, p) ==
    quic_key_set_select(q[e].key_phase, p.phase, Recovered(e, p), call[e].lowest)

\* quic_packet_open_application finds the tag to match
Opens(e, p) ==
    /\ p.hp = q[e].app_hp_rx
    /\ p.keys = q[e].app_rx[Selected(e, p)].secret
    /\ p.pn = Recovered(e, p)

Smaller(a, b) == IF a <= b THEN a ELSE b
Larger(a, b)  == IF a >= b THEN a ELSE b

\* the caller takes note of a packet that opened; phase is its sender's, counted
\* from 1 so that 0 is none
Processed(c, pn, set, acks) ==
    LET phase == CASE set = "PREVIOUS" -> c.gen
                   [] set = "CURRENT"  -> c.gen + 1
                   [] set = "NEXT"     -> c.gen + 2
    IN  [c EXCEPT !.largest = Larger(@, pn),
                  !.lowest = IF set = "CURRENT" THEN Smaller(@, pn) ELSE @,
                  !.due = IF set = "NEXT" THEN Smaller(@, pn) ELSE @,
                  !.heard = Larger(@, phase),
                  !.acked = @ \/ acks = c.gen + 1]

quic_open(e, p) ==
    /\ p.from = Peer(e) /\ CanOpen(q[e], 2, 1)
    /\ IF Opens(e, p)
       THEN /\ call' = [call EXCEPT ![e] = Processed(@, Recovered(e, p), Selected(e, p), p.acks)]
            /\ UNCHANGED q
       ELSE q' = [q EXCEPT ![e] = open_failed(@)] /\ UNCHANGED call
    /\ UNCHANGED net

\* bytes nobody sealed
open_forged(e) ==
    /\ CanOpen(q[e], 2, 1)
    /\ q' = [q EXCEPT ![e] = open_failed(@)]
    /\ UNCHANGED <<call, net>>

-----------------------------------------------------------------------------
(* Key updates *)

\* in answer to the peer's, or on the caller's own account
key_update(e) ==
    /\ q[e].t.state = "CONNECTED" /\ call[e].gen < MaxUpdates
    /\ call[e].due # NoPn \/ call[e].acked
    /\ q' = [q EXCEPT ![e] = quic_key_update(@)]
    /\ call' = [call EXCEPT ![e].gen = @ + 1, ![e].lowest = call[e].due,
                            ![e].due = NoPn, ![e].acked = FALSE]
    /\ UNCHANGED net

\* the caller's timer
drop_previous_keys(e) ==
    /\ q[e].app_rx["PREVIOUS"] # NoKeys
    /\ q' = [q EXCEPT ![e] = quic_drop_previous_keys(@)]
    /\ UNCHANGED <<call, net>>

Next ==
    \E e \in Ends :
        \/ quic_seal(e) \/ seal_close(e)
        \/ \E p \in net : quic_open(e, p)
        \/ open_forged(e) \/ key_update(e) \/ drop_previous_keys(e)

Spec == Init /\ [][Next]_vars

-----------------------------------------------------------------------------
(* What the packet calls promise *)

\* Whatever was lost, repeated or overtaken, a packet that reaches a live session
\* opens with its own number and names the set it was sealed under, as long as
\* its number is within the window of the bytes the sender spent on it and its
\* keys are still held: a peer's update is never mistaken for a late packet of
\* the phase before, nor a late packet for an update (RFC 9001 6.5, which
\* quic_key_set_select decides by the lowest number of the current phase).
AuthenticOpens ==
    \A e \in Ends : \A p \in SentBy(Peer(e)) :
        LET c == call[e] IN
        (q[e].t.state = "CONNECTED" /\ InWindow(p.pn, c.largest, p.win)) =>
            /\ p.gen <= c.gen + 1
            /\ p.gen = c.gen + 1 => Opens(e, p) /\ Selected(e, p) = "NEXT"
            /\ p.gen = c.gen     => Opens(e, p) /\ Selected(e, p) = "CURRENT"
            /\ (p.gen + 1 = c.gen /\ q[e].app_rx["PREVIOUS"] # NoKeys) =>
                   Opens(e, p) /\ Selected(e, p) = "PREVIOUS"

\* the keys of a session of e after g updates
KeysInPhase(s, e, g) ==
    /\ s.key_phase = g % 2
    /\ s.app_tx.secret = Phase(e, g) /\ s.t.wr_secret = Phase(e, g)
    /\ s.app_rx["CURRENT"].secret = Phase(Peer(e), g)
    /\ s.app_rx["NEXT"].secret = Phase(Peer(e), g + 1)
    /\ s.t.rd_secret = Phase(Peer(e), g + 1)
    /\ s.app_rx["PREVIOUS"] = NoKeys
         \/ (g > 0 /\ s.app_rx["PREVIOUS"].secret = Phase(Peer(e), g - 1))
    /\ s.app_hp_tx = AppSecret(e) /\ s.app_hp_rx = AppSecret(Peer(e))

\* The key sets of a live session are those of three phases in a row, with the
\* sending set and the phase bit of the middle one, t.rd_secret names the next
\* receive set and t.wr_secret the sending one (the invariant quic_session.h
\* states), the header protection keys are still the first ones, and the two
\* endpoints are never more than one phase apart.
PhasesInStep ==
    /\ call["client"].gen <= call["server"].gen + 1
    /\ call["server"].gen <= call["client"].gen + 1
    /\ \A e \in Ends : q[e].t.state = "CONNECTED" => KeysInPhase(q[e], e, call[e].gen)

\* No key of an AES-GCM suite seals as many packets as the confidentiality limit,
\* the CONNECTION_CLOSE of a failed session included, and a session that refused
\* more packets than the integrity limit is dead.
LimitsHold ==
    \A e \in Ends :
        /\ suite_runs_aes_gcm(q[e].t.suite) =>
              \A p \in SentBy(e) :
                 Cardinality({o \in SentBy(e) : o.keys = p.keys}) < ConfidentialityLimit
        /\ q[e].open_failures > IntegrityLimit => session_dead(q[e])

=============================================================================
