------------------------------ MODULE TcpPair ------------------------------
(***************************************************************************)
(* A non-blocking client and a non-blocking server shaking hands over one  *)
(* TCP connection: TcpClient and TcpServer as they are, with the records   *)
(* of each in place of the other's free choice.  Each end's caller moves   *)
(* bytes both ways until its session is CONNECTED or dead, which is the    *)
(* loop tcp_nonblocking.h asks of it.                                      *)
(*                                                                         *)
(* The stream keeps records whole and in order.  The network may replace a *)
(* record on its way; Altered says by what.  The server's sink may refuse  *)
(* a record, which then never reaches the stream.                          *)
(***************************************************************************)
EXTENDS SrvFlight

CONSTANTS
    EpochBound, Pieces,
    ClientConfigs, ServerConfigs, Rooms,
    MaxAltered,     \* bound: the records the network replaces
    Altered(_)      \* what it may put in a record's place

VARIABLES
    c, cdriving, store, made, sent,  \* the client, as in TcpClient
    s, sdriving,                     \* the server, as in TcpServer
    crx, srx,                        \* how many records each end has read
    altered,                         \* how many of those the network had replaced
    hushed                           \* TRUE once it put in one that no end answers

cvars == <<c, cdriving, store, made, sent>>
svars == <<s, sdriving>>
vars  == <<cvars, svars, crx, srx, altered, hushed>>

Unused2(view, key) == {}
Unused3(view, key, cookie) == {}

C == INSTANCE TcpClient WITH
        Configs <- ClientConfigs, RecordCells <- 1, PeerAlerts <- {},
        PeerMessages <- Unused2, PeerFollows <- Unused2,
        r <- c, driving <- cdriving, cut <- << >>
S == INSTANCE TcpServer WITH
        Configs <- ServerConfigs, RecordCells <- 1, PeerAlerts <- {},
        PeerMessages <- Unused3, r <- s, driving <- sdriving, cut <- << >>

Init == C!Init /\ S!Init /\ crx = 0 /\ srx = 0 /\ altered = 0 /\ hushed = FALSE

-----------------------------------------------------------------------------
(* The stream *)

\* the records each end has handed to its socket in full
ToServer == [i \in 1..(Len(sent) \div Pieces) |-> made[i]]
ToClient ==
    LET taken == SelectSeq(s.made, LAMBDA m : m.taken) IN [i \in 1..Len(taken) |-> taken[i].rec]

\* the record as it was sent, or one the network put in its place
Arrives(rec, as) ==
    \/ as = rec /\ UNCHANGED <<altered, hushed>>
    \/ /\ altered < MaxAltered /\ as \in Altered(rec) \ {rec}
       /\ altered' = altered + 1
       /\ hushed' = (hushed \/ as.outer \in {"ccs", "alert"})

\* the caller hands on the next record, until the session is CONNECTED: what
\* comes then is ch_read's
ClientReads ==
    /\ crx < Len(ToClient) /\ c.t.state = "START"
    /\ \E as \in {ToClient[crx + 1]} \cup Altered(ToClient[crx + 1]) :
          Arrives(ToClient[crx + 1], as) /\ C!tcp_in(as)
    /\ crx' = crx + 1
    /\ UNCHANGED <<svars, srx>>

ServerReads ==
    /\ srx < Len(ToServer) /\ s.t.state = "START"
    /\ \E as \in {ToServer[srx + 1]} \cup Altered(ToServer[srx + 1]) :
          Arrives(ToServer[srx + 1], as) /\ S!srv_tcp_in(as)
    /\ srx' = srx + 1
    /\ UNCHANGED <<cvars, crx>>

-----------------------------------------------------------------------------
(* The two ends *)

Client ==
    \/ ClientReads
    \/ /\ \/ C!drive_done \/ C!drive_oversize
          \/ C!step_retry \/ C!step_server_hello \/ C!step_encrypted_extensions
          \/ C!step_certificate \/ C!step_certificate_verify
          \/ C!step_finished(FALSE) \/ C!step_complete
          \/ \E take \in 1..Pieces : C!tcp_out(take)
       /\ UNCHANGED <<svars, crx, srx, altered, hushed>>

Server ==
    \/ ServerReads
    \/ /\ \/ S!drive_done \/ S!drive_oversize
          \/ \E room \in Rooms : \/ S!step_client_hello(room, TRUE)
                                 \/ S!step_retry_hello(room, TRUE)
                                 \/ S!step_client_finished(room)
          \/ S!step_complete
       /\ UNCHANGED <<cvars, crx, srx, altered, hushed>>

Next == Client \/ Server

\* There is a step for the end's caller or for the call it is in to take: a
\* record to read or to collect, or a drive loop that has not come to its end.
ClientReady ==
    cdriving \/ c.tx # 0 \/ (crx < Len(ToClient) /\ c.t.state = "START")
ServerReady ==
    sdriving \/ (srx < Len(ToServer) /\ s.t.state = "START")

\* Both callers go on calling, as the loops of the two headers do.  This is weak
\* fairness of Client and of Server, each with its enabling condition spelled out.
Fairness ==
    /\ []<>~ClientReady \/ []<><<TRUE>>_<<cvars, crx>>
    /\ []<>~ServerReady \/ []<><<TRUE>>_<<svars, srx>>

Spec == Init /\ [][Next]_vars
FairSpec == Spec /\ Fairness

-----------------------------------------------------------------------------
(* What the two ends promise each other *)

ClientDone == c.step = "COMPLETE" /\ ~session_dead(c)
ServerDone == s.step = "COMPLETE" /\ ~session_dead(s)

\* Whatever the network replaced, an end that completes agrees with the other on
\* every message up to the server's Finished, on the suite, the group, the
\* protocol and whether the ticket was taken, and each reads under the secret the
\* other writes under.  A server completes only after its client did.
Agreement ==
    /\ (ClientDone /\ ~session_dead(s)) =>
          /\ Front(c.t.transcript) = SubSeq(s.t.transcript, 1, Len(c.t.transcript) - 1)
          /\ c.t.rd_secret.over = s.t.wr_secret.over /\ c.t.rd_secret = s.t.wr_secret
          /\ c.t.wr_secret = s.t.rd_secret
          /\ c.t.suite = s.t.suite /\ c.t.group = s.t.group
          /\ c.t.psk_selected = s.t.psk_selected /\ c.t.alpn_selected = s.t.alpn_selected
    /\ ServerDone => c.step = "COMPLETE" /\ c.t.transcript = s.t.transcript

\* No earlier entry of order is one the client was configured to offer.
Best(chosen, order, offered) ==
    \E i \in 1..Len(order) : /\ order[i] = chosen /\ chosen \in offered
                             /\ \A j \in 1..(i - 1) : order[j] \notin offered

\* The network cannot talk two ends down: a client that completes runs the suite,
\* the group and the protocol the server ranks first among what the client was
\* configured with, whatever reached the server as its hello; and it runs without
\* a protocol only when the two have none in common.
NoDowngrade ==
    ClientDone =>
        /\ Best(c.t.suite, s.t.cfg.suites, c.t.cfg.suites)
        /\ Best(c.t.group, GroupOrder, C!HelloGroups(c.t.cfg))
        /\ \/ Best(c.t.alpn_selected, s.t.cfg.alpn, c.t.cfg.alpn)
           \/ /\ c.t.alpn_selected = "none"
              /\ \A i \in 1..Len(s.t.cfg.alpn) : s.t.cfg.alpn[i] \notin c.t.cfg.alpn

SinkRefused == \E i \in 1..Len(s.made) : ~s.made[i].taken

\* Every handshake whose server's sink takes what it is given ends: both sessions
\* become CONNECTED when nothing was replaced, and otherwise each is CONNECTED or
\* FAILED, so that neither end waits for a message the other will never send.
\* (Two ends are left out, of which only the socket tells the other, since
\* neither driver has a timer: one whose alert its own sink refused, and one that
\* was handed an alert, which is never answered, or nothing, which a
\* ChangeCipherSpec in a record's place amounts to.)
HandshakeEnds ==
    <>(\/ SinkRefused \/ hushed
       \/ /\ c.t.state # "START" /\ s.t.state # "START"
          /\ altered = 0 => c.t.state = "CONNECTED" /\ s.t.state = "CONNECTED")

=============================================================================
