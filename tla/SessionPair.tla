---------------------------- MODULE SessionPair ----------------------------
(***************************************************************************)
(* A client's and a server's connected sessions over a network that does   *)
(* what it likes with whole records: it delivers any record a side sealed, *)
(* at any time, any number of times and in any order, alters it, invents   *)
(* one, cuts one short or loses it.                                        *)
(*                                                                         *)
(* Each side is Session.  The record that arrives opens when the reader's  *)
(* key and sequence number are the ones it was sealed with; every other    *)
(* arrival is one rec_open or io_read_record refuses.                      *)
(***************************************************************************)
EXTENDS Naturals, Sequences

CONSTANTS AesGcm, RecordsMax, SeqMax, Nonblocking, LimitSent, PlaintextMax, SendEpochsMax,
          RunMax, QuietCap, FillCap, PeerRuns, PeerAlerts, PeerLen, MaxOpened,
          ClientMaxWrite,  \* bound: the bytes the client writes
          ServerMaxWrite   \* bound: the bytes the server writes

VARIABLES cs, ccall, cret, c2s, cwritten, copened, crx, casked,  \* the client
          ss, scall, sret, s2c, swritten, sopened, srx, sasked   \* the server

cvars == <<cs, ccall, cret, c2s, cwritten, copened, crx, casked>>
svars == <<ss, scall, sret, s2c, swritten, sopened, srx, sasked>>
vars == <<cvars, svars>>

C == INSTANCE Session WITH
        Server <- FALSE, MaxWrite <- ClientMaxWrite,
        s <- cs, call <- ccall, ret <- cret, out <- c2s, written <- cwritten,
        opened <- copened, rx <- crx, asked <- casked
S == INSTANCE Session WITH
        Server <- TRUE, MaxWrite <- ServerMaxWrite,
        s <- ss, call <- scall, ret <- sret, out <- s2c, written <- swritten,
        opened <- sopened, rx <- srx, asked <- sasked

\* Each side may be met with what the other one sends.
ASSUME PairAssumption ==
    /\ AesGcm \in BOOLEAN /\ RecordsMax \in Nat /\ SeqMax \in Nat
    /\ 2 <= RecordsMax /\ RecordsMax <= SeqMax
    /\ Nonblocking \in BOOLEAN /\ LimitSent \in BOOLEAN /\ FillCap \in Nat \ {0}
    /\ PlaintextMax \in Nat \ {0} /\ PeerLen \in Nat /\ PlaintextMax <= PeerLen
    /\ SendEpochsMax \in Nat /\ RunMax \in Nat /\ QuietCap \in Nat /\ RunMax < QuietCap
    /\ {<<"ku0">>, <<"ticket">>} \subseteq PeerRuns /\ PeerRuns \subseteq Seq(C!Msg)
    /\ PeerAlerts = C!Alerts
    /\ MaxOpened \in Nat /\ ClientMaxWrite \in Nat /\ ServerMaxWrite \in Nat

Init == C!Init /\ S!Init

\* The network hands the client a record the server sealed.
ClientArrival(r) ==
    IF C!rec_open_ok(cs.rd, r)
    THEN C!dispatch_one_record(r.content) \/ C!open_fragment(r.content)
    ELSE C!Unopened

ServerArrival(r) ==
    IF S!rec_open_ok(ss.rd, r)
    THEN S!dispatch_one_record(r.content) \/ S!open_fragment(r.content)
    ELSE S!Unopened

\* The bytes the network hands over are no record the peer sealed.
ClientNoise == C!Unopened \/ C!Unprotected \/ C!ReadFails
ServerNoise == S!Unopened \/ S!Unprotected \/ S!ReadFails

Client ==
    /\ \/ C!Calls
       \/ \E sent \in BOOLEAN : C!key_update_before_record(sent)
       \/ \E sent \in BOOLEAN : C!tls_write_record(sent)
       \/ C!ReturnData
       \/ C!QuietCapReached
       \/ C!Again
       \/ \E i \in 1..Len(s2c) : ClientArrival(s2c[i])
       \/ ClientNoise
    /\ UNCHANGED svars

Server ==
    /\ \/ S!Calls
       \/ \E sent \in BOOLEAN : S!key_update_before_record(sent)
       \/ \E sent \in BOOLEAN : S!tls_write_record(sent)
       \/ S!ReturnData
       \/ S!QuietCapReached
       \/ S!Again
       \/ \E i \in 1..Len(c2s) : ServerArrival(c2s[i])
       \/ ServerNoise
    /\ UNCHANGED cvars

Next == Client \/ Server

Spec == Init /\ [][Next]_vars

\* The types of both sessions.
TypeOK == C!TypeOK /\ S!TypeOK

Closed(o) == o # <<>> /\ o[Len(o)].content = C!Alert("close_notify")

\* rec_open and dispatch_one_record: the records a side opened are the first
\* ones its peer sealed, each once and in order, and it stands at the key and
\* sequence number of the next one.
InStep(rd, n, o) ==
    /\ n <= Len(o)
    /\ rd.live => <<rd.gen, rd.seq>> = IF n = 0 THEN <<0, 0>> ELSE C!After(o[n])
ReadersInStep == InStep(cs.rd, copened, s2c) /\ InStep(ss.rd, sopened, c2s)

\* ch_read on one side and ch_write on the other, in each direction, are the
\* abstract stream: nothing is lost, repeated, reordered or invented before the
\* end, and ch_read returns 0 for a close_notify only after every byte.
ToClient == INSTANCE SecureStream WITH
    sent <- swritten, got <- crx, fin <- Closed(s2c), eof <- cs.read_closed
ToServer == INSTANCE SecureStream WITH
    sent <- cwritten, got <- srx, fin <- Closed(c2s), eof <- ss.read_closed
StreamToClient == ToClient!Spec
StreamToServer == ToServer!Spec

=============================================================================
