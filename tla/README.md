# chapulin in TLA+

chapulin is a TLS 1.3 library in C (RFC 9846) with a client and a server role
and three transports: blocking TCP, non-blocking TCP and non-blocking QUIC. This
directory holds TLA+ models of it, the TLC configurations that check them on
small instances, and proofs that TLAPS checks. `PROJECT.json` maps every
definition to the lines it models and lists the components, the runs, the
hazards and the theorems.

## The system

| Part | State | What changes it | Model |
|---|---|---|---|
| Record layer (`record.c`) | key, IV, sequence number per direction | derive, rekey, seal, open | `Record` |
| Connected TCP session (`tls.c`, `tls_write.c`, `session.c`, `handshake_post.c`, `io.c`) | state, both directions, owed KeyUpdate, run and epoch counters, unread plaintext, fill of a split message, alerts | `ch_read`, `ch_write`, `ch_fail`, `ch_close`, each record that arrives | `Session`, `SessionPair`, `SecureStream` |
| Client handshake messages (`handshake_flight.c`, `handshake_auth.c`, `handshake_groups.c`) | transcript, secrets, negotiated values, the leaf | one message at a time | `Handshake`, `Flight` |
| CA epoch (`handshake_auth.c`) | the epoch, in the session and in the caller's store | load at the start, commit after the server's Finished | `Flight`, `EpochStore` |
| Non-blocking TCP client (`tcp_nonblocking*.c`) | step, buffer, staged output and its offset | `ch_tcp_in`, `ch_tcp_out`, `ch_tcp_close` | `TcpFrame`, `TcpClient` |
| Server handshake (`srv_flight.c`, `srv_out.c`, `srv_cookie.c`, `srv_parser*.c`, `srv_kex.c`, `srv_auth.c`, `srv_tcp_nonblocking.c`) | step, cookie, selection, output | ClientHello, second ClientHello, client Finished | `SrvSelect`, `SrvFlight`, `TcpServer` |
| Resumption tickets (`srv_resume.c`, `srv_ticket.c`) | the sealed ticket and its authentication time | issue, offer, select | `SrvSelect`, `TicketLife` |
| QUIC driver (`quic.c`, `quic_step.c`, `quic_fail.c`, `srv_quic.c`) | step, levels, key sets, version, staged message | CRYPTO in and out, seal, open, key update, discard, version switch, close | `QuicSession`, `QuicEndpoint` |
| QUIC packet protection (`quic_packet.c`, `quic_keys.c`) | key phases, usage counts | seal, open, update | `QuicPacket`, `QuicKeys` |
| Web PKI, DNSSEC, PEM, base64 | none: pure functions | | left out |
| Ciphers, hashes, public-key arithmetic, DRBG | none, or a running digest | | left out |

A handshake driver reads bytes into one buffer, runs each whole message through
the handlers its role shares with the other transports, installs the two
application directions and hands the session to `ch_read` and `ch_write` or, over
QUIC, to the packet functions. Every failure goes through one funnel of its
driver (`tlsi_fail`, `tcp_nonblocking_fail`, `quic_fail`) that names an alert,
wipes the keys and leaves the session in `CH_ST_FAILED`.

What is hard to test here: limits no test reaches (2^24 records under an AES-GCM
key, 2^48 - 1 KeyUpdates, the last 64-bit sequence number); a send that fails
between sealing and rekeying; KeyUpdates of both sides that cross; messages split
over records or deliveries, and bytes left over when a key changes; output that
waits while input arrives; a retry whose state lives only in a cookie; sessions
that share an epoch store; chains of tickets over clocks that disagree; packets
of three key phases in flight at once; calls on a session that has already ended.

## The modules

Cryptography is ideal everywhere. A transcript hash is the sequence of messages
it covers, a secret is its label with what it was derived from, and a record,
packet, MAC or signature verifies exactly when it was made with the right key
over the right thing.

### The connected session

**Record** is a direction: the key, named by the KeyUpdates since the first
one (`gen`), and the next sequence number. A record is named by the pair it was
sealed with, and opens exactly under that pair.

**Session** is one connected endpoint, in either role and on either TCP
transport, against every peer that holds the keys. `s` is `ch_tls_priv`. `call`
is the public call in progress: a call takes one step per record, since the
peer and the network move in between. The peer may send any content the code
tells apart, a record that does not open, one that is not protected, and a read
may fail in every way `io_read_record` can. `cfg.send` may refuse any record.
`out`, `written`, `opened`, `rx` and `asked` are history that the properties
refer to. Plaintext bytes are named by their position in their sender's stream.
A refused send still leaves its record in `out`: the nonce is spent, and part of
the record may have reached the wire.

Three abstractions to know of. A record's position in `cfg.buf` is not modelled;
`FillCap` counts the fragments that fill the buffer. A handshake record is a
sequence of whole messages and a flag that says whether the start of another
follows. Tickets are taken or refused, and what the client does with one is
`TicketLife`'s subject.

**SecureStream** is the promise of one direction: an ordered stream of bytes,
each read once, with an end that is reported only after the last of them.

**SessionPair** is a client and a server, two instances of `Session`, over a
network that delivers any record sealed so far, any number of times and in any
order, or bytes nobody sealed, or nothing.

### The handshake

**Handshake** has what both roles and every transport share: secrets, the
session record (`h.t` is `ch_tls`, `h.hs` is `handshake_state`), the transcript,
and the form of a handler. A handler takes the session and a message and returns
`[ok, h]`; a refusal leaves its alert in `h.hs.alert`.

**Flight** is the client's handlers: the hello and its retry, ServerHello,
EncryptedExtensions, Certificate, CertificateVerify and Finished with the epoch
commit, and `LegalFlight`, the order of messages RFC 9846 allows, which the
client's properties refer to.

**SrvSelect** is what a server decides without output: the parser's verdict, the
selection of suite, group, scheme and protocol, the digest a cookie freezes, the
ticket it may resume. **SrvFlight** is its handlers with the output under them:
each record is pushed to a sink that may refuse it, and `h.made` remembers every
one.

**TcpFrame** is reading one record, the buffer that joins records into messages,
and the failure funnel and wipe that the two non-blocking TCP drivers share. A
message is cut into cells, so that a record may end inside one and may hold
several. **TcpClient** and **TcpServer** are the two step machines. One record is
one step; each message it completes is another step with `driving` TRUE, during
which no other call starts. That is the drive loop of the code, whose iterations
keep nothing but the session.

**TcpPair** instantiates the two with each other's records in place of a free
peer. The network may replace records by those `Altered` names.

**EpochStore** is a device of a CA build with its sessions, the stored epoch and
its tickets. The device may restart at every step, and the store may fail.
**TicketLife** is a chain of resumptions over servers that share a ticket key;
every session may read any instant from its caller's clock.

### QUIC

**QuicPacket** has the pure parts: truncation and recovery of a packet number,
the choice between the previous, the current and the next receive keys, the key
update and the two usage limits. **QuicSession** has the session (`q` is
`ch_quic_priv`), installation, update, discard and wipe of its keys, the failure
funnel, and sealing and opening at a level.

**QuicEndpoint** is one endpoint in either role, with every call of its
application between any two deliveries of CRYPTO bytes. The cells in its buffer
remember the level they were delivered at, which the code does not keep.
A delivery longer than the buffer is fed in parts, as `drive` does; `rest` is the
part not fed yet. The caller delivers each level's bytes once and in order, as
`quic_cfg.h` asks, and discards any level at any time. Which cipher suite a set
of keys was derived for is not part of the model, so a key update over a level
the caller discarded is the one of a build with one suite.

**QuicKeys** is two connected endpoints that update their keys over a network
that loses, repeats, reorders and forges packets. The library holds no packet
number and no acknowledgement, so `call` is what each caller keeps, by the rules
of `quic.h`: the largest number processed, the lowest of the current phase, an
update owed to the peer's, and whether the current keys were acknowledged.
Before the first packet of a phase is processed there is no lowest number.
`quic.h` does not say what to pass then; the model passes a number above every
other, with which a packet of the earlier phase is still taken for one.

The `MC` modules give the constants their values and the peers their messages.
The `Proofs` modules hold the theorems: `SessionProofs` is about one connected
session, its records first and its stream after. `SessionPairProofs` is about what
holds between sessions: the epochs of `EpochStore`, the tickets of `TicketLife`, and
the two streams of a pair, which it draws from `SessionProofs`.
`TcpClientProofs` and `TcpServerProofs` say what each handler of their side
does to a session and then what the driver makes of it. `QuicProofs` is about
`QuicKeys`. `QuicEndpoint` has three:
`QuicEndpointProofs` states its two invariants and shows that every call of the
application keeps them, `QuicClientProofs` shows it of a client's handshake and says
what a server's flight does to the keys, and `QuicServerProofs` shows it of a
server's handshake and draws the theorems from all three.
Definitions marked `Mutant` are faulty
variants of the one below them, used to show that a property notices the fault.

## The runs

| Run | What it asks |
|---|---|
| `session_aes` | A client on the non-blocking transport with AES-GCM: its keys, nonces and limits, the order of what it reads and of what it answers, and the cap on records that bring nothing. |
| `session_quiet_cap` | The documented meaning of `CH_QUIET_CAP`; it is violated, see below. |
| `pair_aes` | Both directions of a pair implement `SecureStream`, and each reader stands where its writer's records lead it. |
| `client` | The non-blocking client of each trust build, with and without a ticket: a legal and authenticated flight before it completes, whole records out, secrets gone in time, and an epoch that moves only on proof. |
| `server_full` | The non-blocking server: a legal selection (through a stateless retry too), resumption only on a proved ticket, no record after a refused one, keys that change only between records. |
| `pair_altered` | Client and server: agreement, no downgrade, and every handshake ends. |
| `epoch_serial` | Sessions one after another on one epoch store, with failed stores and restarts. |
| `epoch_inv21` | The documented rule on the stored epoch with two overlapping sessions; it is violated, see below. |
| `ticket_life` | Chains of resumptions against the lifetime of the full handshake they began with, and the client's rule against the server's. |
| `quic_keys` | Key updates of two endpoints: every packet opens under its own set, phases stay in step, limits hold. |
| `quic_endpoint` | One QUIC endpoint in either role: no reading of 1-RTT packets before proof, bits that stand for keys, failures that wipe, no byte read at another level than it came at. |
| `quic_discard` | What `quic_session.h` says of `levels_ready`, with a server whose caller discards a level early; it is violated, see below. |

### Bounds

**Session.** The caps of the code (`RecordsMax`, `SeqMax`, `SendEpochsMax`,
`RunMax`, `QuietCap`, `FillCap`) are constants with values of 1 to 3, small
enough that each is reached; `SeqMax` is 20, out of reach, in the AES-GCM runs.
`MaxWrite` and `MaxOpened` bound the bytes written and the records opened. Five
of each in `session_aes` let a key retire twice and the epoch cap be met, and let
a run of KeyUpdates fill, be ended by data and start again; five records are also
two more than `QuietCap`, so a call meets the cap in either of its loops, and
between them. A peer's record holds up to `PeerLen` = 2 bytes and a read asks for
any number from 0 to 3, so reads end inside a record, at its end, and would go
beyond it; `PlaintextMax` = 1 makes writes of several records. `PeerRuns` holds
every single message and three pairs around a KeyUpdate; since no message but the
last of a record changes the session, longer runs add no new case. In the pair
each end writes two bytes, one to a record, which with `RecordsMax` = 2 forces
KeyUpdates between data records in both directions, so that they cross. The runs
take the AES-GCM builds; the theorems below are about every suite, role and
transport.

`QuietCapHolds` counts, beside the model (`idle` of `MCSession`), the records in a
row that add nothing. `drain_run` counts only those. A peer whose records each end
one message and begin the next adds bytes with every record, so it stays in that
loop without meeting a cap; the model has these records, and no property bounds
their number.

**TCP handshake.** A buffer of three cells against messages of one to four gives
a message that fits, one split over records, one the buffer cannot hold and one
over the protocol's limit. `Pieces` = 2 hands a staged record over in two calls,
so that input can arrive between them. A server's sink takes nothing, a part of a
flight or all of it in a call, so any record may be the refused one, the first
and the ticket included. The peer's messages are the good one at each point and
every single fault a handler tells apart; two faults in one message are refused
by whichever comes first, which the single ones show. In the pair the network
replaces at most two records, enough to alter both hellos.

**Epochs and tickets.** Two sessions, a bound of 2 and a maximum of 3 let a bump
be refused for being too far and let a session be overtaken. A lifetime of 3 with
instants from 0 to 5 lets a chain of resumptions reach and pass its end, and lets a
clock be set back.

**QUIC.** A packet number space of 16 with windows of 2 and 4, from 0 and from 13:
both ends of the space are in reach of three packets. Three packets and two
updates on each side give three phases in flight. `ConfidentialityLimit` = 3 and
`IntegrityLimit` = 1 are reached in `quic_keys`. In `quic_endpoint` the buffer
holds two cells and a delivery up to three, so a delivery can outgrow the buffer
and two messages can come at once; the sink takes nothing, part of a flight or all
of it.

Deadlock is not checked where the system may stop for good: after a close, or once
the bounds are spent. The two epoch runs and `ticket_life` check it.

### Fairness

Only `pair_altered` assumes any: each end's caller goes on moving bytes while
there is something to move, which is the loop `tcp_nonblocking.h` asks for.
`HandshakeEnds` leaves out the two cases of which only the socket tells the peer,
since neither driver has a timer: an alert the end's own sink refused, and a
record replaced by one nobody answers.

### What disagrees with the documentation

`session_quiet_cap`: `tls.h` says that one call fails "once it has read
CH_QUIET_CAP records that give no data". The loop of `tls_read` looks for
plaintext only at the head of an iteration, so when record number `CH_QUIET_CAP`
of one call carries data after one fewer that did not, the call fails and the
data is dropped.

`epoch_inv21`: `docs/invariants.md` says that the epoch "never decreases within or
across sessions". `hsa_epoch_commit` compares with the epoch its own session
loaded, so of two overlapping sessions the later commit can store the smaller
epoch. With sessions one after another the rule holds, and is proved.

`quic_discard`: `quic_session.h` calls `levels_ready` "the only answer to
"installed and not discarded"", and `quic.h` says that after `ch_quic_discard`
"every packet call at that level then returns CH_EINVAL". `step_client_finished`
announces the application read direction without looking whether that level was
discarded since the flight, so a server whose caller discards it before the client's
Finished arrives gets the read bit over wiped keys. `BitsNameHeldKeys` is what holds
instead, and is proved: that bit, on a server without the write bit of the level, is
the only one that may stand for nothing.

A remark on a comment, met while modelling and without a run of its own:
`quic_fail.c:85-88` says of the write keys without a bit that they "are zero here
already on every path this tree has". After `ch_quic_discard` of the application
level, `ch_quic_key_update` on a connected session fills them again. The wipe the
comment explains is what keeps `BitsNameHeldKeys` true.

## What is proved

The theorems hold for every value of the constants that satisfies the named
assumptions, so for the real caps, windows and limits, and without the bounds on
peers and messages that TLC needs.

**Session** (from `RecordAssumption` and `SessionAssumption`):

- `TypeCorrect`: the types, with the caps on the run and epoch counters and on
  the fill of a split message.
- `KeysDieAlways`, `DeadStaysDeadAlways`: a session that ended has no key, no
  plaintext and no call, and never seals again.
- `NonceFreshAlways`: no nonce repeats under a key.
- `LastSequenceNumberAlways`, `EpochsCappedAlways`: the limits of a key.
- `AnswerBeforeDataAlways`: a requested KeyUpdate precedes the next data.
- `AlertEndsSessionAlways`: an alert is the last record and the one reported.
- `PeerFollowsAlways`: a reader in order stands at each next record.
- `InOrderAlways`: the bytes `ch_read` returned are the first ones the peer sent,
  each once and in order.
- `RunsCostDataAlways`: the read key moved at most `RunMax` times for each byte
  received, and `RunMax` times more.
- `KeyUpdateHasCauseAlways`: a KeyUpdate answers a request, or its key is spent.

`TypeOK` is inductive. `KeysDie` is inductive given `TypeOK`. From these two,
`StepShape` shows that every step has one of three shapes: it seals nothing, it
seals one record and goes on, or it ends the session after at most a record and
an alert. Each of the other invariants is proved over the three shapes, with the
strengthening that ties the records already sealed to the live write key:

- `NonceInv`: the records are in increasing order of `<<gen, seq>>`, and all lie
  before the write key's next pair. `NonceFresh` alone does not say where the
  next record goes.
- `KeyLimitInv`: each record is within its key's limit, and the write key's `gen`
  is `send_epochs`, the counter the code compares with its cap.
- `AnswerInv`: each request read is answered, or `key_update_owed` is set.
- `FollowInv`: the write key stands where the last record leaves a reader.
- `CauseInv`: while an answer is owed, a request that none answered waits for it.

For the read side `ReadShape` shows that every step leaves it alone, ends it,
returns plaintext or takes one record. `StreamInv` adds to `InOrder` that the
plaintext that waits is what follows the bytes returned, and that none waits after
the peer's end; `RunInv` adds the current run to the count.

**The pair** (from `PairAssumption`, which lets each side be met with whatever the
other one sends): `ReadersInStepAlways`, and the refinements `StreamToClientAlways`
and `StreamToServerAlways`, for records of any length, any number of them, and a
network that reorders, repeats, alters and drops them. A session that writes keeps
`WriterInv`: its data records cut its stream in order (`Stream`), on top of
`NonceInv`, `FollowInv` and `AlertEndsSession`. A reader keeps `Abreast`: it stands
at the record after the ones it opened, and the next data record from there
carries the byte it waits for. Since no two records share a key and a number, the
only record that opens is that one. `SideStep` shows that a side that moves keeps
both against a peer that wrote any such records, `SideWaits` that the other one
stays abreast while its peer writes, and the pair's theorems put the two together.
The bridge between the sessions of the pair and the ones the lemmas are about
(`ClientSame`, `ServerSame`) is a comparison of definitions.

**The client** (from `FrameAssumption`, `EpochAssumption` and `ClientAssumption`;
nothing is assumed of the messages a peer sends, nor of the order of its records):

- `CompleteIsAuthenticatedAlways`: a client that completed has heard a legal and
  authenticated flight, and its application secrets cover it.
- `ConnectedIsReadyAlways`: a connected one has handed over all of its Finished and
  holds both application keys at sequence number 0.
- `WholeRecordsOutAlways`: the bytes that left are whole records in order.
- `SecretsDieAlways`: no secret outlives the step that needs it, or a failure.
- `EpochNeedsProofAlways`: the stored epoch moves forward only, by at most the
  bound, and only with a certificate that signed the handshake.

`CompleteIsAuthenticated` speaks of the last step alone and is far from inductive.
`Flow` says for each step of the table what has been heard by then: the flight's
legality cut off at that message, which secret the handshake key is, and what leaf
was shown. `Holds` says which secrets each step holds, which is also what
`ConnectedIsReady` needs. `Output` counts the pieces that left against the record
that is staged; `Turns` says when the driver is in the middle of a record, so that
nothing is staged twice. `Loaded` ties the epoch of the session to the stored one.
A session is a record whose fields hold whatever the peer and the caller put there:
`IsSession` gives its shape, and each handler has a lemma that
names the fields it may change and what an accepted message must have said.

**The server** (from `LifetimeAssumption`, `TxAssumption` and
`ServerAssumption`; a sink may refuse any record, and the client may send any
record in any order, with any message that `Sayable` lets it say):

- `SelectionLegalAlways`: what runs is what the configuration prefers among the
  offers of the hello that was answered, after a stateless retry too.
- `ResumptionProvedAlways`: a session was resumed on a fresh ticket of this server
  whose holder proved its key over the whole exchange, or sent its certificate and
  a signature over all before it.
- `ConnectedIsProvedAlways`: a connected session heard the client's Finished over
  the whole flight, holds both application keys, and sent at most a ticket.
- `RefusalKillsAlways`: a refused record is the last one, but for the alert.
- `KeyChangeEndsRecordAlways`: the read key changes only between records.

The first three speak of a session that has answered; `IInv` says what leads
there. Before the answer (`AwaitsHello`) nothing is sealed and, once a retry went
out, the transcript is the first hello's hash and the retry, the retry was owed,
and `h.hs.cookie` is the cookie it carried (`RetryOwed`). After it
(`AwaitsFinished`) the transcript is a legal flight, the handshake secret of the
client covers it up to the ServerHello, and the write direction is at its
application secret, with nothing sent. `Proved` adds the client's Finished. The
cells that wait in the buffer, and the rest of a message the client broke off,
are kept sayable (`CellsOk`), since a hello is judged by the cookie of the time
at which it is read. `Flies` follows a flight through its seven handlers, each of
which the sink may stop.

`Sayable` holds the one assumption about clients: a cookie whose digest fits the
hello it comes in is the one this session minted. The cookie also seals a hash of
the first hello, but `srv_check_retry_hello` compares the frozen digest alone,
and the digest covers the client's random. So a cookie of another connection
passes only if two connections drew the same random, which the ideal randomness
of the model rules out.

**Epochs** (from `StoreAssumption`): `GoodLeaf`, for overlapping sessions too;
`SerialRises` and `SerialBounded`, which need `Overlap` FALSE. The strengthening
says that a ticket promises no more than its chain's first leaf and that a judged
leaf is within the bound; with one session at a time also that the others are
idle, and that what a session loaded is still what is stored.

**Tickets** (from `LifetimeAssumption` and `TicketAssumption`): `ChainsEnd` and
`RulesAgree`. The strengthening is that every ticket carries the instant of the
full handshake its chain began with, and `PromisesAgree`, that what is left of its
lifetime when issued ends at the instant the servers stop taking it.

**QUIC keys** (from `KeysAssumption` and `PacketAssumption`): `DecodeRecovers` is
about the operator alone: a number within its window is recovered, at both ends of
the number space. `PacketsOpen` and `PhasesStayInStep` follow from `IInv`. Its parts
are needed for these reasons:

- packet numbers grow with the phase (`InOrder`), and the lowest number a caller
  keeps parts the phases (`Parts`), or the bit alone could not tell a late packet
  from an early one;
- an acknowledgement proves that its sender reached the phase it acknowledges
  (`PacketOk`, `Apart`), or an endpoint could start a second update before its
  peer had made the first;
- a session holds the keys of its caller's phase while it is live, and a failed
  one still seals its close under them where the bit is set (`SessionOk`).

`LimitsAlwaysHold` is about numbers of packets, which no part of `IInv` counts.
`Tallied` says beside it that the counter kept with the write key is the number of
packets sealed in its phase, and that no earlier phase sealed as many as the limit.
The code resets the counter with each key, so without the first half nothing ties
it to the packets, and without the second nothing is known of the keys it forgot.

**The QUIC endpoint** (from `FrameAssumption`, `EndpointAssumption`,
`EpochAssumption` and `TxAssumption`; the peer may send any message that has a
size, and the application may make any call between two deliveries):

- `HeldBitsNameKeys`: a set bit of `levels_ready` stands for keys of the right
  side, over this handshake, in the version settled on, whatever the caller discards
  and when, but for the bit of `quic_discard` above.
- `FailuresAreClean`: a failure names its alert, leaves no secret behind, and lets
  out at most one CONNECTION_CLOSE at each level.
- `LevelsStayUnmixed`: what waits of a delivery came at the level the session reads.
- `ConnectedStaysProved`: a connected endpoint proved its peer and handed over all
  it owed, and reads no 1-RTT packet before that.

The first three follow from `IInv`. A session that goes on (`Alive`) holds behind
each bit the keys it names, and its step bounds the bits: a server that waits for
the client's Finished holds both application keys, the read bit apart, so the step
that sets the bit has keys to find, unless its caller discarded them, which the
missing write bit tells (`Emptied`). One that ended (`Dead`) keeps only the write
keys whose bit is set, which the close still needs, and each close takes one bit
(`Closed`). `Waits` says that a part of a delivery is outside the buffer only while
the buffer is full: otherwise a change of level could leave bytes of the old one
behind. Each handler has a lemma that it only adds to the transcript and leaves
keys and bits alone, so that the lemmas on steps need to look at keys only.

`ConnectedIsProved` speaks of the last step, and of messages that `IInv` does not
tell apart. `Story` says what each step stands for. Of a client: the transcript is
the legal flight up to that step, the handshake secrets cover the hellos, and each
hello and the Finished are either staged or among what was handed over. Of a server:
nothing left at the application level yet, and the secret that the Finished must be
under covers the hellos. While a message is staged the buffer is empty, which is
why `crypto_out` cannot hand over one message when the transcript's last is another.
The client's epoch must lie in a range above the stored one, which is why
`EndpointAssumption` says that the stored epoch is a number; it also says that the
servers of this module speak QUIC, and that a certificate chain has a length, which
is the size of the Certificate message that the sink cuts up.

**Model-checked only.** `Agreement` and `NoDowngrade` of `TcpPair` relate the two
transcripts. Their proof would need both drivers' invariants at once, over a
composition whose network may put in a record's place whatever an operator of the
instance (`Altered`) says, so a theorem would be about that instance.
`HandshakeEnds` stays with TLC because the prover does not handle liveness under
fairness, and `QuietCapHolds` because it counts along one call, in a variable that
only the small instance has.

## What is not modelled

- **Ciphers, hashes, key derivation, public-key arithmetic.** They work on 32 and
  64 bit words and on fields of hundreds of bits, which TLC cannot enumerate; the
  repository has bounded proofs of its own under `proof/`. This is most of the
  code: of some 66,000 lines of C under `src/`, and more in tests, fuzzing,
  proofs and bindings, about 12,000 lines, comments included, are the protocol
  that keeps state. The models cover the state-keeping part of those. The map
  therefore names a small share of the repository, and no honest model would
  raise it much.
- **Parsers and encodings** (`x509*.c`, `webpki*.c`, `dnssec.c`, `pem*.c`,
  `base64.c`, the byte layout of messages). They keep no state between calls. A
  message or certificate enters the models as what a handler tells apart, faults
  included.
- **The blocking drivers** (`handshake.c`, `srv_handshake.c`). The handlers they
  call are the modelled ones. Their own loops read a record, run a handler and
  stop at the first error, with nothing between two calls of the application that
  another actor could see.
- **Retry tags, address tokens and Initial keys of QUIC.** Each is one computation
  over bytes and a secret; with an ideal cipher its correctness is an assumption.
- **DRBG, constant-time behaviour, clearing of memory.** What they promise is
  about computation or compiled code. A wipe appears as a value with no key.
- **Queries, configuration checks, logging, build selection.** They change no
  state. A refused configuration is one of the inputs (`valid`).
- **The web PKI binding of a ticket** (`webpki_ticket.c`), a comparison of digests.

## Running

    tlc -workers 2 -config MCSession_aes.cfg MCSession
    tlc -workers 2 -config MCQuicEndpoint.cfg MCQuicEndpoint
    tlapm SessionPairProofs.tla
    tlapm TcpClientProofs.tla

`ticket_life` runs `TicketLife` itself with `MCTicketLife.cfg`. The largest runs
take about two minutes. Of the proofs, `QuicServerProofs` and `QuicClientProofs`
take twenty to twenty-five minutes each, `QuicEndpointProofs` and
`TcpServerProofs` about fifteen, `SessionProofs` twelve, `SessionPairProofs` ten,
most of it spent on the two copies of the session's definitions, and
`TcpClientProofs` and `QuicProofs` eight.
