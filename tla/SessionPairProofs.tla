------------------------- MODULE SessionPairProofs -------------------------
(***************************************************************************)
(* What holds between sessions: proofs about EpochStore, for any number of *)
(* sessions and any bound, about TicketLife, for every lifetime and every  *)
(* clock, and about SessionPair.                                           *)
(*                                                                         *)
(* StandsOnGoodLeaf is not inductive: a ticket turns into a session, so    *)
(* the invariant has to say what a ticket promises (TicketsPromiseLess).   *)
(* The rise of the store needs more, and a caller that runs one session at *)
(* a time: what a session loaded is then still in the store when it        *)
(* commits (LoadedIsStored), and its leaf is within the bound of it.       *)
(*                                                                         *)
(* Nor are the promises of the tickets: a ticket is minted from what its   *)
(* session remembers, and a session from what its ticket says.  ChainInv   *)
(* ties both to the instant the chain began with.                          *)
(*                                                                         *)
(* Two sessions talk over a network that reorders, repeats, alters and     *)
(* loses records: each reader stays abreast of its peer, and each          *)
(* direction implements the abstract stream.  CP and SP are the two sides  *)
(* with what SessionProofs proves of a session.  The pair's invariant is   *)
(* both sides' own invariants and, in each direction, that the reader is   *)
(* abreast of what the writer wrote.                                       *)
(***************************************************************************)
EXTENDS SessionPair, EpochStore, TicketLife, TLAPS

-----------------------------------------------------------------------------
(* The epoch: the inductive invariant *)

Shaking(x) == sess[x].phase \in {"begun", "judged"}

\* with no overlap, one session at most is not idle
Alone == ~Overlap => \A x, y \in Sessions :
            (sess[x].phase # "idle" /\ sess[y].phase # "idle") => x = y

\* and what it loaded has not moved under it
LoadedIsStored == ~Overlap => \A x \in Sessions : Shaking(x) => sess[x].epoch = store

LeafInBound ==
    \A x \in Sessions :
        (sess[x].phase = "judged" /\ ~sess[x].psk) => sess[x].leaf <= sess[x].epoch + EpochBound

StoreInv == StoreTypeOK /\ StandsOnGoodLeaf /\ TicketsPromiseLess /\ Alone /\ LoadedIsStored /\ LeafInBound

SessionType == [phase : Phases, psk : BOOLEAN, epoch : Epochs, leaf : Epochs]

-----------------------------------------------------------------------------
\* Nothing is stored before a session has started.
LEMMA StoreBegins == StoreInit => StoreInv
BY StoreAssumption DEF StoreInit, StoreInv, StoreTypeOK, StandsOnGoodLeaf, TicketsPromiseLess, Alone, LoadedIsStored,
      LeafInBound, Shaking, Idle, Phases, Epochs

\* An idle session is a session.
LEMMA IdleType == Idle \in SessionType
BY StoreAssumption DEF Idle, SessionType, Phases, Epochs


\* The step that lets a session leave the idle state, by a certificate to come or
\* by a ticket: it loads the store.
LEMMA StartKeeps ==
    ASSUME StoreInv, NEW x \in Sessions, MayStart(x), NEW u \in SessionType,
           u.epoch = store, u.phase \in {"begun", "judged"},
           u.phase = "judged" => u.psk /\ u.epoch <= u.leaf,
           sess' = [sess EXCEPT ![x] = u], UNCHANGED <<store, tickets>>
    PROVE  StoreInv'
<1>1. StoreTypeOK'
  BY DEF StoreInv, StoreTypeOK, SessionType
<1>2. \A y \in Sessions : sess'[y] = IF y = x THEN u ELSE sess[y]
  BY DEF StoreInv, StoreTypeOK
<1>3. StandsOnGoodLeaf' /\ TicketsPromiseLess'
  BY <1>2 DEF StoreInv, StandsOnGoodLeaf, TicketsPromiseLess
<1>4. Alone' /\ LoadedIsStored'
  BY <1>2 DEF StoreInv, Alone, LoadedIsStored, Shaking, MayStart
<1>5. LeafInBound'
  BY <1>2 DEF StoreInv, LeafInBound
<1> QED BY <1>1, <1>3, <1>4, <1>5 DEF StoreInv

\* Every step keeps the invariant.
LEMMA StoreKeeps == StoreInv /\ [StoreNext]_storeVars => StoreInv'
<1> SUFFICES ASSUME StoreInv, [StoreNext]_storeVars PROVE StoreInv'
  OBVIOUS
<1>1. ASSUME NEW x \in Sessions, Connect(x) PROVE StoreInv'
  <2> DEFINE u == [phase |-> "begun", psk |-> FALSE, epoch |-> store, leaf |-> 0]
  <2>1. u \in SessionType /\ u.epoch = store /\ u.phase = "begun"
    BY StoreAssumption DEF StoreInv, StoreTypeOK, SessionType, Phases, Epochs
  <2>2. MayStart(x) /\ sess' = [sess EXCEPT ![x] = u] /\ UNCHANGED <<store, tickets>>
    BY <1>1 DEF Connect
  <2> HIDE DEF u
  <2> QED BY <2>1, <2>2, StartKeeps, Zenon
<1>2. ASSUME NEW x \in Sessions, NEW k \in tickets, Resume(x, k) PROVE StoreInv'
  <2> DEFINE u == [phase |-> "judged", psk |-> TRUE, epoch |-> store, leaf |-> k.leaf]
  <2>1. /\ u \in SessionType /\ u.epoch = store /\ u.phase = "judged" /\ u.psk
        /\ u.leaf = k.leaf
    BY DEF StoreInv, StoreTypeOK, SessionType, Phases, Epochs
  <2>2. MayStart(x) /\ sess' = [sess EXCEPT ![x] = u] /\ UNCHANGED <<store, tickets>>
    BY <1>2 DEF Resume
  <2>3. u.epoch <= u.leaf
    <3>1. store <= k.epoch /\ k.epoch <= k.leaf
      BY <1>2 DEF Resume, TicketAllowed, StoreInv, TicketsPromiseLess
    <3>2. store \in Nat /\ k.epoch \in Nat /\ k.leaf \in Nat
      BY DEF StoreInv, StoreTypeOK, Epochs
    <3> QED BY <2>1, <3>1, <3>2
  <2> HIDE DEF u
  <2> QED BY <2>1, <2>2, <2>3, StartKeeps, Zenon
<1>3. ASSUME NEW x \in Sessions, NEW leaf \in Epochs, epoch_check(x, leaf) PROVE StoreInv'
  <2> DEFINE u == IF LeafAllowed(x, leaf) THEN [sess[x] EXCEPT !.phase = "judged", !.leaf = leaf]
                                          ELSE Idle
  <2>1. sess[x] \in SessionType /\ sess[x].phase = "begun"
    BY <1>3 DEF StoreInv, StoreTypeOK, SessionType, epoch_check
  <2>2. /\ u \in SessionType
        /\ u = Idle \/ (/\ u.phase = "judged" /\ u.epoch = sess[x].epoch /\ u.leaf = leaf
                        /\ LeafAllowed(x, leaf))
    BY <2>1, IdleType, Zenon DEF SessionType, Phases
  <2>3. /\ sess' = [sess EXCEPT ![x] = u] /\ UNCHANGED <<store, tickets>>
    BY <1>3 DEF epoch_check
  <2> HIDE DEF u
  <2>4. \A y \in Sessions : sess'[y] = IF y = x THEN u ELSE sess[y]
    BY <2>3 DEF StoreInv, StoreTypeOK
  <2>5. StoreTypeOK'
    BY <2>2, <2>3 DEF StoreInv, StoreTypeOK, SessionType
  <2>6. StandsOnGoodLeaf' /\ TicketsPromiseLess' /\ LeafInBound'
    BY <2>2, <2>3, <2>4 DEF StoreInv, StandsOnGoodLeaf, TicketsPromiseLess, LeafInBound, LeafAllowed, Idle
  <2>7. Alone' /\ LoadedIsStored'
    BY <2>1, <2>2, <2>3, <2>4 DEF StoreInv, Alone, LoadedIsStored, Shaking, Idle
  <2> QED BY <2>5, <2>6, <2>7 DEF StoreInv
<1>4. ASSUME NEW x \in Sessions, NEW failed \in BOOLEAN, hsa_epoch_commit(x, failed) PROVE StoreInv'
  <2> DEFINE u == [sess[x] EXCEPT !.phase = "open",
                                  !.epoch = IF Raises(x) THEN sess[x].leaf ELSE @]
  <2>1. sess[x] \in SessionType /\ sess[x].phase = "judged"
    BY <1>4 DEF StoreInv, StoreTypeOK, SessionType, hsa_epoch_commit
  <2>2. /\ u \in SessionType /\ u.phase = "open" /\ u.leaf = sess[x].leaf
        /\ u.epoch = IF Raises(x) THEN sess[x].leaf ELSE sess[x].epoch
    BY <2>1, Zenon DEF SessionType, Phases
  <2>3. sess' = [sess EXCEPT ![x] = u] /\ UNCHANGED tickets
    BY <1>4, Zenon DEF hsa_epoch_commit
  <2> HIDE DEF u
  <2>4. \A y \in Sessions : sess'[y] = IF y = x THEN u ELSE sess[y]
    BY <2>3 DEF StoreInv, StoreTypeOK
  <2>5. StoreTypeOK'
    <3>1. store' \in Epochs
      BY <1>4, <2>1 DEF hsa_epoch_commit, StoreInv, StoreTypeOK, SessionType
    <3> QED BY <2>2, <2>3, <3>1 DEF StoreInv, StoreTypeOK, SessionType
  <2>6. StandsOnGoodLeaf' /\ TicketsPromiseLess' /\ LeafInBound'
    <3>1. u.epoch <= u.leaf
      BY <2>1, <2>2 DEF StoreInv, StandsOnGoodLeaf, SessionType, Epochs
    <3> QED BY <2>2, <2>3, <2>4, <3>1 DEF StoreInv, StandsOnGoodLeaf, TicketsPromiseLess, LeafInBound
  <2>7. Alone' /\ LoadedIsStored'
    BY <2>1, <2>2, <2>4 DEF StoreInv, Alone, LoadedIsStored, Shaking
  <2> QED BY <2>5, <2>6, <2>7 DEF StoreInv
<1>5. ASSUME NEW x \in Sessions, handle_ticket(x) PROVE StoreInv'
  <2>1. sess[x] \in SessionType /\ sess[x].phase = "open"
    BY <1>5 DEF StoreInv, StoreTypeOK, SessionType, handle_ticket
  <2>2. StoreTypeOK'
    BY <1>5, <2>1 DEF StoreInv, StoreTypeOK, SessionType, handle_ticket, TicketEpoch
  <2>3. StandsOnGoodLeaf' /\ TicketsPromiseLess' /\ LeafInBound' /\ Alone' /\ LoadedIsStored'
    BY <1>5, <2>1 DEF StoreInv, StandsOnGoodLeaf, TicketsPromiseLess, LeafInBound, Alone, LoadedIsStored,
          Shaking, handle_ticket, TicketEpoch
  <2> QED BY <2>2, <2>3 DEF StoreInv
<1>6. ASSUME NEW x \in Sessions, EndSession(x) PROVE StoreInv'
  <2>1. sess' = [sess EXCEPT ![x] = Idle] /\ UNCHANGED <<store, tickets>>
    BY <1>6 DEF EndSession
  <2>2. \A y \in Sessions : sess'[y] = IF y = x THEN Idle ELSE sess[y]
    BY <2>1 DEF StoreInv, StoreTypeOK
  <2>3. StoreTypeOK'
    BY <2>1, IdleType DEF StoreInv, StoreTypeOK, SessionType
  <2>4. StandsOnGoodLeaf' /\ TicketsPromiseLess' /\ LeafInBound' /\ Alone' /\ LoadedIsStored'
    BY <2>1, <2>2 DEF StoreInv, StandsOnGoodLeaf, TicketsPromiseLess, LeafInBound, Alone, LoadedIsStored,
          Shaking, Idle
  <2> QED BY <2>3, <2>4 DEF StoreInv
<1>7. CASE Restart
  <2>1. StoreTypeOK'
    BY <1>7, IdleType DEF Restart, StoreInv, StoreTypeOK, SessionType
  <2>2. StandsOnGoodLeaf' /\ TicketsPromiseLess' /\ LeafInBound' /\ Alone' /\ LoadedIsStored'
    BY <1>7 DEF Restart, StoreInv, StandsOnGoodLeaf, TicketsPromiseLess, LeafInBound, Alone,
          LoadedIsStored, Shaking, Idle
  <2> QED BY <2>1, <2>2 DEF StoreInv
<1>8. CASE UNCHANGED storeVars
  BY <1>8 DEF storeVars, StoreInv, StoreTypeOK, StandsOnGoodLeaf, TicketsPromiseLess, Alone, LoadedIsStored,
        LeafInBound, Shaking
<1> QED BY <1>1, <1>2, <1>3, <1>4, <1>5, <1>6, <1>7, <1>8 DEF StoreNext

\* The inductive invariant holds throughout.
THEOREM StoreInvariance == StoreSpec => []StoreInv
BY StoreBegins, StoreKeeps, PTL DEF StoreSpec

\* No session and no store holds an epoch past CH_EPOCH_MAX (tlsi_epoch_init would
\* refuse it at the next start).
THEOREM StoreTypeCorrect == StoreSpec => []StoreTypeOK
<1>1. StoreInv => StoreTypeOK
  BY DEF StoreInv
<1> QED BY <1>1, StoreInvariance, PTL

\* However sessions overlap, stores fail and tickets chain, a session stands on a
\* certificate that was not revoked when it loaded the epoch.
THEOREM GoodLeaf == StoreSpec => []StandsOnGoodLeaf
<1>1. StoreInv => StandsOnGoodLeaf
  BY DEF StoreInv
<1> QED BY <1>1, StoreInvariance, PTL

\* The one step that writes the store, for a caller that runs one session at a time.
LEMMA StoreStep ==
    ASSUME ~Overlap, StoreInv, [StoreNext]_storeVars PROVE store' >= store /\ store' <= store + EpochBound
<1>1. store \in Nat /\ EpochBound \in Nat
  BY StoreAssumption DEF StoreInv, StoreTypeOK, Epochs
<1>2. ASSUME NEW x \in Sessions, NEW failed \in BOOLEAN, hsa_epoch_commit(x, failed), store' # store
      PROVE  store' >= store /\ store' <= store + EpochBound
  <2>1. sess[x].epoch \in Nat /\ sess[x].leaf \in Nat
    BY DEF StoreInv, StoreTypeOK, Epochs
  <2>2. store' = sess[x].leaf /\ Raises(x) /\ sess[x].phase = "judged"
    BY <1>2 DEF hsa_epoch_commit
  <2>3. sess[x].epoch = store
    BY <2>2 DEF StoreInv, LoadedIsStored, Shaking
  <2>4. sess[x].leaf <= sess[x].epoch + EpochBound
    BY <2>2, SMTT(30) DEF StoreInv, LeafInBound, Raises
  <2> QED BY <1>1, <2>1, <2>2, <2>3, <2>4 DEF Raises
<1>3. store' = store \/ \E x \in Sessions, failed \in BOOLEAN : hsa_epoch_commit(x, failed)
  BY Zenon DEF StoreNext, storeVars, Connect, Resume, epoch_check, handle_ticket, EndSession, Restart
<1> QED BY <1>1, <1>2, <1>3

\* INV-21 for a caller that runs one session at a time: the stored epoch only rises.
THEOREM SerialRises == ASSUME ~Overlap PROVE StoreSpec => StoreOnlyRises
<1>1. StoreInv /\ [StoreNext]_storeVars => [store' >= store]_storeVars
  BY StoreStep
<1> QED BY <1>1, StoreInvariance, PTL DEF StoreSpec, StoreOnlyRises

\* And by at most CH_EPOCH_BOUND in a handshake.
THEOREM SerialBounded == ASSUME ~Overlap PROVE StoreSpec => BoundedRise
<1>1. StoreInv /\ [StoreNext]_storeVars => [store' <= store + EpochBound]_storeVars
  BY StoreStep
<1> QED BY <1>1, StoreInvariance, PTL DEF StoreSpec, BoundedRise

-----------------------------------------------------------------------------
(* Tickets: the inductive invariant *)

\* a kept ticket carries the instant of its chain, and what was left of it
TicketGood(k) ==
    /\ k \in TicketType
    /\ k.auth = k.full /\ k.issued >= k.full /\ k.issued # 0
    /\ k.lifetime # 0 /\ k.issued + k.lifetime = k.full + TicketLifetime

\* an open session knows the instant its next ticket starts from
SessionGood ==
    /\ srv.psk => srv.auth = srv.full /\ srv.full <= srv.now /\ srv.now <= srv.full + TicketLifetime
    /\ srv.phase = "open" /\ ~srv.psk => srv.full = srv.now
    /\ srv.phase # "open" => ~srv.psk

\* what was offered is kept, and its client was allowed to
OfferGood ==
    offered # << >> =>
        /\ offered[1].ticket \in kept
        /\ offered[1].age_ms \in Nat
        /\ offered[1].age_ms <= offered[1].ticket.lifetime * 1000

ChainInv ==
    /\ srv \in [phase : {"none", "hello", "open"}, now : Nat, psk : BOOLEAN, auth : Nat, full : Nat]
    /\ \A k \in kept : TicketGood(k)
    /\ SessionGood
    /\ OfferGood
    /\ OffersAreTaken

\* No session and no ticket at the start.
LEMMA ChainBegins == ChainInit => ChainInv
  BY DEF ChainInit, NoSession, ChainInv, SessionGood, OfferGood, OffersAreTaken

\* The client's rule keeps an offer inside the lifetime it was told.
LEMMA AgeIsOld ==
  ASSUME NEW k \in TicketType, NEW age \in Nat, ticket_age_ok(k, age)
  PROVE  age <= k.lifetime * 1000
  BY TicketAssumption DEF ticket_age_ok, TicketType

\* A new session has authenticated nobody.
LEMMA OpensGood ==
  ASSUME NEW now \in Nat, ChainInv, srv' = [NoSession EXCEPT !.phase = "hello", !.now = now]
  PROVE  /\ srv' \in [phase : {"none", "hello", "open"}, now : Nat, psk : BOOLEAN, auth : Nat, full : Nat]
         /\ SessionGood' /\ OffersAreTaken'
  <1> DEFINE u == [phase |-> "hello", now |-> now, psk |-> FALSE, auth |-> 0, full |-> 0]
  <1>1. srv' = u
    BY Zenon DEF NoSession
  <1>2. u.phase = "hello" /\ ~u.psk
        /\ u \in [phase : {"none", "hello", "open"}, now : Nat, psk : BOOLEAN, auth : Nat, full : Nat]
    OBVIOUS
  <1> HIDE DEF u
  <1>3. SessionGood' /\ OffersAreTaken'
    BY <1>1, <1>2, Zenon DEF SessionGood, OffersAreTaken
  <1>4. QED
    BY <1>1, <1>2, <1>3, Zenon

\* Every step keeps the bookkeeping of the chains.
LEMMA ChainStep == ChainInv /\ [ChainNext]_chainVars => ChainInv'
  <1> SUFFICES ASSUME ChainInv, [ChainNext]_chainVars PROVE ChainInv'
    OBVIOUS
  <1> USE LifetimeAssumption, TicketAssumption
  <1>1. ASSUME NEW now \in Instants, ConnectFull(now) PROVE ChainInv'
    <2>1. now \in Nat
      OBVIOUS
    <2>2. kept' = kept /\ offered' = << >>
      BY <1>1 DEF ConnectFull
    <2>3. (\A k \in kept : TicketGood(k))' /\ OfferGood'
      BY <2>2 DEF ChainInv, OfferGood, TicketGood
    <2>4. QED
      BY <1>1, <2>1, <2>3, OpensGood, Zenon DEF ConnectFull, ChainInv
  <1>2. ASSUME NEW now \in Instants, NEW k \in kept, NEW age \in Instants,
               Offer(now, k, age * 1000)
        PROVE  ChainInv'
    <2>1. now \in Nat /\ age * 1000 \in Nat /\ k \in TicketType
      BY DEF ChainInv, TicketGood
    <2>2. kept' = kept /\ offered' = << [ticket |-> k, age_ms |-> age * 1000] >>
      BY <1>2 DEF Offer
    <2>3. age * 1000 <= k.lifetime * 1000
      BY <1>2, <2>1, AgeIsOld DEF Offer
    <2>4. (\A j \in kept : TicketGood(j))'
      BY <2>2 DEF ChainInv, TicketGood
    <2>5. OfferGood'
      BY <2>1, <2>2, <2>3 DEF OfferGood
    <2>6. QED
      BY <1>2, <2>1, <2>4, <2>5, OpensGood, ZenonT(40) DEF Offer, ChainInv
  <1>3. CASE Select
    <2>1. kept' = kept /\ offered' = offered /\ srv.phase = "hello"
      BY <1>3 DEF Select
    <2>2. (\A k \in kept : TicketGood(k))' /\ OfferGood'
      BY <2>1 DEF ChainInv, OfferGood, TicketGood
    <2>3. CASE offered # << >> /\ srv.now # 0 /\ ticket_fresh(offered[1].ticket.auth, srv.now)
      <3> DEFINE k == offered[1].ticket
                 u == [phase |-> "open", now |-> srv.now, psk |-> TRUE, auth |-> k.auth,
                       full |-> k.full]
      <3>1. srv' = u
        BY <1>3, <2>3, Zenon DEF Select, ChainInv
      <3>2. TicketGood(k) /\ srv.now \in Nat
        BY <2>3 DEF ChainInv, OfferGood
      <3>3. k.full <= srv.now /\ srv.now <= k.full + TicketLifetime /\ k.auth = k.full
            /\ k.auth \in Nat /\ k.full \in Nat
        BY <2>3, <3>2 DEF TicketGood, TicketType, ticket_fresh
      <3> HIDE DEF k
      <3>4. QED
        BY <2>2, <3>1, <3>2, <3>3 DEF ChainInv, SessionGood, OffersAreTaken
    <2>4. CASE ~(offered # << >> /\ srv.now # 0 /\ ticket_fresh(offered[1].ticket.auth, srv.now))
      <3> DEFINE u == [phase |-> "open", now |-> srv.now, psk |-> srv.psk, auth |-> srv.auth,
                       full |-> srv.now]
      <3>1. srv' = u /\ ~srv.psk
        BY <1>3, <2>1, <2>4, Zenon DEF Select, ChainInv, SessionGood
      <3>2. srv' \in [phase : {"none", "hello", "open"}, now : Nat, psk : BOOLEAN, auth : Nat, full : Nat]
            /\ SessionGood'
        BY <3>1 DEF ChainInv, SessionGood
      <3>3. OffersAreTaken'
        <4> SUFFICES ASSUME offered # << >>,
                            srv.now >= offered[1].ticket.issued,
                            (srv.now - offered[1].ticket.issued) * 1000 <= offered[1].age_ms
                     PROVE  FALSE
          BY <2>1, <3>1 DEF OffersAreTaken
        <4> DEFINE k == offered[1].ticket
                   a == offered[1].age_ms
        <4>1. TicketGood(k) /\ a \in Nat /\ a <= k.lifetime * 1000 /\ srv.now \in Nat
          BY DEF ChainInv, OfferGood
        <4>2. srv.now >= k.issued /\ (srv.now - k.issued) * 1000 <= a
          OBVIOUS
        <4>3. k.auth \in Nat /\ k.issued \in Nat /\ k.lifetime \in Nat /\ k.full \in Nat
          BY <4>1 DEF TicketGood, TicketType
        <4>4. srv.now = 0 \/ ~ticket_fresh(k.auth, srv.now)
          BY <2>4
        <4> HIDE DEF k, a
        <4>5. srv.now - k.issued <= k.lifetime
          <5> DEFINE d == srv.now - k.issued
          <5>1. d \in Nat /\ d * 1000 <= a
            BY <4>1, <4>2, <4>3
          <5>2. a \in Nat /\ a <= k.lifetime * 1000
            BY <4>1
          <5> HIDE DEF d
          <5>3. d <= k.lifetime
            BY <4>3, <5>1, <5>2
          <5> QED BY <5>3 DEF d
        <4>6. srv.now >= k.auth /\ srv.now - k.auth <= TicketLifetime /\ srv.now # 0
          <5>1. /\ k.auth = k.full /\ k.issued >= k.full /\ k.issued # 0
                /\ k.issued + k.lifetime = k.full + TicketLifetime
            BY <4>1 DEF TicketGood
          <5>2. srv.now \in Nat /\ srv.now >= k.issued /\ TicketLifetime \in Nat
            BY <4>1, <4>2
          <5> QED BY <4>3, <4>5, <5>1, <5>2
        <4>7. QED
          BY <4>4, <4>6 DEF ticket_fresh
      <3>4. QED
        BY <2>2, <3>2, <3>3 DEF ChainInv
    <2>5. QED
      BY <2>3, <2>4
  <1>4. CASE Issue
    <2> DEFINE auth == AuthSeconds(srv.psk, srv.auth, srv.now)
               left == LifetimeLeft(auth, srv.now)
               k == [auth |-> auth, lifetime |-> left, issued |-> srv.now, full |-> srv.full]
    <2>1. srv' = srv /\ offered' = offered /\ kept' = kept \cup {k}
          /\ srv.phase = "open" /\ srv.now # 0 /\ left # 0
      BY <1>4 DEF Issue
    <2>2. srv.now \in Nat /\ srv.full \in Nat /\ srv.auth \in Nat /\ srv.psk \in BOOLEAN
      BY DEF ChainInv
    <2>3. auth = srv.full /\ srv.full <= srv.now
      BY <2>1, <2>2 DEF AuthSeconds, ChainInv, SessionGood
    <2> HIDE DEF auth
    <2>4. left \in Nat /\ left = TicketLifetime - (srv.now - srv.full)
      BY <2>1, <2>2, <2>3 DEF LifetimeLeft
    <2> HIDE DEF left
    <2>5. TicketGood(k)
      BY <2>1, <2>2, <2>3, <2>4 DEF TicketGood, TicketType
    <2> HIDE DEF k
    <2>6. (\A j \in kept : TicketGood(j))'
      BY <2>1, <2>5 DEF ChainInv, TicketGood
    <2>7. OfferGood' /\ SessionGood' /\ OffersAreTaken'
      BY <2>1 DEF ChainInv, OfferGood, SessionGood, OffersAreTaken
    <2>8. QED
      BY <2>1, <2>6, <2>7 DEF ChainInv
  <1>5. CASE Close
    <2>1. kept' = kept /\ offered' = << >> /\ srv' = NoSession
      BY <1>5 DEF Close
    <2>2. QED
      BY <2>1 DEF ChainInv, NoSession, SessionGood, OfferGood, OffersAreTaken, TicketGood
  <1>6. CASE UNCHANGED chainVars
    BY <1>6 DEF chainVars, ChainInv, SessionGood, OfferGood, OffersAreTaken, TicketGood
  <1>7. QED
    BY <1>1, <1>2, <1>3, <1>4, <1>5, <1>6 DEF ChainNext

\* The bookkeeping holds in every reachable state.
LEMMA ChainInvariance == ChainSpec => []ChainInv
  BY ChainBegins, ChainStep, PTL DEF ChainSpec

\* However long the chain and whatever the clocks, srv_select_auth resumes only
\* within one lifetime of the full handshake the chain started with.
THEOREM ChainsEnd == ChainSpec => []ResumedInTime
  <1>1. ChainInv => ResumedInTime
    BY DEF ChainInv, SessionGood, ResumedInTime
  <1>2. QED
    BY <1>1, ChainInvariance, PTL

\* Every ticket of a chain promises its client the same last instant, the one
\* the servers enforce (srv_send_new_session_ticket against ticket_fresh).
THEOREM PromisesAgree == ChainSpec => []PromiseIsKept
  <1>1. ChainInv => PromiseIsKept
    BY DEF ChainInv, TicketGood, PromiseIsKept
  <1>2. QED
    BY <1>1, ChainInvariance, PTL

\* hspost_ticket_age_ok on the client never lets through what ticket_fresh on a
\* server whose clock kept pace would refuse.
THEOREM RulesAgree == ChainSpec => []OffersAreTaken
  <1>1. ChainInv => OffersAreTaken
    BY DEF ChainInv
  <1>2. QED
    BY <1>1, ChainInvariance, PTL

-----------------------------------------------------------------------------
(* The pair: its two sides are sessions *)

CP == INSTANCE SessionProofs WITH
        Server <- FALSE, MaxWrite <- ClientMaxWrite,
        s <- cs, call <- ccall, ret <- cret, out <- c2s, written <- cwritten,
        opened <- copened, rx <- crx, asked <- casked
SP == INSTANCE SessionProofs WITH
        Server <- TRUE, MaxWrite <- ServerMaxWrite,
        s <- ss, call <- scall, ret <- sret, out <- s2c, written <- swritten,
        opened <- sopened, rx <- srx, asked <- sasked

\* The constants of the pair are constants of a session on each side.
LEMMA Constants ==
  /\ CP!RecordAssumption /\ CP!SessionAssumption /\ CP!PeerCovers
  /\ SP!RecordAssumption /\ SP!SessionAssumption /\ SP!PeerCovers
  BY PairAssumption, SMTT(30)
     DEF C!Msg, CP!Msg, SP!Msg, C!Alerts, CP!Alerts, SP!Alerts, CP!PeerCovers, SP!PeerCovers

\* A step of the client is a step of its session.
LEMMA ClientSame ==
  /\ C!Init => CP!Init
  /\ Client => /\ CP!Local \/ \E i \in 1..Len(s2c) : CP!Receives(s2c[i])
               /\ UNCHANGED svars
<1>1. C!Init = CP!Init
  BY ZenonT(60)
  DEF C!Init, CP!Init, C!rec_dir_init, CP!rec_dir_init, C!rec_seal, CP!rec_seal, C!NoData, CP!NoData,
       C!Sealed, CP!Sealed, C!NewSessionTicket, CP!NewSessionTicket, C!NoCall, CP!NoCall,
       C!Handshake, CP!Handshake
<1>2. C!Calls = CP!Calls
  BY ZenonT(60)
  DEF C!Calls, CP!Calls, C!tls_write, CP!tls_write, C!tls_read, CP!tls_read, C!tls_close, CP!tls_close,
       C!tls_fail, CP!tls_fail, C!NoCall, CP!NoCall, C!tlsi_send_alert, CP!tlsi_send_alert,
       C!tlsi_wipe, CP!tlsi_wipe, C!Alerts, CP!Alerts, C!tlsi_fail, CP!tlsi_fail, C!rec_seal_ok,
       CP!rec_seal_ok, C!Sealed, CP!Sealed, C!Alert, CP!Alert, C!Wiped, CP!Wiped, C!NoData,
       CP!NoData, C!Msg, CP!Msg
<1>3. /\ \A sent : C!key_update_before_record(sent) = CP!key_update_before_record(sent)
      /\ \A sent : C!tls_write_record(sent) = CP!tls_write_record(sent)
  BY ZenonT(60)
  DEF C!key_update_before_record, CP!key_update_before_record, C!tls_write_record, CP!tls_write_record,
       C!records_before_key_update, CP!records_before_key_update, C!Sealed, CP!Sealed,
       C!KeyUpdate, CP!KeyUpdate, C!EpochsSpent, CP!EpochsSpent, C!tlsi_fail, CP!tlsi_fail,
       C!rec_seal_ok, CP!rec_seal_ok, C!rec_seal, CP!rec_seal, C!hspost_send_key_update,
       CP!hspost_send_key_update, C!Data, CP!Data, C!NoCall, CP!NoCall, C!Handshake, CP!Handshake,
       C!tlsi_wipe, CP!tlsi_wipe, C!tlsi_send_alert, CP!tlsi_send_alert, C!tls_write,
       CP!tls_write, C!rec_dir_update, CP!rec_dir_update, C!Wiped, CP!Wiped, C!NoData, CP!NoData,
       C!Alert, CP!Alert
<1>4. /\ C!ReturnData = CP!ReturnData /\ C!Again = CP!Again
      /\ C!QuietCapReached = CP!QuietCapReached /\ C!Unopened = CP!Unopened
      /\ C!Unprotected = CP!Unprotected /\ C!ReadFails = CP!ReadFails
  BY ZenonT(60)
  DEF C!ReturnData, CP!ReturnData, C!Again, CP!Again, C!QuietCapReached, CP!QuietCapReached, C!Unopened,
       CP!Unopened, C!Unprotected, CP!Unprotected, C!ReadFails, CP!ReadFails, C!Unread, CP!Unread,
       C!NoCall, CP!NoCall, C!Reading, CP!Reading, C!tlsi_fail, CP!tlsi_fail,
       C!io_read_record_errors, CP!io_read_record_errors, C!tlsi_wipe, CP!tlsi_wipe,
       C!tlsi_send_alert, CP!tlsi_send_alert, C!tls_write, CP!tls_write, C!Wiped, CP!Wiped,
       C!NoData, CP!NoData, C!rec_seal_ok, CP!rec_seal_ok, C!Sealed, CP!Sealed, C!Alert, CP!Alert
<1>5. \A c : C!dispatch_one_record(c) = CP!dispatch_one_record(c)
  BY ZenonT(60)
  DEF C!dispatch_one_record, CP!dispatch_one_record, C!Opening, CP!Opening, C!rec_open, CP!rec_open,
       C!RunAfterData, CP!RunAfterData, C!NextIteration, CP!NextIteration, C!hspost_read,
       CP!hspost_read, C!read_alert, CP!read_alert, C!tlsi_fail, CP!tlsi_fail, C!Reading,
       CP!Reading, C!handle_key_update, CP!handle_key_update, C!Refusals, CP!Refusals,
       C!FirstRefusal, CP!FirstRefusal, C!OwesAnswer, CP!OwesAnswer, C!close_read_side,
       CP!close_read_side, C!NoCall, CP!NoCall, C!hsr_refuse_alert, CP!hsr_refuse_alert,
       C!tlsi_wipe, CP!tlsi_wipe, C!tlsi_send_alert, CP!tlsi_send_alert, C!tls_write,
       CP!tls_write, C!rec_dir_update, CP!rec_dir_update, C!take_message, CP!take_message,
       C!NoRefusal, CP!NoRefusal, C!Wiped, CP!Wiped, C!NoData, CP!NoData, C!rec_seal_ok,
       CP!rec_seal_ok, C!Sealed, CP!Sealed, C!Alert, CP!Alert, C!take_ticket, CP!take_ticket,
       C!take_key_update, CP!take_key_update
<1>6. \A c : C!open_fragment(c) = CP!open_fragment(c)
  BY ZenonT(60)
  DEF C!open_fragment, CP!open_fragment, C!Opening, CP!Opening, C!rec_open, CP!rec_open, C!hspost_read,
       CP!hspost_read, C!hsr_refuse_alert, CP!hsr_refuse_alert, C!tlsi_fail, CP!tlsi_fail,
       C!Reading, CP!Reading, C!handle_key_update, CP!handle_key_update, C!Refusals, CP!Refusals,
       C!FirstRefusal, CP!FirstRefusal, C!OwesAnswer, CP!OwesAnswer, C!NextIteration,
       CP!NextIteration, C!tlsi_wipe, CP!tlsi_wipe, C!tlsi_send_alert, CP!tlsi_send_alert,
       C!NoCall, CP!NoCall, C!tls_write, CP!tls_write, C!rec_dir_update, CP!rec_dir_update,
       C!take_message, CP!take_message, C!NoRefusal, CP!NoRefusal, C!Wiped, CP!Wiped, C!NoData,
       CP!NoData, C!rec_seal_ok, CP!rec_seal_ok, C!Sealed, CP!Sealed, C!Alert, CP!Alert,
       C!take_ticket, CP!take_ticket, C!take_key_update, CP!take_key_update
<1>7. \A d, r : C!rec_open_ok(d, r) = CP!rec_open_ok(d, r)
  BY Zenon DEF C!rec_open_ok, CP!rec_open_ok
<1> QED BY <1>1, <1>2, <1>3, <1>4, <1>5, <1>6, <1>7, ZenonT(40)
        DEF Client, ClientArrival, ClientNoise, CP!Receives, CP!Local

\* A step of the server is a step of its session.
LEMMA ServerSame ==
  /\ S!Init => SP!Init
  /\ Server => /\ SP!Local \/ \E i \in 1..Len(c2s) : SP!Receives(c2s[i])
               /\ UNCHANGED cvars
<1>1. S!Init = SP!Init
  BY ZenonT(60)
  DEF S!Init, SP!Init, S!rec_dir_init, SP!rec_dir_init, S!rec_seal, SP!rec_seal, S!NoData, SP!NoData,
       S!Sealed, SP!Sealed, S!NewSessionTicket, SP!NewSessionTicket, S!NoCall, SP!NoCall,
       S!Handshake, SP!Handshake
<1>2. S!Calls = SP!Calls
  BY ZenonT(60)
  DEF S!Calls, SP!Calls, S!tls_write, SP!tls_write, S!tls_read, SP!tls_read, S!tls_close, SP!tls_close,
       S!tls_fail, SP!tls_fail, S!NoCall, SP!NoCall, S!tlsi_send_alert, SP!tlsi_send_alert,
       S!tlsi_wipe, SP!tlsi_wipe, S!Alerts, SP!Alerts, S!tlsi_fail, SP!tlsi_fail, S!rec_seal_ok,
       SP!rec_seal_ok, S!Sealed, SP!Sealed, S!Alert, SP!Alert, S!Wiped, SP!Wiped, S!NoData,
       SP!NoData, S!Msg, SP!Msg
<1>3. /\ \A sent : S!key_update_before_record(sent) = SP!key_update_before_record(sent)
      /\ \A sent : S!tls_write_record(sent) = SP!tls_write_record(sent)
  BY ZenonT(60)
  DEF S!key_update_before_record, SP!key_update_before_record, S!tls_write_record, SP!tls_write_record,
       S!records_before_key_update, SP!records_before_key_update, S!Sealed, SP!Sealed,
       S!KeyUpdate, SP!KeyUpdate, S!EpochsSpent, SP!EpochsSpent, S!tlsi_fail, SP!tlsi_fail,
       S!rec_seal_ok, SP!rec_seal_ok, S!rec_seal, SP!rec_seal, S!hspost_send_key_update,
       SP!hspost_send_key_update, S!Data, SP!Data, S!NoCall, SP!NoCall, S!Handshake, SP!Handshake,
       S!tlsi_wipe, SP!tlsi_wipe, S!tlsi_send_alert, SP!tlsi_send_alert, S!tls_write,
       SP!tls_write, S!rec_dir_update, SP!rec_dir_update, S!Wiped, SP!Wiped, S!NoData, SP!NoData,
       S!Alert, SP!Alert
<1>4. /\ S!ReturnData = SP!ReturnData /\ S!Again = SP!Again
      /\ S!QuietCapReached = SP!QuietCapReached /\ S!Unopened = SP!Unopened
      /\ S!Unprotected = SP!Unprotected /\ S!ReadFails = SP!ReadFails
  BY ZenonT(60)
  DEF S!ReturnData, SP!ReturnData, S!Again, SP!Again, S!QuietCapReached, SP!QuietCapReached, S!Unopened,
       SP!Unopened, S!Unprotected, SP!Unprotected, S!ReadFails, SP!ReadFails, S!Unread, SP!Unread,
       S!NoCall, SP!NoCall, S!Reading, SP!Reading, S!tlsi_fail, SP!tlsi_fail,
       S!io_read_record_errors, SP!io_read_record_errors, S!tlsi_wipe, SP!tlsi_wipe,
       S!tlsi_send_alert, SP!tlsi_send_alert, S!tls_write, SP!tls_write, S!Wiped, SP!Wiped,
       S!NoData, SP!NoData, S!rec_seal_ok, SP!rec_seal_ok, S!Sealed, SP!Sealed, S!Alert, SP!Alert
<1>5. \A c : S!dispatch_one_record(c) = SP!dispatch_one_record(c)
  BY ZenonT(60)
  DEF S!dispatch_one_record, SP!dispatch_one_record, S!Opening, SP!Opening, S!rec_open, SP!rec_open,
       S!RunAfterData, SP!RunAfterData, S!NextIteration, SP!NextIteration, S!hspost_read,
       SP!hspost_read, S!read_alert, SP!read_alert, S!tlsi_fail, SP!tlsi_fail, S!Reading,
       SP!Reading, S!handle_key_update, SP!handle_key_update, S!Refusals, SP!Refusals,
       S!FirstRefusal, SP!FirstRefusal, S!OwesAnswer, SP!OwesAnswer, S!close_read_side,
       SP!close_read_side, S!NoCall, SP!NoCall, S!hsr_refuse_alert, SP!hsr_refuse_alert,
       S!tlsi_wipe, SP!tlsi_wipe, S!tlsi_send_alert, SP!tlsi_send_alert, S!tls_write,
       SP!tls_write, S!rec_dir_update, SP!rec_dir_update, S!take_message, SP!take_message,
       S!NoRefusal, SP!NoRefusal, S!Wiped, SP!Wiped, S!NoData, SP!NoData, S!rec_seal_ok,
       SP!rec_seal_ok, S!Sealed, SP!Sealed, S!Alert, SP!Alert, S!take_ticket, SP!take_ticket,
       S!take_key_update, SP!take_key_update
<1>6. \A c : S!open_fragment(c) = SP!open_fragment(c)
  BY ZenonT(60)
  DEF S!open_fragment, SP!open_fragment, S!Opening, SP!Opening, S!rec_open, SP!rec_open, S!hspost_read,
       SP!hspost_read, S!hsr_refuse_alert, SP!hsr_refuse_alert, S!tlsi_fail, SP!tlsi_fail,
       S!Reading, SP!Reading, S!handle_key_update, SP!handle_key_update, S!Refusals, SP!Refusals,
       S!FirstRefusal, SP!FirstRefusal, S!OwesAnswer, SP!OwesAnswer, S!NextIteration,
       SP!NextIteration, S!tlsi_wipe, SP!tlsi_wipe, S!tlsi_send_alert, SP!tlsi_send_alert,
       S!NoCall, SP!NoCall, S!tls_write, SP!tls_write, S!rec_dir_update, SP!rec_dir_update,
       S!take_message, SP!take_message, S!NoRefusal, SP!NoRefusal, S!Wiped, SP!Wiped, S!NoData,
       SP!NoData, S!rec_seal_ok, SP!rec_seal_ok, S!Sealed, SP!Sealed, S!Alert, SP!Alert,
       S!take_ticket, SP!take_ticket, S!take_key_update, SP!take_key_update
<1>7. \A d, r : S!rec_open_ok(d, r) = SP!rec_open_ok(d, r)
  BY Zenon DEF S!rec_open_ok, SP!rec_open_ok
<1> QED BY <1>1, <1>2, <1>3, <1>4, <1>5, <1>6, <1>7, Zenon
        DEF Server, ServerArrival, ServerNoise, SP!Receives, SP!Local

\* What both sides make of a record's content is the same.
LEMMA SameRecords ==
  /\ \A o, w : CP!Readable(o, w) = SP!Readable(o, w)
  /\ \A o, w, p, v : CP!Writes(o, w, p, v) = SP!Writes(o, w, p, v)
  BY ZenonT(60) DEF CP!Readable, SP!Readable, CP!Writes, SP!Writes, CP!Pushes, SP!Pushes,
     CP!Records, SP!Records, CP!Contents, SP!Contents, CP!Msg, SP!Msg, CP!Alerts, SP!Alerts,
     CP!Ordered, SP!Ordered, CP!Before, SP!Before, CP!Follows, SP!Follows, CP!After, SP!After,
     CP!Stream, SP!Stream, CP!NextByte, SP!NextByte, CP!Carries, SP!Carries,
     CP!OwnContent, SP!OwnContent, CP!KeyUpdate, SP!KeyUpdate, CP!Handshake, SP!Handshake,
     CP!NewSessionTicket, SP!NewSessionTicket, CP!Alert, SP!Alert, CP!Data, SP!Data,
     CP!IsData, SP!IsData, CP!IsKeyUpdate, SP!IsKeyUpdate

-----------------------------------------------------------------------------
(* The invariant of the pair *)

PairInv ==
    /\ CP!SideInv /\ SP!SideInv
    /\ CP!AbreastOf(s2c, swritten) /\ SP!AbreastOf(c2s, cwritten)

\* What each side wrote is readable, to the other one too.
LEMMA BothReadable == PairInv => CP!Readable(s2c, swritten) /\ SP!Readable(c2s, cwritten)
  BY CP!WriterReadable, SP!WriterReadable, SameRecords, Constants
     DEF PairInv, CP!SideInv, SP!SideInv

\* A reader that has opened nothing is abreast of a peer that starts.
LEMMA PairInit ==
  Init => /\ PairInv
          /\ swritten = 0 /\ crx = <<>> /\ cs.read_closed = FALSE /\ ~SP!Fin(s2c)
          /\ cwritten = 0 /\ srx = <<>> /\ ss.read_closed = FALSE /\ ~CP!Fin(c2s)
<1> SUFFICES ASSUME Init
             PROVE  /\ PairInv
                    /\ swritten = 0 /\ crx = <<>> /\ cs.read_closed = FALSE /\ ~SP!Fin(s2c)
                    /\ cwritten = 0 /\ srx = <<>> /\ ss.read_closed = FALSE /\ ~CP!Fin(c2s)
  BY ZenonT(40)
<1>1. CP!Init /\ SP!Init
  BY ClientSame, ServerSame DEF Init
<1>2. /\ CP!SideInv /\ CP!Readable(c2s, cwritten)
      /\ ~CP!Fin(c2s) /\ cwritten = 0 /\ crx = <<>> /\ cs.read_closed = FALSE
      /\ \A o, w : CP!Readable(o, w) => CP!AbreastOf(o, w)
  BY <1>1, CP!SideInit, Constants, ZenonT(40)
<1>3. /\ SP!SideInv /\ SP!Readable(s2c, swritten)
      /\ ~SP!Fin(s2c) /\ swritten = 0 /\ srx = <<>> /\ ss.read_closed = FALSE
      /\ \A o, w : SP!Readable(o, w) => SP!AbreastOf(o, w)
  BY <1>1, SP!SideInit, Constants, ZenonT(40)
<1> QED BY <1>2, <1>3, SameRecords, SMTT(30) DEF PairInv

\* A step of the client keeps the pair's invariant, writes on to the server and
\* reads on from it.
LEMMA ClientStep ==
  ASSUME PairInv, Client
  PROVE  PairInv' /\ UNCHANGED svars /\ CP!SendsOn /\ CP!ReadsOn(s2c, swritten)
<1>0. CP!Readable(s2c, swritten) /\ SP!Readable(c2s, cwritten)
  BY BothReadable, SMTT(30)
<1>1. /\ CP!SideInv' /\ CP!Writes(c2s, cwritten, c2s', cwritten')
      /\ CP!Abreast(cs'.rd, copened', CP!Received', s2c, swritten)
      /\ CP!SendsOn /\ CP!ReadsOn(s2c, swritten) /\ UNCHANGED svars
  BY <1>0, ClientSame, CP!SideStep, Constants, SMTT(30) DEF PairInv
<1>2. /\ SP!SideInv'
      /\ SP!Abreast(ss'.rd, sopened', SP!Received', c2s', cwritten')
  <2>1. UNCHANGED SP!vars /\ SP!Writes(c2s, cwritten, c2s', cwritten')
    BY <1>1, SameRecords, SMTT(30) DEF svars, SP!vars
  <2> QED BY <1>0, <2>1, SP!SideWaits, Constants, SMTT(30) DEF PairInv
<1> QED BY <1>1, <1>2, SMTT(30) DEF PairInv, svars, CP!AbreastOf, SP!AbreastOf

\* A step of the server keeps the pair's invariant, writes on to the client and
\* reads on from it.
LEMMA ServerStep ==
  ASSUME PairInv, Server
  PROVE  PairInv' /\ UNCHANGED cvars /\ SP!SendsOn /\ SP!ReadsOn(c2s, cwritten)
<1>0. CP!Readable(s2c, swritten) /\ SP!Readable(c2s, cwritten)
  BY BothReadable
<1>1. /\ SP!SideInv' /\ SP!Writes(s2c, swritten, s2c', swritten')
      /\ SP!Abreast(ss'.rd, sopened', SP!Received', c2s, cwritten)
      /\ SP!SendsOn /\ SP!ReadsOn(c2s, cwritten) /\ UNCHANGED cvars
  BY <1>0, ServerSame, SP!SideStep, Constants, SMTT(30) DEF PairInv
<1>2. /\ CP!SideInv'
      /\ CP!Abreast(cs'.rd, copened', CP!Received', s2c', swritten')
  <2>1. UNCHANGED CP!vars /\ CP!Writes(s2c, swritten, s2c', swritten')
    BY <1>1, SameRecords, SMTT(30) DEF cvars, CP!vars
  <2> QED BY <1>0, <2>1, CP!SideWaits, Constants, SMTT(30) DEF PairInv
<1> QED BY <1>1, <1>2, SMTT(30) DEF PairInv, cvars, CP!AbreastOf, SP!AbreastOf

\* Every step of the pair keeps its invariant.
LEMMA PairStep == PairInv /\ [Next]_vars => PairInv'
<1> SUFFICES ASSUME PairInv, UNCHANGED vars PROVE PairInv'
  BY ClientStep, ServerStep, SMTT(30) DEF Next
<1>1. UNCHANGED CP!vars /\ UNCHANGED SP!vars
  BY SMTT(30) DEF vars, cvars, svars, CP!vars, SP!vars
<1>2. /\ CP!Writes(s2c, swritten, s2c, swritten) /\ SP!Writes(c2s, cwritten, c2s, cwritten)
  BY SMTT(30) DEF CP!Writes, SP!Writes
<1>3. /\ CP!SideInv' /\ CP!Abreast(cs'.rd, copened', CP!Received', s2c, swritten)
      /\ SP!SideInv' /\ SP!Abreast(ss'.rd, sopened', SP!Received', c2s, cwritten)
  BY <1>1, <1>2, BothReadable, CP!SideWaits, SP!SideWaits, Constants, SMTT(30) DEF PairInv
<1> QED BY <1>3, SMTT(30) DEF PairInv, vars, cvars, svars, CP!AbreastOf, SP!AbreastOf

-----------------------------------------------------------------------------
(* The theorems *)

\* The close_notify that ends a stream is the same to both sides.
LEMMA SameEnd == \A o : Closed(o) = CP!Fin(o) /\ Closed(o) = SP!Fin(o)
  BY ZenonT(40) DEF Closed, CP!Fin, SP!Fin, C!Alert, CP!Alert, SP!Alert

\* rec_open and dispatch_one_record: whatever the network does, the records a
\* side opened are the first ones its peer sealed, and it stands at the next one.
THEOREM ReadersInStepAlways == Spec => []ReadersInStep
<1>1. \A r : C!After(r) = CP!After(r) /\ C!After(r) = SP!After(r)
  BY ZenonT(40) DEF C!After, CP!After, SP!After, C!IsKeyUpdate, CP!IsKeyUpdate, SP!IsKeyUpdate
<1>2. PairInv => ReadersInStep
  BY <1>1, SMTT(30) DEF PairInv, ReadersInStep, InStep, CP!AbreastOf, SP!AbreastOf, CP!Abreast, SP!Abreast
<1> QED BY <1>2, PairInit, PairStep, PTL DEF Spec

\* ch_write on the server and ch_read on the client: the bytes the client's caller
\* is given are the server's, each once and in order, and the end comes after all
\* of them.
THEOREM StreamToClientAlways == Spec => StreamToClient
<1>1. Init => ToClient!Init
  <2>1. Closed(s2c) = SP!Fin(s2c) /\ Closed(s2c) \in BOOLEAN
    BY SameEnd, ZenonT(40) DEF Closed
  <2> QED BY <2>1, PairInit, SMTT(30) DEF ToClient!Init
<1>2. ASSUME PairInv, Client PROVE [ToClient!Next]_(ToClient!vars)
  <2>1. CP!ReadsOn(s2c, swritten) /\ s2c' = s2c /\ swritten' = swritten
    BY <1>2, ClientStep, SMTT(30) DEF svars
  <2>2. Closed(s2c)' = Closed(s2c) /\ (Closed(s2c) = CP!Fin(s2c))
    BY <2>1, SameEnd, ZenonT(40) DEF Closed
  <2>3. CASE crx' = crx /\ cs'.read_closed = cs.read_closed
    BY <2>1, <2>2, <2>3, SMTT(30) DEF ToClient!vars
  <2>4. CASE /\ cs.read_closed = FALSE /\ cs'.read_closed = FALSE
             /\ \E n \in 1..(swritten - Len(crx)) :
                   crx' = crx \o [j \in 1..n |-> Len(crx) + (j - 1)]
    BY <2>1, <2>2, <2>4, ZenonT(40) DEF ToClient!Next, ToClient!Read
  <2>5. CASE /\ cs.read_closed = FALSE /\ cs'.read_closed = TRUE
             /\ crx' = crx /\ Len(crx) = swritten /\ CP!Fin(s2c)
    BY <2>1, <2>2, <2>5, ZenonT(40) DEF ToClient!Next, ToClient!End
  <2> QED BY <2>1, <2>3, <2>4, <2>5, ZenonT(40) DEF CP!ReadsOn
<1>3. ASSUME PairInv, Server PROVE [ToClient!Next]_(ToClient!vars)
  <2>1. SP!SendsOn /\ crx' = crx /\ cs' = cs
    BY <1>3, ServerStep, SMTT(30) DEF cvars
  <2>2. /\ Closed(s2c) = SP!Fin(s2c) /\ Closed(s2c)' = SP!Fin(s2c')
        /\ Closed(s2c) \in BOOLEAN /\ Closed(s2c)' \in BOOLEAN
    BY SameEnd, ZenonT(40) DEF Closed
  <2>3. CASE swritten' = swritten /\ (SP!Fin(s2c') <=> SP!Fin(s2c))
    BY <2>1, <2>2, <2>3, SMTT(30) DEF ToClient!vars
  <2>4. CASE ~SP!Fin(s2c) /\ ~SP!Fin(s2c') /\ swritten' \in Nat /\ swritten' > swritten
    BY <2>1, <2>2, <2>4, SMTT(30) DEF ToClient!Next, ToClient!Write
  <2>5. CASE ~SP!Fin(s2c) /\ SP!Fin(s2c') /\ swritten' = swritten
    BY <2>1, <2>2, <2>5, SMTT(30) DEF ToClient!Next, ToClient!Close
  <2> QED BY <2>1, <2>3, <2>4, <2>5, SMTT(30) DEF SP!SendsOn
<1>4. UNCHANGED vars => UNCHANGED ToClient!vars
  BY SMTT(30) DEF vars, cvars, svars, ToClient!vars, Closed
<1>5. PairInv /\ [Next]_vars => [ToClient!Next]_(ToClient!vars)
  BY <1>2, <1>3, <1>4, SMTT(30) DEF Next
<1> QED BY <1>1, <1>5, PairInit, PairStep, PTL DEF Spec, StreamToClient, ToClient!Spec

\* ch_write on the client and ch_read on the server: the bytes the server's caller
\* is given are the client's, each once and in order, and the end comes after all
\* of them.
THEOREM StreamToServerAlways == Spec => StreamToServer
<1>1. Init => ToServer!Init
  <2>1. Closed(c2s) = CP!Fin(c2s) /\ Closed(c2s) \in BOOLEAN
    BY SameEnd, ZenonT(40) DEF Closed
  <2> QED BY <2>1, PairInit, SMTT(30) DEF ToServer!Init
<1>2. ASSUME PairInv, Server PROVE [ToServer!Next]_(ToServer!vars)
  <2>1. SP!ReadsOn(c2s, cwritten) /\ c2s' = c2s /\ cwritten' = cwritten
    BY <1>2, ServerStep DEF cvars
  <2>2. Closed(c2s)' = Closed(c2s) /\ (Closed(c2s) = SP!Fin(c2s))
    BY <2>1, SameEnd, ZenonT(40) DEF Closed
  <2>3. CASE srx' = srx /\ ss'.read_closed = ss.read_closed
    BY <2>1, <2>2, <2>3 DEF ToServer!vars
  <2>4. CASE /\ ss.read_closed = FALSE /\ ss'.read_closed = FALSE
             /\ \E n \in 1..(cwritten - Len(srx)) :
                   srx' = srx \o [j \in 1..n |-> Len(srx) + (j - 1)]
    BY <2>1, <2>2, <2>4, Zenon DEF ToServer!Next, ToServer!Read
  <2>5. CASE /\ ss.read_closed = FALSE /\ ss'.read_closed = TRUE
             /\ srx' = srx /\ Len(srx) = cwritten /\ SP!Fin(c2s)
    BY <2>1, <2>2, <2>5, Zenon DEF ToServer!Next, ToServer!End
  <2> QED BY <2>1, <2>3, <2>4, <2>5, Zenon DEF SP!ReadsOn
<1>3. ASSUME PairInv, Client PROVE [ToServer!Next]_(ToServer!vars)
  <2>1. CP!SendsOn /\ srx' = srx /\ ss' = ss
    BY <1>3, ClientStep DEF svars
  <2>2. /\ Closed(c2s) = CP!Fin(c2s) /\ Closed(c2s)' = CP!Fin(c2s')
        /\ Closed(c2s) \in BOOLEAN /\ Closed(c2s)' \in BOOLEAN
    BY SameEnd, ZenonT(40) DEF Closed
  <2>3. CASE cwritten' = cwritten /\ (CP!Fin(c2s') <=> CP!Fin(c2s))
    BY <2>1, <2>2, <2>3 DEF ToServer!vars
  <2>4. CASE ~CP!Fin(c2s) /\ ~CP!Fin(c2s') /\ cwritten' \in Nat /\ cwritten' > cwritten
    BY <2>1, <2>2, <2>4 DEF ToServer!Next, ToServer!Write
  <2>5. CASE ~CP!Fin(c2s) /\ CP!Fin(c2s') /\ cwritten' = cwritten
    BY <2>1, <2>2, <2>5 DEF ToServer!Next, ToServer!Close
  <2> QED BY <2>1, <2>3, <2>4, <2>5 DEF CP!SendsOn
<1>4. UNCHANGED vars => UNCHANGED ToServer!vars
  BY SMTT(30) DEF vars, cvars, svars, ToServer!vars, Closed
<1>5. PairInv /\ [Next]_vars => [ToServer!Next]_(ToServer!vars)
  BY <1>2, <1>3, <1>4 DEF Next
<1> QED BY <1>1, <1>5, PairInit, PairStep, PTL DEF Spec, StreamToServer, ToServer!Spec
=============================================================================
