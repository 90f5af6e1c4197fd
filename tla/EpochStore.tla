----------------------------- MODULE EpochStore -----------------------------
(***************************************************************************)
(* One device of a CA build, its sessions and the one number it keeps in   *)
(* persistent memory: the epoch below which a certificate is revoked.      *)
(*                                                                         *)
(* A session loads the epoch when it starts (tlsi_epoch_init), judges the  *)
(* certificate against what it loaded (epoch_check) and raises the store   *)
(* when the handshake is done (hsa_epoch_commit).  A ticket carries the    *)
(* epoch its session held when it arrived, and stands for the certificate  *)
(* at the start of its chain of resumptions: the model remembers that      *)
(* certificate's epoch beside it.                                          *)
(*                                                                         *)
(* Between the load and the store other sessions run, and the device may   *)
(* restart, losing every session and keeping the store and the tickets.    *)
(***************************************************************************)
EXTENDS Naturals

CONSTANTS
    Sessions,    \* the sessions a device may have open
    EpochBound,  \* CH_EPOCH_BOUND
    EpochMax,    \* CH_EPOCH_MAX
    Overlap      \* FALSE when the caller runs one session at a time

ASSUME StoreAssumption ==
    EpochBound \in Nat \ {0} /\ EpochMax \in Nat /\ Overlap \in BOOLEAN

VARIABLES
    store,     \* the epoch in the device's memory
    sess,      \* the sessions
    tickets    \* the tickets kept, each with its epoch and its chain's first leaf

storeVars == <<store, sess, tickets>>

Epochs == 0..EpochMax

\* leaf is the epoch of the certificate the session stands on: the one it was
\* shown, or the one its ticket's chain began with
Idle == [phase |-> "idle", psk |-> FALSE, epoch |-> 0, leaf |-> 0]

StoreInit == store \in Epochs /\ sess = [x \in Sessions |-> Idle] /\ tickets = {}

MayStart(x) ==
    sess[x].phase = "idle" /\ (Overlap \/ \A y \in Sessions : sess[y].phase = "idle")

\* tlsi_epoch_init without a ticket; a load that fails starts nothing
Connect(x) ==
    /\ MayStart(x)
    /\ sess' = [sess EXCEPT ![x] =
                   [phase |-> "begun", psk |-> FALSE, epoch |-> store, leaf |-> 0]]
    /\ UNCHANGED <<store, tickets>>

\* the ticket rule of tlsi_epoch_init: a bump retires every earlier ticket
TicketAllowed(k) == k.epoch >= store

\* tlsi_epoch_init with a ticket, which the server then takes: no certificate comes
Resume(x, k) ==
    /\ MayStart(x) /\ TicketAllowed(k)
    /\ sess' = [sess EXCEPT ![x] =
                   [phase |-> "judged", psk |-> TRUE, epoch |-> store, leaf |-> k.leaf]]
    /\ UNCHANGED <<store, tickets>>

\* Mutant: a certificate below the loaded epoch passes
LeafAllowed_Low(x, leaf) == leaf <= sess[x].epoch + EpochBound

\* Mutant: nothing bounds how far ahead a certificate may be
LeafAllowed_Far(x, leaf) == sess[x].epoch <= leaf

LeafAllowed(x, leaf) == sess[x].epoch <= leaf /\ leaf <= sess[x].epoch + EpochBound

\* Mutant: the epoch is stored with the verdict, before the server has proved itself
epoch_check_Stores(x, leaf) ==
    /\ sess[x].phase = "begun"
    /\ sess' = [sess EXCEPT ![x] =
                   IF LeafAllowed(x, leaf) THEN [@ EXCEPT !.phase = "judged", !.leaf = leaf]
                                           ELSE Idle]
    /\ store' = leaf
    /\ UNCHANGED tickets

\* epoch_check on the certificate the server shows; a refusal ends the session
epoch_check(x, leaf) ==
    /\ sess[x].phase = "begun"
    /\ sess' = [sess EXCEPT ![x] =
                   IF LeafAllowed(x, leaf) THEN [@ EXCEPT !.phase = "judged", !.leaf = leaf]
                                           ELSE Idle]
    /\ UNCHANGED <<store, tickets>>

\* a PSK handshake filled no leaf, and nothing but a rise is stored
Raises(x) == ~sess[x].psk /\ sess[x].leaf > sess[x].epoch

\* hsa_epoch_commit, once the Finished verified: the session keeps the raised
\* epoch even when the store failed
hsa_epoch_commit(x, failed) ==
    /\ sess[x].phase = "judged"
    /\ sess' = [sess EXCEPT ![x].phase = "open",
                            ![x].epoch = IF Raises(x) THEN sess[x].leaf ELSE @]
    /\ store' = IF Raises(x) /\ ~failed THEN sess[x].leaf ELSE store
    /\ UNCHANGED tickets

\* what handle_ticket writes: the epoch the session holds
TicketEpoch(x) == sess[x].epoch

\* handle_ticket on an open session; the caller keeps the ticket
handle_ticket(x) ==
    /\ sess[x].phase = "open"
    /\ tickets' = tickets \cup {[epoch |-> TicketEpoch(x), leaf |-> sess[x].leaf]}
    /\ UNCHANGED <<store, sess>>

\* the handshake fails, or the caller closes the session
EndSession(x) ==
    /\ sess[x].phase # "idle"
    /\ sess' = [sess EXCEPT ![x] = Idle]
    /\ UNCHANGED <<store, tickets>>

Restart ==
    /\ sess' = [x \in Sessions |-> Idle]
    /\ UNCHANGED <<store, tickets>>

StoreNext ==
    \/ \E x \in Sessions :
          \/ Connect(x)
          \/ \E k \in tickets : Resume(x, k)
          \/ \E leaf \in Epochs : epoch_check(x, leaf)
          \/ \E failed \in BOOLEAN : hsa_epoch_commit(x, failed)
          \/ handle_ticket(x)
          \/ EndSession(x)
    \/ Restart

StoreSpec == StoreInit /\ [][StoreNext]_storeVars

-----------------------------------------------------------------------------
(* What the epoch gives a device *)

Phases == {"idle", "begun", "judged", "open"}

\* The store and every session hold an allowed epoch: CH_EPOCH_MAX is never
\* passed, which is what lets the next load accept what this one stored.
StoreTypeOK ==
    /\ store \in Epochs
    /\ sess \in [Sessions -> [phase : Phases, psk : BOOLEAN, epoch : Epochs, leaf : Epochs]]
    /\ tickets \subseteq [epoch : Epochs, leaf : Epochs]

\* A session that stands, by a certificate or by a chain of resumptions however
\* long, stands on a certificate that was not revoked when the session loaded
\* the epoch; with other sessions, failed stores and restarts at any point.
StandsOnGoodLeaf ==
    \A x \in Sessions : sess[x].phase \in {"judged", "open"} => sess[x].epoch <= sess[x].leaf

\* No ticket promises more than the certificate at the start of its chain.
TicketsPromiseLess == \A k \in tickets : k.epoch <= k.leaf

\* INV-21: "`ch_tls.epoch` never decreases within or across sessions".  Between
\* two starts the number the next session will load does not go down.
StoreOnlyRises == [][store' >= store]_storeVars

\* A handshake raises the store by at most CH_EPOCH_BOUND, so one certificate
\* dated far ahead cannot lock a device out of its fleet.
BoundedRise == [][store' <= store + EpochBound]_storeVars

=============================================================================
