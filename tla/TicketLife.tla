----------------------------- MODULE TicketLife -----------------------------
(***************************************************************************)
(* A chain of resumptions: servers that share a ticket key, the sessions   *)
(* they accept, and a client that keeps every ticket it is given           *)
(* (srv_resume.c for the servers, handshake_post.c and handshake_post.h    *)
(* for the client).                                                        *)
(*                                                                         *)
(* A session judges everything at the one instant its init call read.      *)
(* Clocks are the callers': each session may read any instant, so servers  *)
(* may disagree and a clock may be set back.  `full` is a history value,   *)
(* the instant of the full handshake the chain of a ticket began with.     *)
(***************************************************************************)
EXTENDS SrvSelect

CONSTANTS
    Instants,      \* bound: the instants a clock may show, 0 for a caller without one
    LifetimeMax    \* CH_TICKET_LIFETIME_MAX

ASSUME TicketAssumption == Instants \subseteq Nat /\ LifetimeMax \in Nat

VARIABLES
    srv,      \* the server's session of the connection in hand
    kept,     \* the tickets the client keeps
    offered   \* the ticket the client offers on it, << >> for none

chainVars == <<srv, kept, offered>>

NoSession == [phase |-> "none", now |-> 0, psk |-> FALSE, auth |-> 0, full |-> 0]

ChainInit == srv = NoSession /\ kept = {} /\ offered = << >>

\* the client's entry without a ticket, and the server's init call
ConnectFull(now) ==
    /\ srv.phase = "none"
    /\ srv' = [NoSession EXCEPT !.phase = "hello", !.now = now]
    /\ offered' = << >> /\ UNCHANGED kept

\* Mutant: the ticket's own lifetime is not looked at
ticket_age_ok_Max(k, age_ms) == age_ms <= LifetimeMax * 1000

\* hspost_ticket_age_ok, after hspost_present_ticket refused a lifetime of 0; the
\* age is the caller's to measure
ticket_age_ok(k, age_ms) ==
    /\ k.lifetime # 0
    /\ age_ms <= (IF k.lifetime < LifetimeMax THEN k.lifetime ELSE LifetimeMax) * 1000

\* the client's entry with a ticket
Offer(now, k, age_ms) ==
    /\ srv.phase = "none" /\ ticket_age_ok(k, age_ms)
    /\ srv' = [NoSession EXCEPT !.phase = "hello", !.now = now]
    /\ offered' = << [ticket |-> k, age_ms |-> age_ms] >> /\ UNCHANGED kept

\* srv_select_auth: the ticket resumes when it is fresh at the session's instant,
\* and the certificate proves the server again otherwise
Select ==
    /\ srv.phase = "hello"
    /\ srv' = IF offered # << >> /\ srv.now # 0 /\ ticket_fresh(offered[1].ticket.auth, srv.now)
            THEN [srv EXCEPT !.phase = "open", !.psk = TRUE, !.auth = offered[1].ticket.auth,
                           !.full = offered[1].ticket.full]
            ELSE [srv EXCEPT !.phase = "open", !.full = srv.now]
    /\ UNCHANGED <<kept, offered>>

\* srv_send_new_session_ticket, and the client keeps what it is given
Issue ==
    LET auth == AuthSeconds(srv.psk, srv.auth, srv.now)
        left == LifetimeLeft(auth, srv.now)
    IN  /\ srv.phase = "open" /\ srv.now # 0 /\ left # 0
        /\ kept' = kept \cup {[auth |-> auth, lifetime |-> left, issued |-> srv.now, full |-> srv.full]}
        /\ UNCHANGED <<srv, offered>>

Close == srv.phase # "none" /\ srv' = NoSession /\ offered' = << >> /\ UNCHANGED kept

ChainNext ==
    \/ \E now \in Instants : ConnectFull(now)
    \/ \E now \in Instants, k \in kept, age \in Instants : Offer(now, k, age * 1000)
    \/ Select \/ Issue \/ Close

ChainSpec == ChainInit /\ [][ChainNext]_chainVars

-----------------------------------------------------------------------------
(* How long an authentication lasts *)

TicketType == [auth : Nat, lifetime : Nat, issued : Nat, full : Nat]

\* The sessions and the tickets are of their kinds.
ChainTypeOK ==
    /\ srv \in [phase : {"none", "hello", "open"}, now : Nat, psk : BOOLEAN, auth : Nat, full : Nat]
    /\ kept \subseteq TicketType
    /\ offered = << >> \/ (offered[1].ticket \in kept /\ offered[1].age_ms \in Nat)

\* However many resumptions lie between, a session that resumes began within one
\* lifetime of the full handshake its chain started with, on the clocks the two
\* sessions read; none resumes on a clock that shows an earlier instant.
ResumedInTime == srv.psk => srv.full <= srv.now /\ srv.now <= srv.full + TicketLifetime

\* What a ticket promises its client ends exactly when the servers stop taking it:
\* an instant of a chain moves the end neither out nor in.
PromiseIsKept ==
    \A k \in kept : k.lifetime # 0 /\ k.issued + k.lifetime = k.full + TicketLifetime

\* The client's rule and the server's agree: a ticket its client may offer is one
\* the server takes, whenever the server's clock moved on by no more than the age
\* the client measured.
OffersAreTaken ==
    srv.phase = "open" /\ offered # << >> =>
        LET k == offered[1].ticket
        IN  srv.now >= k.issued /\ (srv.now - k.issued) * 1000 <= offered[1].age_ms => srv.psk

=============================================================================
