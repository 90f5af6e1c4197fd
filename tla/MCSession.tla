---------------------------- MODULE MCSession ----------------------------
(***************************************************************************)
(* Small instances of Session for TLC, with one history variable.          *)
(***************************************************************************)
EXTENDS Session

\* Every run of at most one message, and runs of two around a KeyUpdate.
AllRuns ==
    {<<>>} \cup {<<m>> : m \in Msg}
      \cup {<<"ticket", "ku1">>, <<"ku1", "ticket">>, <<"ticket", "other">>}

\* The runs that move keys.
KeyRuns == {<<>>, <<"ticket">>, <<"ku0">>, <<"ku1">>}

VARIABLE idle  \* the records in a row, of one call, that added no bytes

\* No byte of data, of a message or of an alert the session acts on.
AddsNothing(c) ==
    \/ c.kind = "data" /\ c.len = 0
    \/ c.kind = "handshake" /\ c.msgs = <<>> /\ ~c.open
    \/ c.kind = "alert" /\ c.description = "user_canceled"

Count(c) == idle' = IF AddsNothing(c) THEN idle + 1 ELSE 0

MCInit == Init /\ idle = 0

Start == idle' = 0
Keep == UNCHANGED idle

MCNext ==
    \/ \E n \in 0..MaxWrite : tls_write(n) /\ Start
    \/ \E n \in 0..(PeerLen + 1) : tls_read(n) /\ Start
    \/ tls_close /\ Start
    \/ \E d \in {"record_overflow", "close_notify"}, sent \in BOOLEAN : tls_fail(d, sent) /\ Start
    \/ \E sent \in BOOLEAN : key_update_before_record(sent) /\ Keep
    \/ \E sent \in BOOLEAN : tls_write_record(sent) /\ Keep
    \/ ReturnData /\ Keep
    \/ QuietCapReached /\ Keep
    \/ \E c \in PeerContents : dispatch_one_record(c) /\ Count(c)
    \/ \E c \in PeerContents : open_fragment(c) /\ Count(c)
    \/ Unopened /\ Keep
    \/ Unprotected /\ Keep
    \/ ReadFails /\ Keep
    \/ NoRoom /\ Keep
    \/ Again /\ Keep

MCSpec == MCInit /\ [][MCNext]_<<vars, idle>>

\* session.h: "Receive loops tolerate this many consecutive records that add no
\* bytes before failing the session."  tls_read has one such loop and drain_run
\* another, each with a count of its own, and a record may move a call from one
\* to the other; still no call opens more than QuietCap such records in a row,
\* and one that opened so many returns.
QuietCapHolds ==
    /\ idle <= QuietCap
    /\ idle = QuietCap => call.op = "none" \/ call.quiet = QuietCap
=============================================================================
