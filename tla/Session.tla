------------------------------ MODULE Session ------------------------------
(***************************************************************************)
(* A connected TCP session, in either role and on either TCP transport:    *)
(* ch_read, ch_write, ch_close and ch_fail over the record layer           *)
(* (src/src/tls.c, tls_write.c, session.c, handshake_post.c, io.c).        *)
(*                                                                         *)
(* One process runs the session, and a call runs to its return before the  *)
(* next one starts; `call` is the call in progress.  A call that moves     *)
(* several records takes one step per record, because the peer and the     *)
(* network move between them.  The peer is any holder of the keys: it may  *)
(* send every record the code tells apart, in any order.                   *)
(*                                                                         *)
(* Plaintext bytes are named by their position in the stream of their      *)
(* sender, so a data record is the interval it carries.                    *)
(***************************************************************************)
EXTENDS Record, Sequences

CONSTANTS
    Server,         \* TRUE in a server's session (ch_tls.server)
    Nonblocking,    \* TRUE on TRANSPORT=tcp-nonblocking
    LimitSent,      \* TRUE when this side sent a record_size_limit (ch_tls.limit_sent)
    PlaintextMax,   \* record_plaintext_max: the most plaintext a sent record carries
    SendEpochsMax,  \* HSPOST_SEND_EPOCHS_MAX, 2^48 - 1
    RunMax,         \* CH_KEY_UPDATE_RUN_MAX, 16
    QuietCap,       \* CH_QUIET_CAP, 32
    FillCap,        \* the fragments of one message that fill cfg.buf
    PeerRuns,       \* the runs of whole messages a handshake record of the peer carries
    PeerAlerts,     \* the fatal alerts the peer sends
    PeerLen,        \* the most plaintext in a data record of the peer
    MaxWrite,       \* bound: the bytes the application writes in all
    MaxOpened       \* bound: the records of the peer that open

\* The post-handshake messages the code tells apart.  "ku0" and "ku1" are a
\* KeyUpdate by its request_update.
Msg == {"ticket", "ticket_malformed", "ku0", "ku1", "ku_length", "ku_value", "other"}

\* The fatal alerts of a connected session.
Alerts == {"unexpected_message", "bad_record_mac", "record_overflow", "decode_error",
           "illegal_parameter", "internal_error"}

ASSUME SessionAssumption ==
    /\ Server \in BOOLEAN /\ Nonblocking \in BOOLEAN /\ LimitSent \in BOOLEAN
    /\ PlaintextMax \in Nat \ {0} /\ PeerLen \in Nat
    /\ SendEpochsMax \in Nat /\ RunMax \in Nat /\ QuietCap \in Nat
    /\ RunMax < QuietCap             \* the _Static_assert above tls_read
    /\ FillCap \in Nat \ {0}
    /\ PeerRuns \subseteq Seq(Msg) /\ PeerAlerts \subseteq Alerts
    /\ MaxWrite \in Nat /\ MaxOpened \in Nat

VARIABLES
    s,        \* the session, ch_tls_priv
    call,     \* the public call in progress
    ret,      \* what the last call returned
    out,      \* every record this side sealed, in order
    written,  \* the bytes of application data in out
    opened,   \* the number of the peer's records that opened
    rx,       \* the bytes ch_read returned, in order
    asked     \* Len(out) whenever a KeyUpdate that is owed an answer was read

vars == <<s, call, ret, out, written, opened, rx, asked>>

(***************************************************************************)
(* What a record carries.                                                  *)
(***************************************************************************)
Data(from, len) == [kind |-> "data", from |-> from, len |-> len]
\* Whole messages, and whether the first bytes of another message follow them.
Handshake(msgs, open) == [kind |-> "handshake", msgs |-> msgs, open |-> open]
Alert(description) == [kind |-> "alert", description |-> description]

KeyUpdate == Handshake(<<"ku0">>, FALSE)
NewSessionTicket == Handshake(<<"ticket">>, FALSE)

IsData(c) == c.kind = "data"
IsKeyUpdate(c) == c.kind = "handshake" /\ c.msgs \in {<<"ku0">>, <<"ku1">>} /\ ~c.open
IsFatal(c) == c.kind = "alert" /\ c.description \notin {"close_notify", "user_canceled"}

Contents ==
    [kind : {"data"}, from : Nat, len : Nat]
      \cup [kind : {"handshake"}, msgs : Seq(Msg), open : BOOLEAN]
      \cup [kind : {"alert"}, description : Alerts \cup {"close_notify"}]

Sealed(d, c) == [gen |-> d.gen, seq |-> d.seq, content |-> c]

NoCall == [op |-> "none", n |-> 0, quiet |-> 0, empty |-> 0]
NoData == [from |-> 0, len |-> 0]

(***************************************************************************)
(* session.c: the alert, the wipe and the failure funnel.  A connected     *)
(* session has left CH_ST_START, so no alert goes out in the clear.        *)
(***************************************************************************)
tlsi_send_alert(t, o, description) ==
    IF t.keys /\ rec_seal_ok(t.wr) THEN Append(o, Sealed(t.wr, Alert(description))) ELSE o

\* Mutant: a wipe that leaves the session believing it has keys.
tlsi_wipe_KeysFlagStays(t) == [t EXCEPT !.rd = Wiped, !.wr = Wiped, !.pt = NoData]

tlsi_wipe(t) ==
    [t EXCEPT !.rd = Wiped, !.wr = Wiped, !.keys = FALSE, !.pt = NoData]

\* Mutant: a failure that answers the peer's fatal alert with one of its own.
tlsi_fail_Answers(t, o, description, result) ==
    /\ s' = [tlsi_wipe(t) EXCEPT !.state = "FAILED", !.alert_sent = description]
    /\ out' = tlsi_send_alert(t, o, description)
    /\ ret' = result
    /\ call' = NoCall
\* t and o are the session and its records when the call meets the failure,
\* and result is what the call returns.
tlsi_fail(t, o, description, result) ==
    LET silent == t.alert_received # "none" IN
    /\ s' = [tlsi_wipe(t) EXCEPT !.state = "FAILED",
                                 !.alert_sent = IF silent THEN t.alert_sent ELSE description]
    /\ out' = IF silent THEN o ELSE tlsi_send_alert(t, o, description)
    /\ ret' = result
    /\ call' = NoCall

(***************************************************************************)
(* tls_write.c.                                                            *)
(***************************************************************************)

\* Mutant: data records up to and with the key's last sequence number.
records_before_key_update_OneLate(t) ==
    IF t.key_update_owed THEN 0
    ELSE IF ~AesGcm THEN SeqMax
    ELSE IF t.wr.seq < RecordsMax THEN RecordsMax - t.wr.seq ELSE 0
\* Mutant: the answer waits for the key's ceiling.
records_before_key_update_NotOwed(t) ==
    IF ~AesGcm THEN SeqMax
    ELSE IF t.wr.seq < RecordsMax - 1 THEN RecordsMax - 1 - t.wr.seq ELSE 0

\* A ChaCha20-Poly1305 key has no usage limit, so it answers SIZE_MAX.
records_before_key_update(t) ==
    IF t.key_update_owed THEN 0
    ELSE IF ~AesGcm THEN SeqMax
    ELSE IF t.wr.seq < RecordsMax - 1 THEN RecordsMax - 1 - t.wr.seq ELSE 0

\* Mutant: the answer stays owed after it was sent.
hspost_send_key_update_StillOwed(t) ==
    [t EXCEPT !.wr = rec_dir_update(t.wr), !.send_epochs = t.send_epochs + 1]

\* The KeyUpdate was sealed and sent: the write key moves to the next one.
hspost_send_key_update(t) ==
    [t EXCEPT !.wr = rec_dir_update(t.wr),
              !.send_epochs = t.send_epochs + 1,
              !.key_update_owed = FALSE]

\* Mutant: one KeyUpdate past the cap.
EpochsSpent_OneLate(t) == t.send_epochs > SendEpochsMax

\* No KeyUpdate is left to replace the write key (RFC 9846 4.7.3).
EpochsSpent(t) == t.send_epochs >= SendEpochsMax

\* ch_write of n bytes.  A write of no bytes sends nothing.
tls_write(n) ==
    /\ call = NoCall
    /\ \/ /\ s.state # "CONNECTED"
          /\ ret' = "EPROTO"
          /\ call' = call
       \/ /\ s.state = "CONNECTED" /\ n = 0
          /\ ret' = "OK"
          /\ call' = call
       \/ /\ s.state = "CONNECTED" /\ n > 0
          /\ written + n <= MaxWrite
          /\ call' = [NoCall EXCEPT !.op = "write", !.n = n]
          /\ ret' = ret
    /\ UNCHANGED <<s, out, written, opened, rx, asked>>

\* The head of the loop of tls_write_parts, when the write key has no data
\* record left.  sent says whether cfg.send took the record.
key_update_before_record(sent) ==
    /\ call.op = "write"
    /\ records_before_key_update(s) = 0
    /\ LET o == Append(out, Sealed(s.wr, KeyUpdate)) IN
       \/ /\ EpochsSpent(s)
          /\ tlsi_fail(s, out, "internal_error", "ECAP")
       \/ /\ ~EpochsSpent(s) /\ ~rec_seal_ok(s.wr)
          /\ tlsi_fail(s, out, "internal_error", "EIO")
       \/ /\ ~EpochsSpent(s) /\ rec_seal_ok(s.wr) /\ ~sent
          /\ tlsi_fail([s EXCEPT !.wr = rec_seal(s.wr)], o, "internal_error", "EIO")
       \/ /\ ~EpochsSpent(s) /\ rec_seal_ok(s.wr) /\ sent
          /\ s' = hspost_send_key_update(s)
          /\ out' = o
          /\ UNCHANGED <<call, ret>>
    /\ UNCHANGED <<written, opened, rx, asked>>

\* The body of that loop: one data record of at most PlaintextMax bytes.
tls_write_record(sent) ==
    /\ call.op = "write"
    /\ records_before_key_update(s) # 0
    /\ LET len == IF call.n < PlaintextMax THEN call.n ELSE PlaintextMax
           t == [s EXCEPT !.wr = rec_seal(s.wr)]
           o == Append(out, Sealed(s.wr, Data(written, len))) IN
       \/ /\ ~rec_seal_ok(s.wr)
          /\ tlsi_fail(s, out, "internal_error", "ECAP")
          /\ UNCHANGED written
       \/ /\ rec_seal_ok(s.wr) /\ ~sent
          /\ tlsi_fail(t, o, "internal_error", "EIO")
          /\ written' = written + len
       \/ /\ rec_seal_ok(s.wr) /\ sent
          /\ s' = t
          /\ out' = o
          /\ written' = written + len
          /\ call' = IF call.n = len THEN NoCall ELSE [call EXCEPT !.n = call.n - len]
          /\ ret' = IF call.n = len THEN "OK" ELSE ret
    /\ UNCHANGED <<opened, rx, asked>>

\* ch_fail, which takes an error alert.  sent says whether cfg.send took it.
tls_fail(description, sent) ==
    /\ call = NoCall
    /\ \/ /\ description \notin Alerts
          /\ ret' = "EINVAL"
          /\ UNCHANGED <<s, call, out>>
       \/ /\ description \in Alerts /\ s.state # "CONNECTED"
          /\ ret' = "EPROTO"
          /\ UNCHANGED <<s, call, out>>
       \/ /\ description \in Alerts /\ s.state = "CONNECTED"
          /\ tlsi_fail(s, out, description,
                       IF ~rec_seal_ok(s.wr) THEN "ECAP" ELSE IF sent THEN "OK" ELSE "EIO")
    /\ UNCHANGED <<written, opened, rx, asked>>

\* ch_close, in every state.
tls_close ==
    /\ call = NoCall
    /\ out' = tlsi_send_alert(s, out, "close_notify")
    /\ s' = [tlsi_wipe(s) EXCEPT !.state = "CLOSED"]
    /\ UNCHANGED <<call, ret, written, opened, rx, asked>>

(***************************************************************************)
(* tls.c and handshake_post.c: ch_read.                                    *)
(***************************************************************************)
tls_read(n) ==
    /\ call = NoCall
    /\ \/ /\ n = 0
          /\ ret' = "EINVAL"
          /\ call' = call
       \/ /\ n > 0 /\ (s.state = "CLOSED" \/ (s.state = "CONNECTED" /\ s.read_closed))
          /\ ret' = "0"
          /\ call' = call
       \/ /\ n > 0 /\ s.state = "FAILED"
          /\ ret' = "EPROTO"
          /\ call' = call
       \/ /\ n > 0 /\ s.state = "CONNECTED" /\ ~s.read_closed
          /\ call' = [NoCall EXCEPT !.op = "read", !.n = n]
          /\ ret' = ret
    /\ UNCHANGED <<s, out, written, opened, rx, asked>>

\* Mutant: a read that leaves pt_off where it was.
Unread_Again(pt, take) == pt

\* The plaintext left after a read of take bytes: pt_off advances.
Unread(pt, take) == [from |-> pt.from + take, len |-> pt.len - take]

\* The loop of tls_read meets unread plaintext and returns up to n bytes of it.
ReturnData ==
    /\ call.op = "read" /\ call.quiet < QuietCap
    /\ s.pt.len > 0
    /\ LET take == IF s.pt.len < call.n THEN s.pt.len ELSE call.n IN
       /\ rx' = rx \o [i \in 1..take |-> s.pt.from + (i - 1)]
       /\ s' = [s EXCEPT !.pt = Unread(s.pt, take)]
    /\ ret' = "DATA"
    /\ call' = NoCall
    /\ UNCHANGED <<out, written, opened, asked>>

\* The loop ended: the cap on records that carry no data.
QuietCapReached ==
    /\ call.op = "read" /\ call.quiet = QuietCap
    /\ tlsi_fail(s, out, "unexpected_message", "EPROTO")
    /\ UNCHANGED <<written, opened, rx, asked>>

\* The loop asks for the next record.
Reading == call.op = "read" /\ call.quiet < QuietCap /\ s.pt.len = 0

\* Mutant: a record that gave no data is not counted.
NextIteration_NoCount == call' = [call EXCEPT !.empty = 0] /\ UNCHANGED <<out, ret>>

NextIteration ==
    /\ call' = [call EXCEPT !.quiet = call.quiet + 1, !.empty = 0]
    /\ UNCHANGED <<out, ret>>

\* Mutant: the peer's close_notify leaves the read key in memory.
close_read_side_KeepsKey(t) == [t EXCEPT !.pt = NoData, !.read_closed = TRUE]

close_read_side(t) == [t EXCEPT !.rd = Wiped, !.pt = NoData, !.read_closed = TRUE]

\* The answer to an alert record that is not a closure alert the session takes.
hsr_refuse_alert(t, description) ==
    LET closure == description \in {"malformed", "close_notify", "user_canceled"} IN
    tlsi_fail(IF closure THEN t ELSE [t EXCEPT !.alert_received = description], out,
              IF description = "malformed" THEN "decode_error" ELSE "unexpected_message",
              "EPROTO")

read_alert(t, description) ==
    \/ /\ description = "close_notify"
       /\ s' = close_read_side(t)
       /\ ret' = "0"
       /\ call' = NoCall
       /\ UNCHANGED out
    \/ /\ description = "user_canceled"
       /\ s' = t
       /\ NextIteration
    \/ /\ description \notin {"close_notify", "user_canceled"}
       /\ hsr_refuse_alert(t, description)

\* What one whole message answers with, NoRefusal when it is taken.  ends says
\* that the message ends its record.  The refusals of a KeyUpdate come in the
\* order of the code and all come before the rekey.
NoRefusal == <<"none", "OK">>

take_key_update(t, m, ends) ==
    IF m = "ku_length" THEN <<"decode_error", "EPROTO">>
    ELSE IF m = "ku_value" THEN <<"illegal_parameter", "EPROTO">>
    ELSE IF ~ends THEN <<"unexpected_message", "EPROTO">>
    ELSE IF t.key_update_run >= RunMax THEN <<"unexpected_message", "KEY_UPDATE_LIMIT">>
    ELSE NoRefusal

take_ticket(t, m) ==
    IF Server THEN <<"unexpected_message", "EPROTO">>
    ELSE IF m = "ticket_malformed" THEN <<"decode_error", "EPROTO">>
    ELSE NoRefusal

take_message(t, m, ends) ==
    CASE m \in {"ticket", "ticket_malformed"} -> take_ticket(t, m)
      [] m \in {"ku0", "ku1", "ku_length", "ku_value"} -> take_key_update(t, m, ends)
      [] OTHER -> <<"unexpected_message", "EPROTO">>

\* A KeyUpdate is taken only as the last message of its record and a ticket
\* leaves the session alone, so every message of a record meets the session the
\* record found, and the first refusal is the record's.
Refusals(t, c) ==
    {i \in 1..Len(c.msgs) :
        take_message(t, c.msgs[i], i = Len(c.msgs) /\ ~c.open) # NoRefusal}

\* The refusal drain_run meets first, as a set: of one member when there is a refusal.
FirstRefusal(t, c) ==
    {take_message(t, c.msgs[i], i = Len(c.msgs) /\ ~c.open) :
        i \in {k \in Refusals(t, c) : \A j \in Refusals(t, c) : k <= j}}

OwesAnswer(t, m) == m = "ku1" /\ t.send_epochs < SendEpochsMax

handle_key_update(t, m) ==
    [t EXCEPT !.key_update_run = t.key_update_run + 1,
              !.rd = rec_dir_update(t.rd),
              !.key_update_owed = IF OwesAnswer(t, m) THEN TRUE ELSE t.key_update_owed]

\* One pass of the loop of drain_run, over the bytes post_fill counts and a
\* handshake record c after them.  With a message begun and not ended, a record
\* of no bytes is an empty fragment.
hspost_read(t, c) ==
    LET fragment == t.post_fill > 0 /\ c.msgs = <<>>
        last == IF c.msgs = <<>> THEN "none" ELSE c.msgs[Len(c.msgs)]
        fill == IF ~c.open THEN 0 ELSE IF fragment THEN t.post_fill + 1 ELSE 1
        u == IF last \in {"ku0", "ku1"} THEN handle_key_update(t, last) ELSE t IN
    \/ /\ \E r \in FirstRefusal(t, c) : tlsi_fail(t, out, r[1], r[2])
       /\ UNCHANGED asked
    \/ /\ fragment /\ ~c.open
       /\ UNCHANGED asked
       /\ \/ /\ call.empty + 1 = QuietCap
             /\ tlsi_fail(t, out, "unexpected_message", "EPROTO")
          \/ /\ call.empty + 1 < QuietCap
             /\ s' = t
             /\ call' = [call EXCEPT !.empty = call.empty + 1]
             /\ UNCHANGED <<out, ret>>
    \/ /\ Refusals(t, c) = {} /\ ~(fragment /\ ~c.open)
       /\ s' = [u EXCEPT !.post_fill = fill]
       /\ asked' = IF OwesAnswer(t, last) THEN asked \cup {Len(out)} ELSE asked
       /\ \/ fill = 0 /\ NextIteration
          \/ fill > 0 /\ UNCHANGED <<call, out, ret>>

\* Mutant: any data record ends a run of KeyUpdates.
RunAfterData_Empty(t, len) == 0

\* A data record of one byte or more ends a run of KeyUpdates.
RunAfterData(t, len) == IF len > 0 THEN 0 ELSE t.key_update_run

\* The next record of the peer opens.
Opening ==
    /\ Reading
    /\ s.rd.seq # SeqMax
    /\ opened < MaxOpened
    /\ opened' = opened + 1
    /\ UNCHANGED <<written, rx>>

dispatch_one_record(c) ==
    /\ Opening /\ s.post_fill = 0
    /\ LET t == [s EXCEPT !.rd = rec_open(s.rd)] IN
       \/ /\ c.kind = "data"
          /\ s' = [t EXCEPT !.pt = [from |-> c.from, len |-> c.len],
                            !.key_update_run = RunAfterData(t, c.len)]
          /\ NextIteration
          /\ UNCHANGED asked
       \/ /\ c.kind = "handshake"
          /\ hspost_read(t, c)
       \/ /\ c.kind = "alert"
          /\ read_alert(t, c.description)
          /\ UNCHANGED asked
       \/ /\ c.kind = "other"
          /\ tlsi_fail(t, out, "unexpected_message", "EPROTO")
          /\ UNCHANGED asked

\* The next record while a message waits for its next fragment.
open_fragment(c) ==
    /\ Opening /\ s.post_fill \in 1..(FillCap - 1)
    /\ LET t == [s EXCEPT !.rd = rec_open(s.rd)] IN
       \/ /\ c.kind = "handshake"
          /\ hspost_read(t, c)
       \/ /\ c.kind = "alert"
          /\ hsr_refuse_alert(t, c.description)
          /\ UNCHANGED asked
       \/ /\ c.kind \in {"data", "other"}
          /\ tlsi_fail(t, out, "unexpected_message", "EPROTO")
          /\ UNCHANGED asked

\* A protected record that rec_open refuses: sealed under another key or at
\* another sequence number, altered, or past the last sequence number.
Unopened ==
    /\ Reading /\ s.post_fill < FillCap
    /\ tlsi_fail(s, out, "bad_record_mac", "EAUTH")
    /\ UNCHANGED <<written, opened, rx, asked>>

\* A record whose outer type is not application_data.
Unprotected ==
    /\ Reading /\ s.post_fill < FillCap
    /\ IF s.post_fill = 0 THEN tlsi_fail(s, out, "unexpected_message", "EPROTO")
                          ELSE tlsi_fail(s, out, "bad_record_mac", "EAUTH")
    /\ UNCHANGED <<written, opened, rx, asked>>

\* What io_read_record refuses, with the alert its caller sends: a body longer
\* than its type allows, a body of no bytes, a record longer than cfg.buf, a
\* recv that failed, a record longer than the room a fragment left.
io_read_record_errors ==
    LET default == IF s.post_fill = 0 THEN "decode_error" ELSE "unexpected_message" IN
    {<<"record_overflow", "EPROTO">>, <<default, "EPROTO">>, <<default, "EIO">>,
     <<IF LimitSent THEN "record_overflow" ELSE "internal_error", "ECAP">>}
      \cup (IF s.post_fill = 0 THEN {} ELSE {<<default, "ECAP">>})

ReadFails ==
    /\ Reading /\ s.post_fill < FillCap
    /\ \E e \in io_read_record_errors : tlsi_fail(s, out, e[1], e[2])
    /\ UNCHANGED <<written, opened, rx, asked>>

\* A message that fills cfg.buf leaves io_read_record no room to call recv.
NoRoom ==
    /\ Reading /\ s.post_fill = FillCap
    /\ tlsi_fail(s, out, "unexpected_message", "ECAP")
    /\ UNCHANGED <<written, opened, rx, asked>>

\* recv has no record yet: ch_read returns CH_TCP_AGAIN, and the fragments of a
\* message wait in cfg.buf.
Again ==
    /\ Nonblocking /\ Reading /\ s.post_fill < FillCap
    /\ ret' = "AGAIN"
    /\ call' = NoCall
    /\ UNCHANGED <<s, out, written, opened, rx, asked>>

(***************************************************************************)
(* The specification.                                                      *)
(***************************************************************************)

\* A handshake ends with both directions at the first application key.  A
\* server may have sent one NewSessionTicket under its own.
Init ==
    /\ \E ticket \in IF Server THEN BOOLEAN ELSE {FALSE} :
          /\ s = [state |-> "CONNECTED", keys |-> TRUE, rd |-> rec_dir_init,
                  wr |-> IF ticket THEN rec_seal(rec_dir_init) ELSE rec_dir_init,
                  key_update_owed |-> FALSE, key_update_run |-> 0, send_epochs |-> 0,
                  read_closed |-> FALSE, alert_sent |-> "none", alert_received |-> "none",
                  pt |-> NoData, post_fill |-> 0]
          /\ out = IF ticket THEN <<Sealed(rec_dir_init, NewSessionTicket)>> ELSE <<>>
    /\ call = NoCall /\ ret = "OK"
    /\ written = 0 /\ opened = 0 /\ rx = <<>> /\ asked = {}

\* Plaintext of the peer that arrived, read or not.
Received == Len(rx) + s.pt.len

\* Everything the keys let the peer send next.
PeerContents ==
    [kind : {"data"}, from : {Received}, len : 0..PeerLen]
      \cup [kind : {"handshake"}, msgs : PeerRuns, open : BOOLEAN]
      \cup [kind : {"alert"},
            description : PeerAlerts \cup {"close_notify", "user_canceled", "malformed"}]
      \cup [kind : {"other"}]

\* A step of the application, which starts a call or makes one of one step.
Calls ==
    \/ \E n \in 0..MaxWrite : tls_write(n)
    \/ \E n \in 0..(PeerLen + 1) : tls_read(n)
    \/ tls_close
    \/ \E d \in {"record_overflow", "close_notify"}, sent \in BOOLEAN : tls_fail(d, sent)

\* A step of the call in progress.
CallStep ==
    \/ \E sent \in BOOLEAN : key_update_before_record(sent)
    \/ \E sent \in BOOLEAN : tls_write_record(sent)
    \/ ReturnData
    \/ QuietCapReached
    \/ \E c \in PeerContents : dispatch_one_record(c)
    \/ \E c \in PeerContents : open_fragment(c)
    \/ Unopened
    \/ Unprotected
    \/ ReadFails
    \/ NoRoom
    \/ Again

Next == Calls \/ CallStep

Spec == Init /\ [][Next]_vars

(***************************************************************************)
(* Properties.                                                             *)
(***************************************************************************)
Results == {"OK", "DATA", "0", "AGAIN", "EINVAL"}
Errors == {"EPROTO", "EAUTH", "EIO", "ECAP", "KEY_UPDATE_LIMIT"}

Sessions ==
    [state : {"CONNECTED", "CLOSED", "FAILED"}, keys : BOOLEAN, rd : Dir, wr : Dir,
     key_update_owed : BOOLEAN, key_update_run : 0..RunMax, send_epochs : 0..SendEpochsMax,
     read_closed : BOOLEAN, alert_sent : Alerts \cup {"none"},
     alert_received : Alerts \cup {"none"}, pt : [from : Nat, len : Nat],
     post_fill : 0..FillCap]

Frames == [op : {"none", "read", "write"}, n : Nat, quiet : 0..QuietCap, empty : Nat]

Records == [gen : Nat, seq : Nat, content : Contents]

\* The types of the session's fields and of the history variables.
TypeOK ==
    /\ s \in Sessions
    /\ call \in Frames
    /\ ret \in Results \cup Errors
    /\ out \in Seq(Records)
    /\ written \in Nat /\ opened \in Nat
    /\ rx \in Seq(Nat)
    /\ asked \subseteq Nat

\* rec_seal and rec_dir_update: no two records leave under one key with one
\* sequence number, whatever KeyUpdates, failed sends and alerts lie between
\* them, so no nonce repeats under a key.
NonceFresh ==
    \A i, j \in 1..Len(out) :
        i # j => <<out[i].gen, out[i].seq>> # <<out[j].gen, out[j].seq>>

\* The comment above key_update_before_record: an AES-GCM key seals at most
\* RecordsMax records, and its last sequence number goes to the KeyUpdate that
\* retires the key or to the alert that ends the session, never to data.
LastSequenceNumber ==
    AesGcm => \A i \in 1..Len(out) :
                 /\ out[i].seq < RecordsMax
                 /\ out[i].seq = RecordsMax - 1 => ~IsData(out[i].content)

\* Where a reader that opened r stands next.
After(r) ==
    IF IsKeyUpdate(r.content) THEN <<r.gen + 1, 0>> ELSE <<r.gen, r.seq + 1>>

\* A peer that opens the records in order and moves its read key at each
\* KeyUpdate stands at every next record's key and sequence number.  (The alert
\* after a KeyUpdate that cfg.send refused goes out under the old key.)
PeerFollows ==
    /\ out # <<>> => <<out[1].gen, out[1].seq>> = <<0, 0>>
    /\ \A i \in 1..(Len(out) - 1) :
          \/ <<out[i + 1].gen, out[i + 1].seq>> = After(out[i])
          \/ out[i + 1].content = Alert("internal_error")

\* tlsi_wipe and close_read_side: a session that is not connected holds no key,
\* no plaintext and no call, and a connected one holds its write key, and its
\* read key exactly until the peer's close_notify.
KeysDie ==
    IF s.state = "CONNECTED"
    THEN s.keys /\ s.wr.live /\ (s.rd.live <=> ~s.read_closed)
    ELSE ~s.keys /\ s.wr = Wiped /\ s.rd = Wiped /\ s.pt = NoData /\ call = NoCall

\* tls_read, tls_write_parts, tls_fail and tls_close on a session that ended: no
\* call revives it and no call seals a record under it.
DeadStaysDead ==
    [][s.state # "CONNECTED" => s'.state # "CONNECTED" /\ out' = out]_vars

\* tlsi_fail and tls_close: an alert is the last record of a session that
\* ended, a fatal one is the alert ch_alert_sent names, and after the peer's own
\* fatal alert no fatal alert leaves.
AlertEndsSession ==
    \A i \in 1..Len(out) :
        out[i].content.kind = "alert" =>
            /\ i = Len(out)
            /\ s.state # "CONNECTED"
            /\ IsFatal(out[i].content) =>
                  /\ out[i].content.description = s.alert_sent
                  /\ s.alert_received = "none"

\* key_update_before_record: a data record sealed after this side read a
\* request_update has a KeyUpdate between the two.
AnswerBeforeData ==
    \A a \in asked : \A i \in (a + 1)..Len(out) :
        IsData(out[i].content) => \E k \in (a + 1)..(i - 1) : IsKeyUpdate(out[k].content)

\* handle_key_update and hspost_send_key_update: a KeyUpdate answers a request
\* that no earlier KeyUpdate answered, or it takes an AES-GCM key's last
\* sequence number.  So a run of requests costs one answer.
KeyUpdateHasCause ==
    \A k \in 1..Len(out) :
        IsKeyUpdate(out[k].content) =>
            \/ AesGcm /\ out[k].seq = RecordsMax - 1
            \/ \E a \in asked : /\ a < k
                                /\ \A j \in (a + 1)..(k - 1) : ~IsKeyUpdate(out[j].content)

\* The epoch cap of hspost_send_key_update (RFC 9846 4.7.3): no record leaves
\* under a key past SendEpochsMax KeyUpdates.
EpochsCapped == \A i \in 1..Len(out) : out[i].gen <= SendEpochsMax

\* dispatch_one_record and tls_read: the bytes ch_read returned are the peer's
\* stream from its first byte, each once and in order, however reads of
\* different sizes, KeyUpdates, tickets and split messages cut it.
InOrder == \A i \in 1..Len(rx) : rx[i] = i - 1

\* The comment above dispatch_one_record: "the caller receives a byte of data
\* for each CH_KEY_UPDATE_RUN_MAX KeyUpdates".
RunsCostData == s.rd.gen <= RunMax * (Received + 1)

\* tls.h: "One call also fails with CH_EPROTO and unexpected_message once it has
\* read CH_QUIET_CAP records that give no data".  A call the cap fails holds no
\* data.
QuietCapSparesData ==
    [][call.op = "read" /\ call.quiet = QuietCap /\ s'.state = "FAILED" => s.pt.len = 0]_vars
=============================================================================
