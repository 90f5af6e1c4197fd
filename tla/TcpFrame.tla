------------------------------ MODULE TcpFrame ------------------------------
(***************************************************************************)
(* What the non-blocking client and the non-blocking server share over     *)
(* TCP: reading one record, the buffer that joins records into handshake   *)
(* messages, the failure funnel and the wipe (tcp_nonblocking_frame.c and  *)
(* the part of handshake_record.c that does not wait for a socket).        *)
(*                                                                         *)
(* A record is [outer, dir, inner, cells, alert].  dir is the key and the  *)
(* sequence number it was sealed under, NoDir in the clear.  A handshake   *)
(* message is cut into m.size cells, so a record may end in the middle of  *)
(* a message and may carry several; the first cell holds the header.       *)
(***************************************************************************)
EXTENDS Handshake

CONSTANTS
    BufLen,   \* cfg.buf_len, in cells
    MaxMsg    \* 0x4000, the largest message hsr_peek_message lets through, in cells

ASSUME FrameAssumption == BufLen \in Nat \ {0} /\ MaxMsg \in Nat /\ BufLen < MaxMsg

Cells(m) == [i \in 1..m.size |-> [msg |-> m, at |-> i]]

NoAlert == [len |-> 0, desc |-> "none"]
Alert(desc) == [len |-> 2, desc |-> desc]

PlainRecord(type, cells) ==
    [outer |-> type, dir |-> NoDir, inner |-> "none", cells |-> cells, alert |-> NoAlert]
SealedRecord(dir, type, cells) ==
    [outer |-> "appdata", dir |-> dir, inner |-> type, cells |-> cells, alert |-> NoAlert]
CcsRecord == PlainRecord("ccs", << >>)

\* one fatal alert: sealed under the write key once there is one, in the clear before
alert_record(h, desc) ==
    [(IF h.t.keys THEN SealedRecord(h.t.wr, "alert", << >>)
                  ELSE PlainRecord("alert", << >>)) EXCEPT !.alert = Alert(desc)]

session_dead(h) == h.t.state \in {"CLOSED", "FAILED"}

-----------------------------------------------------------------------------
(* The buffer *)

\* hsr_peek_message on a buffer that holds at least a header
Oversize(h) == h.t.buf # << >> /\ Head(h.t.buf).msg.size > BufLen
OversizeAlert(h) == IF Head(h.t.buf).msg.size > MaxMsg THEN "decode_error" ELSE "internal_error"
Whole(h) == h.t.buf # << >> /\ ~Oversize(h) /\ Len(h.t.buf) >= Head(h.t.buf).msg.size

\* hsr_next_msg: the message at the head, and the session without it
NextMsg(h) == Head(h.t.buf).msg
Taken(h) == [h EXCEPT !.t.buf = SubSeq(@, Head(@).msg.size + 1, Len(@))]

\* hsr_check_record_end, asked before a read key changes
EndsRecord(h) == h.t.buf = << >>

-----------------------------------------------------------------------------
(* One record *)

\* hsr_refuse_alert: always a refusal, and silent after the peer's fatal alert
refuse_alert(h, rec) ==
    LET heard == [h EXCEPT !.hs.alert = "unexpected_message"]
    IN  IF rec.alert.len # 2 THEN No(h, "decode_error")
        ELSE IF rec.alert.desc \in {"close_notify", "user_canceled"}
        THEN [ok |-> FALSE, h |-> heard]
        ELSE [ok |-> FALSE, h |-> [heard EXCEPT !.t.alert_received = rec.alert.desc]]

hsr_feed(h, cells) ==
    IF Len(h.t.buf) + Len(cells) > BufLen THEN No(h, "record_overflow")
    ELSE Ok([h EXCEPT !.t.buf = @ \o cells])

take_record(h, rec) ==
    IF rec.outer = "ccs" THEN Ok(h)
    ELSE IF rec.outer = "alert" THEN refuse_alert(h, rec)
    ELSE IF h.hs.encrypted
    THEN IF rec.outer # "appdata" \/ rec.dir # h.t.rd THEN No(h, "bad_record_mac")
         ELSE LET opened == [h EXCEPT !.t.rd.seq = @ + 1] IN
              IF rec.inner = "alert" THEN refuse_alert(opened, rec)
              ELSE IF rec.inner # "handshake" THEN No(opened, "unexpected_message")
              ELSE hsr_feed(opened, rec.cells)
    ELSE IF rec.outer # "handshake" THEN No(h, "unexpected_message")
    ELSE hsr_feed(h, rec.cells)

-----------------------------------------------------------------------------
(* Failure *)

\* Mutant: the handshake state survives the wipe
wipe_KeepHs(h) ==
    [h EXCEPT !.t.rd = NoDir, !.t.wr = NoDir, !.t.rd_secret = NoSecret,
              !.t.wr_secret = NoSecret, !.t.res_master = NoSecret, !.t.keys = FALSE,
              !.t.buf = << >>]

\* tcp_nonblocking_wipe; the staging array is the caller's
wipe(h) ==
    [h EXCEPT !.hs = NoHs,
              !.t.rd = NoDir, !.t.wr = NoDir, !.t.rd_secret = NoSecret,
              !.t.wr_secret = NoSecret, !.t.res_master = NoSecret, !.t.keys = FALSE,
              !.t.buf = << >>]

\* Mutant: a failure is not told
OwedAlert_Silent(h) == "none"

\* the alert a failure owes: none after the peer's own fatal alert
OwedAlert(h) == IF h.t.alert_received = "none" THEN h.hs.alert ELSE "none"

tcp_nonblocking_fail(h) ==
    [wipe(h) EXCEPT !.t.alert_sent = OwedAlert(h), !.t.state = "FAILED"]

=============================================================================
