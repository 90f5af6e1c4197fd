--------------------------- MODULE SessionProofs ----------------------------
(***************************************************************************)
(* Types and safety of a connected session.  TypeOK is inductive as it     *)
(* stands: TypeStep has one step per action of Session, over lemmas about  *)
(* the operators the actions are built from.  With TypeOK every step has   *)
(* one of three shapes, told by what it does to the write side; the        *)
(* properties about what leaves the session follow from the shapes,        *)
(* whatever the read side did to get there.                                *)
(*                                                                         *)
(* The lemmas about reading come first: a reader of the records of a       *)
(* session that writes at most the next bytes of the stream keeps its      *)
(* place in them. The shapes and what follows from them come next, then    *)
(* the stream a session writes. SideStep and SideWaits put both together   *)
(* and speak of one side of a pair, whatever the other one is. The limits  *)
(* of the keys, the answers to KeyUpdates, their causes and their price    *)
(* are last.                                                               *)
(***************************************************************************)
EXTENDS Session, TLAPS

USE DEF Dir

\* The contents a session seals: a KeyUpdate, an alert, application data.
LEMMA ContentsType ==
    /\ KeyUpdate \in Contents
    /\ \A d \in Alerts \cup {"close_notify"} : Alert(d) \in Contents
    /\ \A f, l \in Nat : Data(f, l) \in Contents
  BY DEF KeyUpdate, Handshake, Alert, Data, Contents, Msg

\* A record that rec_seal made.
LEMMA SealedType ==
  ASSUME NEW d \in Dir, NEW c \in Contents
  PROVE  Sealed(d, c) \in Records
  BY DEF Sealed, Records

\* tlsi_fail leaves a session of the right type, whatever state it met.
LEMMA FailType ==
  ASSUME NEW t \in Sessions, NEW o \in Seq(Records), NEW d \in Alerts, NEW r \in Errors \cup {"OK"},
         tlsi_fail(t, o, d, r)
  PROVE  /\ s' \in Sessions
         /\ out' \in Seq(Records)
         /\ ret' = r /\ call' = NoCall
<1>1. tlsi_wipe(t) \in Sessions
  BY Zenon DEF tlsi_wipe, Sessions, Wiped, NoData
<1>2. s' \in Sessions
  BY <1>1, ZenonT(40) DEF tlsi_fail, Sessions
<1>3. tlsi_send_alert(t, o, d) \in Seq(Records)
  BY ContentsType, SealedType DEF tlsi_send_alert, Sessions
<1>4. QED
  BY <1>2, <1>3 DEF tlsi_fail

\* rec_seal, rec_open and rec_dir_update keep a direction a direction.
LEMMA DirType ==
  ASSUME NEW d \in Dir
  PROVE  rec_seal(d) \in Dir /\ rec_open(d) \in Dir /\ rec_dir_update(d) \in Dir
<1>1. d.gen + 1 \in Nat /\ d.seq + 1 \in Nat
  OBVIOUS
<1>2. rec_dir_update(d) \in Dir
  BY <1>1, Zenon DEF rec_dir_update
<1>3. QED
  BY <1>1, <1>2 DEF rec_seal, rec_open

\* The session after rec_open.
LEMMA OpenType ==
  ASSUME s \in Sessions
  PROVE  [s EXCEPT !.rd = rec_open(s.rd)] \in Sessions
  BY DirType DEF Sessions

\* hspost_send_key_update below the epoch cap stays within it.
LEMMA SendKeyUpdateType ==
  ASSUME s \in Sessions, ~EpochsSpent(s)
  PROVE  hspost_send_key_update(s) \in Sessions
<1>1. s.send_epochs + 1 \in 0..SendEpochsMax
  BY SessionAssumption DEF Sessions, EpochsSpent
<1>2. rec_dir_update(s.wr) \in Dir
  BY DirType DEF Sessions
<1>3. QED
  BY <1>1, <1>2, Zenon DEF Sessions, hspost_send_key_update

\* The session after rec_seal.
LEMMA SealType ==
  ASSUME s \in Sessions
  PROVE  [s EXCEPT !.wr = rec_seal(s.wr)] \in Sessions
  BY DEF Sessions, rec_seal

\* Every refusal of take_message names an alert and an error.
LEMMA RefusalType ==
  ASSUME NEW t \in Sessions, NEW m \in Msg, NEW e \in BOOLEAN, take_message(t, m, e) # NoRefusal
  PROVE  /\ take_message(t, m, e)[1] \in Alerts
         /\ take_message(t, m, e)[2] \in Errors
  BY DEF take_message, take_ticket, take_key_update, NoRefusal, Alerts, Errors, Msg

\* handle_key_update within a run of KeyUpdates stays within the run's bound.
LEMMA HandleKeyUpdateType ==
  ASSUME NEW t \in Sessions, NEW m, t.key_update_run < RunMax
  PROVE  handle_key_update(t, m) \in Sessions
<1>1. t.key_update_run + 1 \in 0..RunMax
  BY SessionAssumption, SMTT(30) DEF Sessions
<1>2. rec_dir_update(t.rd) \in Dir
  BY DirType DEF Sessions
<1>3. (IF OwesAnswer(t, m) THEN TRUE ELSE t.key_update_owed) \in BOOLEAN
  BY Zenon DEF Sessions
<1>4. QED
  BY <1>1, <1>2, <1>3, Zenon DEF Sessions, handle_key_update

\* The refusal drain_run meets first names an alert and an error.
LEMMA FirstRefusalType ==
  ASSUME NEW t \in Sessions, NEW m \in PeerRuns, NEW o \in BOOLEAN, NEW c,
         c = [kind |-> "handshake", msgs |-> m, open |-> o], NEW r \in FirstRefusal(t, c)
  PROVE  r[1] \in Alerts /\ r[2] \in Errors
<1>1. m \in Seq(Msg) /\ c.msgs = m /\ c.open = o
  BY SessionAssumption
<1>2. PICK i \in Refusals(t, c) : r = take_message(t, c.msgs[i], i = Len(c.msgs) /\ ~c.open)
  BY Zenon DEF FirstRefusal
<1>3. /\ i \in 1..Len(m) /\ m[i] \in Msg
      /\ take_message(t, m[i], i = Len(m) /\ ~o) # NoRefusal
  BY <1>1, <1>2 DEF Refusals
<1>4. (i = Len(m) /\ ~o) \in BOOLEAN
  OBVIOUS
<1>5. QED
  BY <1>1, <1>2, <1>3, <1>4, RefusalType, Zenon

\* No call in progress.
LEMMA NoCallType == NoCall \in Frames
  BY SessionAssumption DEF NoCall, Frames

\* The loop of tls_read goes round once more below the cap.
LEMMA NextIterationType ==
  ASSUME call \in Frames, call.quiet < QuietCap, NextIteration
  PROVE  call' \in Frames /\ ret' = ret /\ out' = out
<1>1. call.quiet + 1 \in 0..QuietCap /\ 0 \in Nat
  BY SessionAssumption DEF Frames
<1>2. QED
  BY <1>1, Zenon DEF NextIteration, Frames

\* hspost_read keeps the types, in each of its three ends.
LEMMA HspostReadType ==
  ASSUME NEW t \in Sessions, t.post_fill < FillCap, TypeOK, call.quiet < QuietCap,
         NEW m \in PeerRuns, NEW o \in BOOLEAN, NEW c,
         c = [kind |-> "handshake", msgs |-> m, open |-> o], hspost_read(t, c)
  PROVE  /\ s' \in Sessions /\ call' \in Frames /\ ret' \in Results \cup Errors
         /\ out' \in Seq(Records) /\ asked' \subseteq Nat
<1> DEFINE fragment == t.post_fill > 0 /\ c.msgs = <<>>
           last == IF c.msgs = <<>> THEN "none" ELSE c.msgs[Len(c.msgs)]
           fill == IF ~c.open THEN 0 ELSE IF fragment THEN t.post_fill + 1 ELSE 1
           u == IF last \in {"ku0", "ku1"} THEN handle_key_update(t, last) ELSE t
<1>0. /\ m \in Seq(Msg) /\ c.msgs = m /\ c.open = o
      /\ call \in Frames /\ ret \in Results \cup Errors /\ out \in Seq(Records) /\ asked \subseteq Nat
  BY SessionAssumption DEF TypeOK, Frames, Records
<1>1. CASE (\E r \in FirstRefusal(t, c) : tlsi_fail(t, out, r[1], r[2])) /\ UNCHANGED asked
  <2>1. PICK r \in FirstRefusal(t, c) : tlsi_fail(t, out, r[1], r[2])
    BY <1>1, Zenon
  <2>2. r[1] \in Alerts /\ r[2] \in Errors
    BY FirstRefusalType, Zenon
  <2>3. QED
    BY <1>0, <1>1, <2>1, <2>2, FailType, NoCallType
<1>2. CASE /\ fragment /\ ~c.open
           /\ UNCHANGED asked
           /\ \/ /\ call.empty + 1 = QuietCap
                 /\ tlsi_fail(t, out, "unexpected_message", "EPROTO")
              \/ /\ call.empty + 1 < QuietCap
                 /\ s' = t
                 /\ call' = [call EXCEPT !.empty = call.empty + 1]
                 /\ UNCHANGED <<out, ret>>
  <2>1. CASE tlsi_fail(t, out, "unexpected_message", "EPROTO")
    BY <1>0, <1>2, <2>1, FailType, NoCallType DEF Alerts, Errors
  <2>2. CASE s' = t /\ call' = [call EXCEPT !.empty = call.empty + 1] /\ UNCHANGED <<out, ret>>
    BY <1>0, <1>2, <2>2 DEF Frames
  <2>3. QED
    BY <1>2, <2>1, <2>2
<1>3. CASE /\ Refusals(t, c) = {} /\ ~(fragment /\ ~c.open)
           /\ s' = [u EXCEPT !.post_fill = fill]
           /\ asked' = IF OwesAnswer(t, last) THEN asked \cup {Len(out)} ELSE asked
           /\ \/ fill = 0 /\ NextIteration
              \/ fill > 0 /\ UNCHANGED <<call, out, ret>>
  <2>1. u \in Sessions
    <3>1. CASE last \in {"ku0", "ku1"}
      <4>1. m # <<>> /\ last = m[Len(m)] /\ Len(m) \in 1..Len(m) /\ Len(m) \notin Refusals(t, c)
        BY <1>0, <1>3, <3>1
      <4>2. take_message(t, last, Len(m) = Len(m) /\ ~o) = NoRefusal
        BY <1>0, <4>1 DEF Refusals
      <4>3. take_key_update(t, last, Len(m) = Len(m) /\ ~o) = NoRefusal
        <5> HIDE DEF last
        <5> QED BY <3>1, <4>2 DEF take_message
      <4>4. ~(t.key_update_run >= RunMax)
        <5> HIDE DEF last
        <5> QED BY <3>1, <4>3 DEF take_key_update, NoRefusal
      <4>5. t.key_update_run < RunMax
        BY <4>4, SessionAssumption DEF Sessions
      <4>6. QED
        BY <3>1, <4>5, HandleKeyUpdateType
    <3>2. CASE last \notin {"ku0", "ku1"}
      BY <3>2
    <3>3. QED
      BY <3>1, <3>2
  <2>2. fill \in 0..FillCap
    BY <1>0, SessionAssumption, SMTT(30) DEF Sessions
  <2>3. s' \in Sessions
    <3> HIDE DEF u, fill
    <3> QED BY <1>3, <2>1, <2>2, Zenon DEF Sessions
  <2>4. call' \in Frames /\ ret' = ret /\ out' = out
    <3> HIDE DEF fill
    <3>1. CASE NextIteration
      BY <1>0, <3>1, NextIterationType
    <3>2. CASE UNCHANGED <<call, out, ret>>
      BY <1>0, <3>2
    <3>3. QED
      BY <1>3, <3>1, <3>2
  <2>5. asked' \subseteq Nat
    BY <1>0, <1>3
  <2>6. QED
    BY <1>0, <2>3, <2>4, <2>5
<1>4. QED
  BY <1>1, <1>2, <1>3 DEF hspost_read

\* hsr_refuse_alert keeps the types.
LEMMA RefuseAlertType ==
  ASSUME NEW t \in Sessions, TypeOK,
         NEW d \in Alerts \cup {"close_notify", "user_canceled", "malformed"},
         hsr_refuse_alert(t, d)
  PROVE  /\ s' \in Sessions /\ call' \in Frames /\ ret' \in Results \cup Errors
         /\ out' \in Seq(Records)
<1> DEFINE u == IF d \in {"malformed", "close_notify", "user_canceled"} THEN t
                ELSE [t EXCEPT !.alert_received = d]
           a == IF d = "malformed" THEN "decode_error" ELSE "unexpected_message"
<1>1. u \in Sessions
  BY DEF Sessions
<1>2. a \in Alerts /\ "EPROTO" \in Errors
  BY DEF Alerts, Errors
<1>3. tlsi_fail(u, out, a, "EPROTO")
  BY DEF hsr_refuse_alert
<1>4. QED
  <2> HIDE DEF u, a
  <2> QED BY <1>1, <1>2, <1>3, FailType, NoCallType DEF TypeOK

\* The alert arm of dispatch_one_record keeps the types.
LEMMA ReadAlertType ==
  ASSUME NEW t \in Sessions, TypeOK, call.quiet < QuietCap,
         NEW d \in Alerts \cup {"close_notify", "user_canceled", "malformed"},
         read_alert(t, d)
  PROVE  /\ s' \in Sessions /\ call' \in Frames /\ ret' \in Results \cup Errors
         /\ out' \in Seq(Records)
<1>1. CASE s' = close_read_side(t) /\ ret' = "0" /\ call' = NoCall /\ UNCHANGED out
  <2>1. Wiped \in Dir /\ NoData \in [from : Nat, len : Nat]
    BY DEF Wiped, NoData
  <2>2. close_read_side(t) \in Sessions
    BY <2>1, Zenon DEF close_read_side, Sessions
  <2>3. QED
    BY <1>1, <2>2, NoCallType DEF TypeOK, Results
<1>2. CASE s' = t /\ NextIteration
  BY <1>2, NextIterationType DEF TypeOK
<1>3. CASE hsr_refuse_alert(t, d)
  BY <1>3, RefuseAlertType
<1>4. QED
  BY <1>1, <1>2, <1>3 DEF read_alert

\* What the peer can send, by its kind.
LEMMA PeerContentsType ==
  ASSUME TypeOK, NEW c \in PeerContents
  PROVE  \/ c.kind = "data" /\ c.from \in Nat /\ c.len \in Nat
         \/ /\ c.kind = "handshake"
            /\ \E m \in PeerRuns, o \in BOOLEAN :
                  c = [kind |-> "handshake", msgs |-> m, open |-> o]
         \/ /\ c.kind = "alert"
            /\ c.description \in Alerts \cup {"close_notify", "user_canceled", "malformed"}
         \/ c.kind = "other"
<1>1. Received \in Nat
  BY SMTT(30) DEF TypeOK, Received, Sessions
<1>2. CASE c \in [kind : {"data"}, from : {Received}, len : 0..PeerLen]
  BY <1>1, <1>2, SessionAssumption
<1>3. CASE c \in [kind : {"handshake"}, msgs : PeerRuns, open : BOOLEAN]
  <2>1. c = [kind |-> "handshake", msgs |-> c.msgs, open |-> c.open]
    BY <1>3
  <2>2. QED
    BY <1>3, <2>1
<1>4. CASE c \in [kind : {"alert"},
                  description : PeerAlerts \cup {"close_notify", "user_canceled", "malformed"}]
  BY <1>4, SessionAssumption
<1>5. CASE c \in [kind : {"other"}]
  BY <1>5
<1>6. QED
  BY <1>2, <1>3, <1>4, <1>5 DEF PeerContents

\* Every failure of io_read_record names an alert and an error.
LEMMA ReadRecordErrorType ==
  ASSUME NEW e \in io_read_record_errors
  PROVE  e[1] \in Alerts /\ e[2] \in Errors
  BY DEF io_read_record_errors, Alerts, Errors

\* Every action keeps TypeOK.
LEMMA TypeStep == TypeOK /\ [Next]_vars => TypeOK'
<1> SUFFICES ASSUME TypeOK, [Next]_vars PROVE TypeOK'
  OBVIOUS
<1> USE DEF TypeOK
<1>1. ASSUME NEW n \in 0..MaxWrite, tls_write(n) PROVE TypeOK'
  <2>1. CASE call' = call
    BY <1>1, <2>1 DEF tls_write, Results, Errors
  <2>2. CASE call' = [NoCall EXCEPT !.op = "write", !.n = n]
    <3>0. n \in Nat
      BY SessionAssumption
    <3>1. call' \in Frames
      BY <2>2, <3>0, NoCallType, Zenon DEF Frames
    <3>2. QED
      BY <1>1, <3>1 DEF tls_write, Results, Errors
  <2>3. QED
    BY <1>1, <2>1, <2>2 DEF tls_write
<1>2. ASSUME NEW n \in 0..(PeerLen + 1), tls_read(n) PROVE TypeOK'
  <2>1. CASE call' = call
    BY <1>2, <2>1 DEF tls_read, Results, Errors
  <2>2. CASE call' = [NoCall EXCEPT !.op = "read", !.n = n]
    <3>0. n \in Nat
      BY SessionAssumption
    <3>1. call' \in Frames
      BY <2>2, <3>0, NoCallType, Zenon DEF Frames
    <3>2. QED
      BY <1>2, <3>1 DEF tls_read, Results, Errors
  <2>3. QED
    BY <1>2, <2>1, <2>2 DEF tls_read
<1>3. CASE tls_close
  <2>1. out' \in Seq(Records)
    BY <1>3, ContentsType, SealedType DEF tls_close, tlsi_send_alert, Sessions
  <2>2. tlsi_wipe(s) \in Sessions
    BY Zenon DEF tlsi_wipe, Sessions, Wiped, NoData
  <2>3. s' \in Sessions
    BY <1>3, <2>2, Zenon DEF tls_close, Sessions
  <2>4. QED
    BY <1>3, <2>1, <2>3 DEF tls_close
<1>4. ASSUME NEW d \in {"record_overflow", "close_notify"}, NEW sent \in BOOLEAN, tls_fail(d, sent)
      PROVE  TypeOK'
  <2>1. CASE UNCHANGED <<s, call, out>> /\ ret' \in {"EPROTO", "EINVAL"}
    BY <1>4, <2>1 DEF tls_fail, Errors, Results
  <2>2. ASSUME d \in Alerts, NEW r \in Errors \cup {"OK"}, tlsi_fail(s, out, d, r) PROVE TypeOK'
    BY <1>4, <2>2, FailType, NoCallType DEF tls_fail, Results
  <2>3. QED
    BY <1>4, <2>1, <2>2 DEF tls_fail, Errors
<1>5. ASSUME NEW sent \in BOOLEAN, key_update_before_record(sent) PROVE TypeOK'
  <2> DEFINE o == Append(out, Sealed(s.wr, KeyUpdate))
             t == [s EXCEPT !.wr = rec_seal(s.wr)]
  <2>1. o \in Seq(Records) /\ t \in Sessions
    BY ContentsType, SealedType, SealType DEF Sessions
  <2>2. "internal_error" \in Alerts /\ {"ECAP", "EIO"} \subseteq Errors
    BY DEF Alerts, Errors
  <2>3. UNCHANGED <<written, opened, rx, asked>>
    BY <1>5 DEF key_update_before_record
  <2>4. CASE tlsi_fail(s, out, "internal_error", "ECAP") \/ tlsi_fail(s, out, "internal_error", "EIO")
    BY <2>2, <2>3, <2>4, FailType, NoCallType
  <2>5. CASE tlsi_fail(t, o, "internal_error", "EIO")
    <3> HIDE DEF t, o
    <3> QED BY <2>1, <2>2, <2>3, <2>5, FailType, NoCallType
  <2>6. CASE ~EpochsSpent(s) /\ s' = hspost_send_key_update(s) /\ out' = o /\ UNCHANGED <<call, ret>>
    BY <2>1, <2>3, <2>6, SendKeyUpdateType
  <2>7. QED
    BY <1>5, <2>4, <2>5, <2>6 DEF key_update_before_record
<1>6. ASSUME NEW sent \in BOOLEAN, tls_write_record(sent) PROVE TypeOK'
  <2> DEFINE len == IF call.n < PlaintextMax THEN call.n ELSE PlaintextMax
             t == [s EXCEPT !.wr = rec_seal(s.wr)]
             o == Append(out, Sealed(s.wr, Data(written, len)))
  <2>1. len \in Nat /\ len <= call.n /\ call.n \in Nat /\ written + len \in Nat
    BY SessionAssumption DEF Frames
  <2>2. Data(written, len) \in Contents
    <3> HIDE DEF len
    <3> QED BY <2>1, ContentsType
  <2>3. o \in Seq(Records) /\ t \in Sessions
    BY <2>2, SealedType, SealType DEF Sessions
  <2>4. "internal_error" \in Alerts /\ {"ECAP", "EIO"} \subseteq Errors
    BY DEF Alerts, Errors
  <2>5. UNCHANGED <<opened, rx, asked>>
    BY <1>6 DEF tls_write_record
  <2>6. CASE tlsi_fail(s, out, "internal_error", "ECAP") /\ UNCHANGED written
    BY <2>4, <2>5, <2>6, FailType, NoCallType
  <2>7. CASE tlsi_fail(t, o, "internal_error", "EIO") /\ written' = written + len
    <3> HIDE DEF t, o, len
    <3> QED BY <2>1, <2>3, <2>4, <2>5, <2>7, FailType, NoCallType
  <2>8. CASE /\ s' = t /\ out' = o /\ written' = written + len
             /\ call' = IF call.n = len THEN NoCall ELSE [call EXCEPT !.n = call.n - len]
             /\ ret' = IF call.n = len THEN "OK" ELSE ret
    <3> HIDE DEF t, o, len
    <3>1. call.n - len \in Nat
      BY <2>1
    <3>2. call' \in Frames
      BY <2>8, <3>1, NoCallType, Zenon DEF Frames
    <3>3. QED
      BY <2>1, <2>3, <2>5, <2>8, <3>2 DEF Results
  <2>9. QED
    BY <1>6, <2>6, <2>7, <2>8 DEF tls_write_record
<1>7. CASE ReturnData
  <2> DEFINE take == IF s.pt.len < call.n THEN s.pt.len ELSE call.n
             bytes == [i \in 1..take |-> s.pt.from + (i - 1)]
  <2>1. take \in Nat /\ take <= s.pt.len /\ s.pt.len \in Nat /\ s.pt.from \in Nat
    BY SMTT(30) DEF Sessions, Frames
  <2>2. bytes \in Seq(Nat)
    <3> HIDE DEF take
    <3>1. \A i \in 1..take : s.pt.from + (i - 1) \in Nat
      BY <2>1
    <3>2. bytes \in [1..take -> Nat]
      BY <3>1
    <3>3. QED
      BY <2>1, <3>2
  <2>3. Unread(s.pt, take) \in [from : Nat, len : Nat]
    <3> HIDE DEF take
    <3>1. s.pt.from + take \in Nat /\ s.pt.len - take \in Nat
      BY <2>1
    <3>2. QED
      BY <3>1 DEF Unread
  <2>4. rx' = rx \o bytes /\ s' = [s EXCEPT !.pt = Unread(s.pt, take)]
    BY <1>7 DEF ReturnData
  <2>5. s' \in Sessions /\ rx' \in Seq(Nat)
    <3> HIDE DEF take, bytes
    <3>1. s' \in Sessions
      BY <2>3, <2>4, Zenon DEF Sessions
    <3>2. rx' \in Seq(Nat)
      BY <2>2, <2>4
    <3>3. QED
      BY <3>1, <3>2
  <2>6. QED
    BY <1>7, <2>5, NoCallType DEF ReturnData, Results
<1>8. CASE QuietCapReached
  BY <1>8, FailType, NoCallType DEF QuietCapReached, Alerts, Errors
<1>9. ASSUME NEW c \in PeerContents, dispatch_one_record(c) PROVE TypeOK'
  <2> DEFINE t == [s EXCEPT !.rd = rec_open(s.rd)]
  <2>1. /\ t \in Sessions /\ t.post_fill < FillCap /\ call.quiet < QuietCap
        /\ opened' \in Nat /\ UNCHANGED <<written, rx>>
    <3>1. t \in Sessions /\ t.post_fill = s.post_fill
      BY OpenType DEF Sessions
    <3>2. Opening /\ s.post_fill = 0
      BY <1>9 DEF dispatch_one_record
    <3>3. call.quiet < QuietCap /\ opened' = opened + 1 /\ UNCHANGED <<written, rx>>
      BY <3>2 DEF Opening, Reading
    <3>4. s.post_fill < FillCap
      BY <3>2, SessionAssumption
    <3>5. QED
      BY <3>1, <3>3, <3>4
  <2>2. CASE /\ c.kind = "data" /\ UNCHANGED asked /\ NextIteration
             /\ s' = [t EXCEPT !.pt = [from |-> c.from, len |-> c.len],
                               !.key_update_run = RunAfterData(t, c.len)]
    <3> HIDE DEF t
    <3>1. c.from \in Nat /\ c.len \in Nat
      BY <2>2, PeerContentsType
    <3>2. RunAfterData(t, c.len) \in 0..RunMax /\ [from |-> c.from, len |-> c.len] \in [from : Nat, len : Nat]
      BY <2>1, <3>1, SessionAssumption DEF RunAfterData, Sessions
    <3>3. s' \in Sessions
      BY <2>1, <2>2, <3>2, Zenon DEF Sessions
    <3>4. QED
      BY <2>1, <2>2, <3>3, NextIterationType
  <2>3. CASE c.kind = "handshake" /\ hspost_read(t, c)
    <3> HIDE DEF t
    <3>1. PICK m \in PeerRuns, o \in BOOLEAN : c = [kind |-> "handshake", msgs |-> m, open |-> o]
      BY <2>3, PeerContentsType
    <3>2. QED
      BY <2>1, <2>3, <3>1, HspostReadType
  <2>4. CASE c.kind = "alert" /\ read_alert(t, c.description) /\ UNCHANGED asked
    <3> HIDE DEF t
    <3>1. c.description \in Alerts \cup {"close_notify", "user_canceled", "malformed"}
      BY <2>4, PeerContentsType
    <3>2. QED
      BY <2>1, <2>4, <3>1, ReadAlertType
  <2>5. CASE tlsi_fail(t, out, "unexpected_message", "EPROTO") /\ UNCHANGED asked
    <3> HIDE DEF t
    <3> QED BY <2>1, <2>5, FailType, NoCallType DEF Alerts, Errors
  <2>6. QED
    BY <1>9, <2>2, <2>3, <2>4, <2>5 DEF dispatch_one_record
<1>10. ASSUME NEW c \in PeerContents, open_fragment(c) PROVE TypeOK'
  <2> DEFINE t == [s EXCEPT !.rd = rec_open(s.rd)]
  <2>1. /\ t \in Sessions /\ t.post_fill < FillCap /\ call.quiet < QuietCap
        /\ opened' \in Nat /\ UNCHANGED <<written, rx>>
    <3>1. t \in Sessions /\ t.post_fill = s.post_fill
      BY OpenType DEF Sessions
    <3>2. Opening /\ s.post_fill \in 1..(FillCap - 1)
      BY <1>10 DEF open_fragment
    <3>3. call.quiet < QuietCap /\ opened' = opened + 1 /\ UNCHANGED <<written, rx>>
      BY <3>2 DEF Opening, Reading
    <3>4. s.post_fill < FillCap
      BY <3>2, SessionAssumption
    <3>5. QED
      BY <3>1, <3>3, <3>4
  <2>2. CASE c.kind = "handshake" /\ hspost_read(t, c)
    <3> HIDE DEF t
    <3>1. PICK m \in PeerRuns, o \in BOOLEAN : c = [kind |-> "handshake", msgs |-> m, open |-> o]
      BY <2>2, PeerContentsType
    <3>2. QED
      BY <2>1, <2>2, <3>1, HspostReadType
  <2>3. CASE c.kind = "alert" /\ hsr_refuse_alert(t, c.description) /\ UNCHANGED asked
    <3> HIDE DEF t
    <3>1. c.description \in Alerts \cup {"close_notify", "user_canceled", "malformed"}
      BY <2>3, PeerContentsType
    <3>2. QED
      BY <2>1, <2>3, <3>1, RefuseAlertType
  <2>4. CASE tlsi_fail(t, out, "unexpected_message", "EPROTO") /\ UNCHANGED asked
    <3> HIDE DEF t
    <3> QED BY <2>1, <2>4, FailType, NoCallType DEF Alerts, Errors
  <2>5. QED
    BY <1>10, <2>2, <2>3, <2>4 DEF open_fragment
<1>11. CASE Unopened
  BY <1>11, FailType, NoCallType DEF Unopened, Alerts, Errors
<1>12. CASE Unprotected
  BY <1>12, FailType, NoCallType DEF Unprotected, Alerts, Errors
<1>13. CASE ReadFails
  <2>1. PICK e \in io_read_record_errors : tlsi_fail(s, out, e[1], e[2])
    BY <1>13 DEF ReadFails
  <2>2. QED
    BY <1>13, <2>1, ReadRecordErrorType, FailType, NoCallType DEF ReadFails
<1>14. CASE NoRoom
  BY <1>14, FailType, NoCallType DEF NoRoom, Alerts, Errors
<1>15. CASE Again
  BY <1>15, NoCallType DEF Again, Results
<1>16. CASE UNCHANGED vars
  BY <1>16 DEF vars
<1>17. QED
  BY <1>1, <1>2, <1>3, <1>4, <1>5, <1>6, <1>7, <1>8, <1>9, <1>10, <1>11, <1>12, <1>13, <1>14,
     <1>15, <1>16, SMTT(30) DEF Next, Calls, CallStep

\* A session that just connected is well typed.
LEMMA TypeInit == Init => TypeOK
<1> SUFFICES ASSUME Init PROVE TypeOK
  OBVIOUS
<1>1. PICK ticket \in BOOLEAN :
        /\ s = [state |-> "CONNECTED", keys |-> TRUE, rd |-> rec_dir_init,
                wr |-> IF ticket THEN rec_seal(rec_dir_init) ELSE rec_dir_init,
                key_update_owed |-> FALSE, key_update_run |-> 0, send_epochs |-> 0,
                read_closed |-> FALSE, alert_sent |-> "none", alert_received |-> "none",
                pt |-> NoData, post_fill |-> 0]
        /\ out = IF ticket THEN <<Sealed(rec_dir_init, NewSessionTicket)>> ELSE <<>>
  BY SessionAssumption, Zenon DEF Init
<1>2. rec_dir_init \in Dir /\ rec_seal(rec_dir_init) \in Dir
  BY DirType, Zenon DEF rec_dir_init
<1>3. (IF ticket THEN rec_seal(rec_dir_init) ELSE rec_dir_init) \in Dir
  BY <1>2
<1>4. s \in Sessions
  BY <1>1, <1>2, <1>3, SessionAssumption DEF Sessions, NoData
<1>5. NewSessionTicket \in Contents
  BY DEF NewSessionTicket, Handshake, Contents, Msg
<1>6. out \in Seq(Records)
  BY <1>1, <1>2, <1>5, SealedType
<1>7. QED
  BY <1>4, <1>6, NoCallType DEF Init, TypeOK, Results

\* The session's fields and histories keep their types: the KeyUpdate run, the
\* epochs and the fragments of a message stay within their caps (handle_key_update,
\* hspost_send_key_update, drain_run).
THEOREM TypeCorrect == Spec => []TypeOK
<1>1. Init => TypeOK
  BY TypeInit
<1>2. TypeOK /\ [Next]_vars => TypeOK'
  BY TypeStep
<1>3. QED
  BY <1>1, <1>2, PTL DEF Spec

-----------------------------------------------------------------------------
(* What a connected session makes of the records it reads.  Every step either
   leaves the read side alone, ends it, returns plaintext to the caller of
   ch_read or takes one record. *)

\* A step that is not about the peer's records.
ReadSame ==
    /\ s'.rd = s.rd /\ s'.pt = s.pt /\ s'.read_closed = s.read_closed
    /\ s'.key_update_run = s.key_update_run /\ rx' = rx
    /\ call'.op = "read" => call.op = "read" \/ s.read_closed = FALSE

\* The end of the session.
ReadEnds ==
    /\ s'.state # "CONNECTED" /\ s'.rd = Wiped /\ s'.pt = NoData
    /\ s'.read_closed = s.read_closed /\ rx' = rx /\ call'.op = "none"

\* ch_read returns some of the plaintext that waits.
Returns ==
    /\ \E take \in 0..s.pt.len :
          /\ rx' = rx \o [i \in 1..take |-> s.pt.from + (i - 1)]
          /\ s'.pt = [from |-> s.pt.from + take, len |-> s.pt.len - take]
    /\ s'.rd = s.rd /\ s'.read_closed = s.read_closed
    /\ s'.key_update_run = s.key_update_run /\ call'.op = "none"

\* the last message of a handshake record
LastOf(c) == IF c.msgs = <<>> THEN "none" ELSE c.msgs[Len(c.msgs)]

\* The session takes a record that carries c.
Takes(c) ==
    /\ s.state = "CONNECTED" /\ s'.state = "CONNECTED" /\ s.pt.len = 0 /\ rx' = rx
    /\ call.op = "read"
    /\ \/ /\ c.kind = "data" /\ s'.pt = [from |-> c.from, len |-> c.len]
          /\ s'.rd = rec_open(s.rd) /\ s'.read_closed = s.read_closed
          /\ s'.key_update_run = IF c.len > 0 THEN 0 ELSE s.key_update_run
       \/ /\ c.kind = "handshake" /\ LastOf(c) \in {"ku0", "ku1"}
          /\ s'.rd = rec_dir_update(rec_open(s.rd))
          /\ s'.pt = s.pt /\ s'.read_closed = s.read_closed
          /\ s'.key_update_run = s.key_update_run + 1
       \/ /\ \/ c.kind = "handshake" /\ LastOf(c) \notin {"ku0", "ku1"}
             \/ c.kind = "alert" /\ c.description = "user_canceled"
          /\ s'.rd = rec_open(s.rd)
          /\ s'.pt = s.pt /\ s'.read_closed = s.read_closed
          /\ s'.key_update_run = s.key_update_run
       \/ /\ c.kind = "alert" /\ c.description = "close_notify"
          /\ s'.rd = Wiped /\ s'.pt = NoData /\ s'.read_closed = TRUE /\ call'.op = "none"

\* A call in progress belongs to a connected session.
LEMMA CallConnected ==
  ASSUME TypeOK, KeysDie, call.op # "none"
  PROVE  s.state = "CONNECTED" /\ s.keys = TRUE
  BY DEF KeysDie, NoCall, TypeOK, Sessions

\* tlsi_fail ends the read side and does not pretend that the peer closed it.
LEMMA FailRead ==
  ASSUME NEW t \in Sessions, NEW o, NEW d, NEW r, tlsi_fail(t, o, d, r),
         t.read_closed = s.read_closed, rx' = rx
  PROVE  ReadEnds
<1>1. /\ tlsi_wipe(t).rd = Wiped /\ tlsi_wipe(t).pt = NoData
      /\ tlsi_wipe(t).read_closed = t.read_closed
      /\ {"state", "alert_sent", "rd", "pt", "read_closed"} \subseteq DOMAIN tlsi_wipe(t)
  BY DEF tlsi_wipe, Sessions
<1>2. /\ s'.state = "FAILED" /\ s'.rd = Wiped /\ s'.pt = NoData
      /\ s'.read_closed = t.read_closed
  BY <1>1 DEF tlsi_fail
<1> QED BY <1>2 DEF ReadEnds, tlsi_fail, NoCall

\* hsr_refuse_alert is a failure.
LEMMA RefuseAlertRead ==
  ASSUME NEW t \in Sessions, NEW d \in Alerts \cup {"close_notify", "user_canceled", "malformed"},
         hsr_refuse_alert(t, d), t.read_closed = s.read_closed, rx' = rx
  PROVE  ReadEnds
<1> DEFINE u == IF d \in {"malformed", "close_notify", "user_canceled"} THEN t
                ELSE [t EXCEPT !.alert_received = d]
           a == IF d = "malformed" THEN "decode_error" ELSE "unexpected_message"
<1>1. u \in Sessions /\ u.read_closed = t.read_closed
  BY DEF Sessions
<1>2. tlsi_fail(u, out, a, "EPROTO")
  BY DEF hsr_refuse_alert
<1> HIDE DEF u, a
<1> QED BY <1>1, <1>2, FailRead

\* A handshake record ends the session, or moves the read key exactly when its
\* last message is a KeyUpdate.
LEMMA HspostRead ==
  ASSUME TypeOK, s.state = "CONNECTED", call.op = "read", s.pt.len = 0, rx' = rx,
         NEW c, c.kind = "handshake", hspost_read([s EXCEPT !.rd = rec_open(s.rd)], c)
  PROVE  ReadEnds \/ Takes(c)
<1> DEFINE t == [s EXCEPT !.rd = rec_open(s.rd)]
           last == LastOf(c)
           u == IF last \in {"ku0", "ku1"} THEN handle_key_update(t, last) ELSE t
<1>0. t \in Sessions
  BY OpenType DEF TypeOK
<1>1. /\ t.state = s.state /\ t.rd = rec_open(s.rd) /\ t.pt = s.pt
      /\ t.read_closed = s.read_closed /\ t.key_update_run = s.key_update_run
  BY DEF TypeOK, Sessions
<1>2. \/ \E d, r : tlsi_fail(t, out, d, r)
      \/ s' = t /\ LastOf(c) = "none"
      \/ \E fill : s' = [u EXCEPT !.post_fill = fill]
  BY Zenon DEF hspost_read, LastOf
<1> HIDE DEF t
<1>3. CASE \E d, r : tlsi_fail(t, out, d, r)
  BY <1>0, <1>1, <1>3, FailRead
<1>4. CASE s' = t /\ LastOf(c) = "none"
  BY <1>1, <1>4 DEF Takes
<1>5. ASSUME NEW fill, s' = [u EXCEPT !.post_fill = fill] PROVE Takes(c)
  <2> HIDE DEF last
  <2>1. CASE last \in {"ku0", "ku1"}
    <3>1. /\ u.state = t.state /\ u.rd = rec_dir_update(t.rd) /\ u.pt = t.pt
          /\ u.read_closed = t.read_closed /\ u.key_update_run = t.key_update_run + 1
          /\ {"state", "rd", "pt", "read_closed", "key_update_run", "post_fill"} \subseteq DOMAIN u
      BY <1>0, <2>1 DEF handle_key_update, Sessions
    <3> HIDE DEF u
    <3>2. /\ s'.state = u.state /\ s'.rd = u.rd /\ s'.pt = u.pt
          /\ s'.read_closed = u.read_closed /\ s'.key_update_run = u.key_update_run
      BY <1>5, <3>1
    <3> QED BY <1>1, <2>1, <3>1, <3>2 DEF Takes, last
  <2>2. CASE last \notin {"ku0", "ku1"}
    <3>1. /\ s'.state = t.state /\ s'.rd = t.rd /\ s'.pt = t.pt
          /\ s'.read_closed = t.read_closed /\ s'.key_update_run = t.key_update_run
      BY <1>0, <1>5, <2>2 DEF Sessions
    <3> QED BY <1>1, <2>2, <3>1 DEF Takes, last
  <2> QED BY <2>1, <2>2
<1> QED BY <1>2, <1>3, <1>4, <1>5

\* An alert record is a close_notify, a user_canceled or a failure.
LEMMA ReadAlertRead ==
  ASSUME TypeOK, s.state = "CONNECTED", call.op = "read", s.pt.len = 0, rx' = rx,
         NEW c, c.kind = "alert",
         c.description \in Alerts \cup {"close_notify", "user_canceled", "malformed"},
         read_alert([s EXCEPT !.rd = rec_open(s.rd)], c.description)
  PROVE  ReadEnds \/ Takes(c)
<1> DEFINE t == [s EXCEPT !.rd = rec_open(s.rd)]
<1>0. t \in Sessions
  BY OpenType DEF TypeOK
<1>1. /\ t.state = s.state /\ t.rd = rec_open(s.rd) /\ t.pt = s.pt
      /\ t.read_closed = s.read_closed /\ t.key_update_run = s.key_update_run
  BY DEF TypeOK, Sessions
<1>2. \/ c.description = "close_notify" /\ s' = close_read_side(t) /\ call' = NoCall
      \/ c.description = "user_canceled" /\ s' = t
      \/ hsr_refuse_alert(t, c.description)
  BY DEF read_alert
<1> HIDE DEF t
<1>3. CASE c.description = "close_notify" /\ s' = close_read_side(t) /\ call' = NoCall
  <2>1. s'.state = t.state /\ s'.rd = Wiped /\ s'.pt = NoData /\ s'.read_closed = TRUE
    BY <1>0, <1>3 DEF close_read_side, Sessions
  <2> QED BY <1>1, <1>3, <2>1 DEF Takes, NoCall
<1>4. CASE c.description = "user_canceled" /\ s' = t
  BY <1>1, <1>4 DEF Takes
<1>5. CASE hsr_refuse_alert(t, c.description)
  BY <1>0, <1>1, <1>5, RefuseAlertRead
<1> QED BY <1>2, <1>3, <1>4, <1>5

\* The record that opens ends the session or is taken.
LEMMA ArrivalShape ==
  ASSUME TypeOK, KeysDie, NEW c \in PeerContents, dispatch_one_record(c) \/ open_fragment(c)
  PROVE  opened' = opened + 1 /\ (ReadEnds \/ Takes(c))
<1> DEFINE t == [s EXCEPT !.rd = rec_open(s.rd)]
<1>0. t \in Sessions /\ s \in Sessions
  BY OpenType DEF TypeOK
<1>1. /\ t.state = s.state /\ t.rd = rec_open(s.rd) /\ t.pt = s.pt
      /\ t.read_closed = s.read_closed /\ t.key_update_run = s.key_update_run
  BY DEF TypeOK, Sessions
<1>2. Opening /\ call.op = "read" /\ s.pt.len = 0 /\ opened' = opened + 1 /\ rx' = rx
  BY DEF dispatch_one_record, open_fragment, Opening, Reading
<1>3. s.state = "CONNECTED"
  BY <1>2, CallConnected
<1>4. \/ /\ c.kind = "data"
         /\ s' = [t EXCEPT !.pt = [from |-> c.from, len |-> c.len],
                           !.key_update_run = RunAfterData(t, c.len)]
      \/ c.kind = "handshake" /\ hspost_read(t, c)
      \/ c.kind = "alert" /\ (read_alert(t, c.description) \/ hsr_refuse_alert(t, c.description))
      \/ tlsi_fail(t, out, "unexpected_message", "EPROTO")
  BY DEF dispatch_one_record, open_fragment
<1>5. CASE /\ c.kind = "data"
           /\ s' = [t EXCEPT !.pt = [from |-> c.from, len |-> c.len],
                             !.key_update_run = RunAfterData(t, c.len)]
  <2> HIDE DEF t
  <2>1. /\ s'.state = t.state /\ s'.rd = t.rd /\ s'.pt = [from |-> c.from, len |-> c.len]
        /\ s'.read_closed = t.read_closed /\ s'.key_update_run = RunAfterData(t, c.len)
    BY <1>0, <1>5 DEF Sessions
  <2> QED BY <1>1, <1>2, <1>3, <1>5, <2>1 DEF Takes, RunAfterData
<1>6. CASE c.kind = "handshake" /\ hspost_read(t, c)
  BY <1>2, <1>3, <1>6, HspostRead
<1>7. CASE c.kind = "alert" /\ (read_alert(t, c.description) \/ hsr_refuse_alert(t, c.description))
  <2>1. c.description \in Alerts \cup {"close_notify", "user_canceled", "malformed"}
    BY <1>7, PeerContentsType
  <2>2. CASE read_alert(t, c.description)
    BY <1>2, <1>3, <1>7, <2>1, <2>2, ReadAlertRead
  <2>3. CASE hsr_refuse_alert(t, c.description)
    <3> HIDE DEF t
    <3> QED BY <1>0, <1>1, <1>2, <2>1, <2>3, RefuseAlertRead
  <2> QED BY <1>7, <2>2, <2>3
<1>8. CASE tlsi_fail(t, out, "unexpected_message", "EPROTO")
  <2> HIDE DEF t
  <2> QED BY <1>0, <1>1, <1>2, <1>8, FailRead
<1> QED BY <1>2, <1>4, <1>5, <1>6, <1>7, <1>8

\* A step in which no record of the peer opens.
Local ==
    \/ Calls
    \/ \E sent \in BOOLEAN : key_update_before_record(sent)
    \/ \E sent \in BOOLEAN : tls_write_record(sent)
    \/ ReturnData
    \/ QuietCapReached
    \/ Unopened
    \/ Unprotected
    \/ ReadFails
    \/ NoRoom
    \/ Again

\* Such a step leaves the read side alone, ends it or returns plaintext.
LEMMA LocalShape ==
  ASSUME TypeOK, KeysDie, [Local]_vars
  PROVE  opened' = opened /\ (ReadSame \/ ReadEnds \/ Returns)
<1>0. s \in Sessions /\ s.pt.len \in Nat /\ s.pt.from \in Nat /\ call \in Frames /\ call.n \in Nat
  BY DEF TypeOK, Sessions, Frames
<1>1. CASE UNCHANGED vars
  BY <1>1 DEF vars, ReadSame
<1>2. ASSUME NEW o, NEW d, NEW r, tlsi_fail(s, o, d, r), rx' = rx, opened' = opened
      PROVE  opened' = opened /\ ReadEnds
  BY <1>0, <1>2, FailRead
<1>3. CASE Calls
  <2>1. CASE \E n : tls_write(n) \/ tls_read(n)
    BY <1>0, <2>1, Zenon DEF ReadSame, tls_write, tls_read, NoCall, Sessions
  <2>2. CASE tls_close
    <3>1. /\ tlsi_wipe(s).rd = Wiped /\ tlsi_wipe(s).pt = NoData
          /\ tlsi_wipe(s).read_closed = s.read_closed
          /\ {"state", "rd", "pt", "read_closed"} \subseteq DOMAIN tlsi_wipe(s)
      BY <1>0 DEF tlsi_wipe, Sessions
    <3>2. /\ s'.state = "CLOSED" /\ s'.rd = Wiped /\ s'.pt = NoData
          /\ s'.read_closed = s.read_closed
      BY <2>2, <3>1 DEF tls_close
    <3> QED BY <2>2, <3>2 DEF ReadEnds, tls_close, NoCall
  <2>3. ASSUME NEW d, NEW sent, tls_fail(d, sent)
        PROVE  opened' = opened /\ (ReadSame \/ ReadEnds)
    BY <1>2, <2>3 DEF tls_fail, ReadSame
  <2> QED BY <1>3, <2>1, <2>2, <2>3 DEF Calls
<1>4. ASSUME NEW sent \in BOOLEAN, key_update_before_record(sent)
      PROVE  opened' = opened /\ (ReadSame \/ ReadEnds)
  <2> DEFINE t == [s EXCEPT !.wr = rec_seal(s.wr)]
             o == Append(out, Sealed(s.wr, KeyUpdate))
  <2>1. t \in Sessions /\ t.read_closed = s.read_closed
    BY <1>0, SealType DEF Sessions
  <2>2. \/ \E p, d, r : tlsi_fail(s, p, d, r)
        \/ tlsi_fail(t, o, "internal_error", "EIO")
        \/ s' = hspost_send_key_update(s) /\ call' = call
    BY <1>4 DEF key_update_before_record
  <2>3. rx' = rx /\ opened' = opened
    BY <1>4 DEF key_update_before_record
  <2> HIDE DEF t, o
  <2>4. CASE s' = hspost_send_key_update(s) /\ call' = call
    <3>1. /\ s'.rd = s.rd /\ s'.pt = s.pt /\ s'.read_closed = s.read_closed
          /\ s'.key_update_run = s.key_update_run
      BY <1>0, <2>4 DEF hspost_send_key_update, Sessions
    <3> QED BY <2>3, <2>4, <3>1 DEF ReadSame
  <2> QED BY <1>2, <2>1, <2>2, <2>3, <2>4, FailRead
<1>5. ASSUME NEW sent \in BOOLEAN, tls_write_record(sent)
      PROVE  opened' = opened /\ (ReadSame \/ ReadEnds)
  <2> DEFINE t == [s EXCEPT !.wr = rec_seal(s.wr)]
  <2>1. /\ t \in Sessions /\ t.read_closed = s.read_closed
        /\ t.rd = s.rd /\ t.pt = s.pt /\ t.key_update_run = s.key_update_run
    BY <1>0, SealType DEF Sessions
  <2>2. \/ \E p, d, r : tlsi_fail(s, p, d, r)
        \/ \E p, d, r : tlsi_fail(t, p, d, r)
        \/ s' = t /\ call'.op # "read"
    BY <1>0, <1>5, SMTT(30) DEF tls_write_record, NoCall, Frames
  <2>3. rx' = rx /\ opened' = opened
    BY <1>5 DEF tls_write_record
  <2> HIDE DEF t
  <2> QED BY <1>2, <2>1, <2>2, <2>3, FailRead DEF ReadSame
<1>6. CASE ReturnData
  <2> DEFINE take == IF s.pt.len < call.n THEN s.pt.len ELSE call.n
  <2>1. /\ s.pt.len > 0 /\ rx' = rx \o [i \in 1..take |-> s.pt.from + (i - 1)]
        /\ s' = [s EXCEPT !.pt = Unread(s.pt, take)] /\ opened' = opened
    BY <1>6 DEF ReturnData
  <2>2. /\ s'.rd = s.rd /\ s'.read_closed = s.read_closed
        /\ s'.key_update_run = s.key_update_run /\ s'.pt = Unread(s.pt, take)
    BY <1>0, <2>1 DEF Sessions
  <2>3. take \in 0..s.pt.len
    BY <1>0
  <2> QED BY <1>6, <2>1, <2>2, <2>3, Zenon DEF Returns, Unread, ReturnData, NoCall
<1>7. CASE QuietCapReached \/ Unopened \/ Unprotected \/ ReadFails \/ NoRoom
  BY <1>2, <1>7 DEF QuietCapReached, Unopened, Unprotected, ReadFails, NoRoom
<1>8. CASE Again
  BY <1>8 DEF Again, ReadSame, NoCall
<1> QED BY <1>1, <1>3, <1>4, <1>5, <1>6, <1>7, <1>8 DEF Local

-----------------------------------------------------------------------------
(* A reader and its peer: what a session that reads the records of another one
   makes of them *)

Before(a, b) == a.gen < b.gen \/ (a.gen = b.gen /\ a.seq < b.seq)

Ordered(o) == \A i, j \in 1..Len(o) : i < j => Before(o[i], o[j])

\* The contents of the three kinds of record a session seals are told apart.
LEMMA ContentKinds ==
  /\ KeyUpdate.kind = "handshake" /\ IsKeyUpdate(KeyUpdate)
  /\ \A f, l : Data(f, l).kind = "data" /\ ~IsKeyUpdate(Data(f, l)) /\ IsData(Data(f, l))
  /\ \A a : Alert(a).kind = "alert" /\ Alert(a).description = a /\ ~IsKeyUpdate(Alert(a)) /\ ~IsData(Alert(a))
  /\ ~IsData(KeyUpdate)
  BY DEF KeyUpdate, Handshake, Data, Alert, IsKeyUpdate, IsData

Follows(o) ==
    /\ o # <<>> => <<o[1].gen, o[1].seq>> = <<0, 0>>
    /\ \A i \in 1..(Len(o) - 1) :
          \/ <<o[i + 1].gen, o[i + 1].seq>> = After(o[i])
          \/ o[i + 1].content = Alert("internal_error")

\* What waits in pt is the next of the stream, nothing waits once the peer closed
\* its side, and a ch_read in progress has not met the end.
StreamInv ==
    /\ InOrder
    /\ s.pt.len > 0 => s.pt.from = Len(rx)
    /\ s.read_closed = TRUE => s.pt.len = 0 /\ call.op # "read"

Ascends(r) == \A i \in 1..Len(r) : r[i] = i - 1

\* The next n bytes of the stream extend it.
LEMMA InOrderExtends ==
  ASSUME NEW r \in Seq(Nat), Ascends(r), NEW f \in Nat, NEW n \in Nat,
         n > 0 => f = Len(r)
  PROVE  LET q == r \o [i \in 1..n |-> f + (i - 1)] IN
         Len(q) = Len(r) + n /\ Ascends(q)
<1> DEFINE e == [i \in 1..n |-> f + (i - 1)]
<1>1. e \in Seq(Nat) /\ Len(e) = n /\ \A i \in 1..n : e[i] = f + (i - 1)
  <2>1. e \in [1..n -> Nat]
    OBVIOUS
  <2>2. e \in Seq(Nat) /\ Len(e) = n
    <3> HIDE DEF e
    <3> QED BY <2>1
  <2> QED BY <2>2
<1> HIDE DEF e
<1>2. Len(r \o e) = Len(r) + n /\ Len(r) \in Nat
  <2>1. e \in Seq(Nat) /\ Len(e) = n
    BY <1>1
  <2> QED BY <2>1
<1>3. ASSUME NEW i \in 1..Len(r \o e) PROVE (r \o e)[i] = i - 1
  <2>1. CASE i <= Len(r)
    <3>1. (r \o e)[i] = r[i] /\ i \in 1..Len(r)
      BY <1>1, <1>2, <2>1
    <3> QED BY <3>1 DEF Ascends
  <2>2. CASE i > Len(r)
    <3>1. (r \o e)[i] = e[i - Len(r)] /\ i - Len(r) \in 1..n
      BY <1>1, <1>2, <2>2
    <3> QED BY <1>1, <1>2, <3>1
  <2> QED BY <1>2, <2>1, <2>2
<1> QED BY <1>2, <1>3 DEF e, Ascends

\* What a session seals besides data.
OwnContent(c) ==
    c = KeyUpdate \/ c = NewSessionTicket \/ \E a \in Alerts \cup {"close_notify"} : c = Alert(a)

\* After the first n records of o, with w bytes in all, byte k comes next.
NextByte(o, n, w, k) ==
    \/ \E i \in (n + 1)..Len(o) :
          /\ IsData(o[i].content) /\ o[i].content.from = k
          /\ \A j \in (n + 1)..(i - 1) : ~IsData(o[j].content)
    \/ w = k /\ \A j \in (n + 1)..Len(o) : ~IsData(o[j].content)

Carries(c, w) ==
    OwnContent(c) \/ \E f \in Nat, len \in 0..PlaintextMax : c = Data(f, len) /\ f + len <= w

\* The data records of o are the stream of w bytes, cut in order.
Stream(o, w) ==
    /\ \A i \in 1..Len(o) : Carries(o[i].content, w)
    /\ NextByte(o, 0, w, 0)
    /\ \A i \in 1..Len(o) :
          IsData(o[i].content) => NextByte(o, i, w, o[i].content.from + o[i].content.len)

\* What a session seals besides data is not data.
LEMMA OwnNotData == \A c : OwnContent(c) => ~IsData(c)
  BY ContentKinds DEF OwnContent, NewSessionTicket, Handshake, IsData

\* The fields of a data record's content.
LEMMA DataFields == \A f, l : Data(f, l).from = f /\ Data(f, l).len = l /\ IsData(Data(f, l))
  BY DEF Data, IsData

\* What a session's records are to a reader.
Readable(o, w) ==
    /\ o \in Seq(Records) /\ w \in Nat /\ Ordered(o) /\ Follows(o) /\ Stream(o, w)
    /\ \A i \in 1..Len(o) : o[i].content.kind = "alert" => i = Len(o)

\* A reader that holds key and sequence number rd opened the first n records of
\* o, and k of the w bytes in o arrived.
Abreast(rd, n, k, o, w) ==
    /\ n <= Len(o) /\ k <= w
    /\ rd.live = TRUE =>
          /\ <<rd.gen, rd.seq>> = IF n = 0 THEN <<0, 0>> ELSE After(o[n])
          /\ NextByte(o, n, w, k)

\* After a record comes a later key or sequence number.
LEMMA AfterLater ==
  ASSUME NEW r \in Records
  PROVE  \A d \in Dir : <<d.gen, d.seq>> = After(r) => Before(r, d)
<1>1. r.gen \in Nat /\ r.seq \in Nat
  BY DEF Records
<1> QED BY <1>1 DEF After, Before

\* rec_open opens the next record and no other.
LEMMA OpensNext ==
  ASSUME NEW o, NEW w, Readable(o, w), NEW rd \in Dir, NEW n \in Nat, NEW k,
         Abreast(rd, n, k, o, w), NEW i \in 1..Len(o), rec_open_ok(rd, o[i])
  PROVE  i = n + 1
<1>1. /\ o \in Seq(Records) /\ Len(o) \in Nat /\ Ordered(o) /\ Follows(o) /\ n <= Len(o)
      /\ \A j \in 1..Len(o) : o[j].content.kind = "alert" => j = Len(o)
  BY DEF Readable, Abreast
<1>2. \A j \in 1..Len(o) : o[j] \in Records /\ o[j].gen \in Nat /\ o[j].seq \in Nat
  <2>1. \A j \in 1..Len(o) : o[j] \in Records
    BY <1>1
  <2> QED BY <2>1 DEF Records
<1>3. /\ o[i].gen = rd.gen /\ o[i].seq = rd.seq /\ rd.gen \in Nat /\ rd.seq \in Nat
      /\ <<rd.gen, rd.seq>> = IF n = 0 THEN <<0, 0>> ELSE After(o[n])
  <2>1. rd.live = TRUE /\ o[i].gen = rd.gen /\ o[i].seq = rd.seq
    BY DEF rec_open_ok
  <2>2. <<rd.gen, rd.seq>> = IF n = 0 THEN <<0, 0>> ELSE After(o[n])
    BY <2>1 DEF Abreast
  <2> QED BY <2>1, <2>2
<1>4. ASSUME n # 0, i <= n PROVE FALSE
  <2>1. n \in 1..Len(o)
    BY <1>1, <1>4
  <2>2. Before(o[n], rd)
    BY <1>2, <1>3, <1>4, <2>1, AfterLater, Zenon
  <2>3. i = n \/ Before(o[i], o[n])
    BY <1>1, <1>4, <2>1 DEF Ordered
  <2> QED BY <1>2, <1>3, <2>1, <2>2, <2>3 DEF Before
<1>5. ASSUME i > n + 1 PROVE FALSE
  <2>1. n + 1 \in 1..Len(o) /\ n + 1 # Len(o) /\ (n # 0 => n \in 1..(Len(o) - 1))
    BY <1>1, <1>5
  <2>2. Before(o[n + 1], o[i])
    BY <1>1, <1>5, <2>1, SMTT(30) DEF Ordered
  <2>3. o[n + 1].content # Alert("internal_error")
    BY <1>1, <2>1, ContentKinds
  <2>4. <<o[n + 1].gen, o[n + 1].seq>> = IF n = 0 THEN <<0, 0>> ELSE After(o[n])
    <3>1. CASE n = 0
      BY <1>1, <2>1, <3>1 DEF Follows
    <3>2. CASE n # 0
      BY <1>1, <2>1, <2>3, <3>2 DEF Follows
    <3> QED BY <3>1, <3>2
  <2>5. o[n + 1].gen = rd.gen /\ o[n + 1].seq = rd.seq
    BY <1>3, <2>4, SMTT(30)
  <2> QED BY <1>2, <1>3, <2>1, <2>2, <2>5 DEF Before
<1> QED BY <1>1, <1>4, <1>5

\* What the next record carries and what comes after it.
LEMMA NextCarries ==
  ASSUME NEW o, NEW w, Readable(o, w), NEW n \in Nat, n < Len(o), NEW k, NextByte(o, n, w, k)
  PROVE  LET c == o[n + 1].content IN
         /\ ~IsData(c) => NextByte(o, n + 1, w, k)
         /\ IsData(c) => /\ c.from = k /\ c.len \in 0..PlaintextMax /\ k + c.len <= w
                         /\ NextByte(o, n + 1, w, k + c.len)
         /\ c.kind = "alert" => k = w
<1> DEFINE c == o[n + 1].content
<1>1. o \in Seq(Records) /\ Len(o) \in Nat /\ n + 1 \in 1..Len(o) /\ Stream(o, w)
  BY SMTT(30) DEF Readable
<1>2. CASE ~IsData(c)
  <2>1. CASE \E i \in (n + 1)..Len(o) :
                /\ IsData(o[i].content) /\ o[i].content.from = k
                /\ \A j \in (n + 1)..(i - 1) : ~IsData(o[j].content)
    <3>1. PICK i \in (n + 1)..Len(o) :
                /\ IsData(o[i].content) /\ o[i].content.from = k
                /\ \A j \in (n + 1)..(i - 1) : ~IsData(o[j].content)
      BY <2>1
    <3>2. i # n + 1
      BY <1>2, <3>1
    <3>3. i \in (n + 1 + 1)..Len(o) /\ \A j \in (n + 1 + 1)..(i - 1) : j \in (n + 1)..(i - 1)
      BY <1>1, <3>2
    <3>4. NextByte(o, n + 1, w, k)
      BY <3>1, <3>3 DEF NextByte
    <3>5. c.kind # "alert"
      <4>1. n + 1 # Len(o)
        BY <1>1, <3>3
      <4> QED BY <1>1, <4>1 DEF Readable
    <3> QED BY <1>2, <3>4, <3>5
  <2>2. CASE w = k /\ \A j \in (n + 1)..Len(o) : ~IsData(o[j].content)
    <3>1. \A j \in (n + 1 + 1)..Len(o) : j \in (n + 1)..Len(o)
      BY <1>1
    <3>2. NextByte(o, n + 1, w, k)
      BY <2>2, <3>1 DEF NextByte
    <3> QED BY <1>2, <2>2, <3>2
  <2> QED BY <2>1, <2>2, SMTT(30) DEF NextByte
<1>3. CASE IsData(c)
  <2>1. n + 1 \in (n + 1)..Len(o)
    BY <1>1
  <2>2. PICK i \in (n + 1)..Len(o) :
                /\ IsData(o[i].content) /\ o[i].content.from = k
                /\ \A j \in (n + 1)..(i - 1) : ~IsData(o[j].content)
    BY <1>3, <2>1 DEF NextByte
  <2>3. i = n + 1
    <3>1. i > n + 1 => n + 1 \in (n + 1)..(i - 1)
      BY <1>1
    <3> QED BY <1>1, <1>3, <2>2, <3>1
  <2>4. c.from = k
    BY <2>2, <2>3
  <2>5. NextByte(o, n + 1, w, c.from + c.len)
    BY <1>1, <1>3 DEF Stream
  <2>6. PICK f \in Nat, len \in 0..PlaintextMax : c = Data(f, len) /\ f + len <= w
    BY <1>1, <1>3, OwnNotData, SMTT(30) DEF Stream, Carries
  <2>7. c.len \in 0..PlaintextMax /\ k + c.len <= w
    BY <2>4, <2>6, DataFields
  <2> QED BY <1>3, <2>4, <2>5, <2>7 DEF IsData
<1> QED BY <1>2, <1>3

\* The constants let the peer be a session of this code.
PeerCovers ==
    /\ {<<"ku0">>, <<"ticket">>} \subseteq PeerRuns /\ PeerAlerts = Alerts
    /\ PlaintextMax <= PeerLen

\* What the peer sealed next is something a peer may send.
LEMMA PeerSends ==
  ASSUME PeerCovers, TypeOK, NEW o, NEW w, Readable(o, w),
         Abreast(s.rd, opened, Received, o, w), NEW i \in 1..Len(o), rec_open_ok(s.rd, o[i])
  PROVE  o[i].content \in PeerContents
<1> DEFINE c == o[i].content
<1>1. s.rd \in Dir /\ opened \in Nat /\ s.rd.live = TRUE
  BY DEF TypeOK, Sessions, rec_open_ok
<1>2. i = opened + 1 /\ opened < Len(o)
  <2>1. i = opened + 1
    BY <1>1, OpensNext
  <2>2. Len(o) \in Nat
    BY DEF Readable
  <2> QED BY <1>1, <2>1, <2>2
<1>3. Carries(c, w)
  BY DEF Readable, Stream
<1>4. CASE OwnContent(c)
  <2>1. CASE c = KeyUpdate \/ c = NewSessionTicket
    <3>1. \A m \in PeerRuns : Handshake(m, FALSE) \in PeerContents
      BY DEF PeerContents, Handshake
    <3>2. <<"ku0">> \in PeerRuns /\ <<"ticket">> \in PeerRuns
      BY DEF PeerCovers
    <3> QED BY <2>1, <3>1, <3>2, ZenonT(40) DEF KeyUpdate, NewSessionTicket
  <2>2. CASE \E a \in Alerts \cup {"close_notify"} : c = Alert(a)
    BY <2>2 DEF PeerCovers, PeerContents, Alert
  <2> QED BY <1>4, <2>1, <2>2 DEF OwnContent
<1>5. ASSUME NEW f \in Nat, NEW len \in 0..PlaintextMax, c = Data(f, len)
      PROVE  c \in PeerContents
  <2>1. NextByte(o, opened, w, Received)
    BY <1>1 DEF Abreast
  <2>2. f = Received
    <3>1. IsData(o[opened + 1].content) /\ o[opened + 1].content.from = f
      BY <1>2, <1>5, DataFields
    <3> QED BY <1>1, <1>2, <2>1, <3>1, NextCarries, SMTT(30)
  <2>3. len \in 0..PeerLen
    BY SessionAssumption DEF PeerCovers
  <2>4. Data(f, len) \in [kind : {"data"}, from : {Received}, len : 0..PeerLen]
    BY <2>2, <2>3 DEF Data
  <2> QED BY <1>5, <2>4 DEF PeerContents
<1> QED BY <1>3, <1>4, <1>5 DEF Carries

\* The last message of a record of this code's own.
LEMMA OwnLast ==
  /\ KeyUpdate.kind = "handshake" /\ LastOf(KeyUpdate) = "ku0" /\ IsKeyUpdate(KeyUpdate)
  /\ LastOf(NewSessionTicket) = "ticket" /\ ~IsKeyUpdate(NewSessionTicket)
  BY DEF KeyUpdate, NewSessionTicket, Handshake, LastOf, IsKeyUpdate

\* While no plaintext waits, what was received is what was returned.
LEMMA AllReturned ==
  ASSUME s.pt.len = 0, Len(rx) \in Nat
  PROVE  Received = Len(rx)
  BY DEF Received

\* A reader that takes the peer's record stays abreast, and it reports the end
\* of the stream only when all of the stream arrived.
LEMMA ReaderTakes ==
  ASSUME PeerCovers, TypeOK, KeysDie, NEW o, NEW w, Readable(o, w),
         Abreast(s.rd, opened, Received, o, w), NEW i \in 1..Len(o), rec_open_ok(s.rd, o[i]),
         dispatch_one_record(o[i].content) \/ open_fragment(o[i].content)
  PROVE  /\ Abreast(s'.rd, opened', Received', o, w)
         /\ rx' = rx
         /\ s'.read_closed # s.read_closed =>
               /\ s.read_closed = FALSE /\ s'.read_closed = TRUE /\ Len(rx) = w
               /\ o # <<>> /\ o[Len(o)].content = Alert("close_notify")
<1> DEFINE c == o[i].content
<1>0. /\ s.rd \in Dir /\ s.rd.gen \in Nat /\ s.rd.seq \in Nat /\ opened \in Nat /\ s.rd.live = TRUE
      /\ Len(rx) \in Nat /\ s.pt.len \in Nat /\ s.read_closed \in BOOLEAN
  BY DEF TypeOK, Sessions, rec_open_ok
<1>1. c \in PeerContents
  BY PeerSends
<1>2. opened' = opened + 1 /\ (ReadEnds \/ Takes(c))
  BY <1>1, ArrivalShape
<1>3. i = opened + 1 /\ opened < Len(o) /\ Len(o) \in Nat /\ opened' <= Len(o) /\ opened' # 0
  <2>1. i = opened + 1
    BY <1>0, OpensNext
  <2>2. Len(o) \in Nat
    BY DEF Readable
  <2> QED BY <1>0, <1>2, <2>1, <2>2, SMTT(30)
<1>4. NextByte(o, opened, w, Received) /\ Received <= w /\ w \in Nat
  BY <1>0, SMTT(30) DEF Abreast, Readable
<1>5. /\ ~IsData(c) => NextByte(o, opened', w, Received)
      /\ IsData(c) => /\ c.from = Received /\ c.len \in 0..PlaintextMax /\ Received + c.len <= w
                      /\ NextByte(o, opened', w, Received + c.len)
      /\ c.kind = "alert" => Received = w
  <2>1. /\ ~IsData(c) => NextByte(o, opened + 1, w, Received)
        /\ IsData(c) => /\ c.from = Received /\ c.len \in 0..PlaintextMax /\ Received + c.len <= w
                        /\ NextByte(o, opened + 1, w, Received + c.len)
        /\ c.kind = "alert" => Received = w
    BY <1>0, <1>3, <1>4, NextCarries, SMTT(30)
  <2> QED BY <1>2, <2>1, SMTT(30)
<1>6. o[opened'] = o[i] /\ o[i].gen = s.rd.gen /\ o[i].seq = s.rd.seq
  BY <1>2, <1>3, SMTT(30) DEF rec_open_ok
<1>7. CASE ReadEnds
  <2>1. s'.rd.live = FALSE /\ s'.pt.len = 0 /\ rx' = rx /\ s'.read_closed = s.read_closed
    BY <1>7 DEF ReadEnds, Wiped, NoData
  <2>2. Received' <= w
    BY <1>0, <1>4, <2>1, SMTT(30) DEF Received
  <2> QED BY <1>3, <2>1, <2>2, SMTT(30) DEF Abreast
<1>8. CASE Takes(c)
  <2>1. s.pt.len = 0 /\ rx' = rx /\ Received = Len(rx)
    <3>1. s.pt.len = 0 /\ rx' = rx
      BY <1>8 DEF Takes
    <3>2. Received = Len(rx)
      BY <1>0, <3>1, AllReturned
    <3> QED BY <3>1, <3>2, ZenonT(40)
  <2>2. /\ <<rec_open(s.rd).gen, rec_open(s.rd).seq>> = <<s.rd.gen, s.rd.seq + 1>>
        /\ <<rec_dir_update(rec_open(s.rd)).gen, rec_dir_update(rec_open(s.rd)).seq>>
             = <<s.rd.gen + 1, 0>>
    BY <1>0, SMTT(30) DEF rec_open, rec_dir_update
  <2>3. CASE /\ c.kind = "data" /\ s'.pt = [from |-> c.from, len |-> c.len]
             /\ s'.rd = rec_open(s.rd) /\ s'.read_closed = s.read_closed
    <3>1. IsData(c) /\ ~IsKeyUpdate(c)
      BY <2>3, ZenonT(40) DEF IsData, IsKeyUpdate
    <3>2. Received' = Received + c.len
      BY <1>0, <2>1, <2>3, SMTT(30) DEF Received
    <3>3. After(o[opened']) = <<s.rd.gen, s.rd.seq + 1>>
      BY <1>6, <3>1, SMTT(30) DEF After
    <3> QED BY <1>3, <1>5, <2>1, <2>2, <2>3, <3>1, <3>2, <3>3, ZenonT(40) DEF Abreast
  <2>4. CASE /\ c.kind # "data" /\ s'.pt = s.pt /\ s'.read_closed = s.read_closed
             /\ s'.rd = IF IsKeyUpdate(c) THEN rec_dir_update(rec_open(s.rd)) ELSE rec_open(s.rd)
    <3>1. ~IsData(c)
      BY <2>4, ZenonT(40) DEF IsData
    <3>2. Received' = Received
      BY <2>1, <2>4, SMTT(30) DEF Received
    <3>3. After(o[opened']) = <<s'.rd.gen, s'.rd.seq>>
      BY <1>6, <2>2, <2>4, SMTT(30) DEF After
    <3> QED BY <1>3, <1>4, <1>5, <2>1, <2>4, <3>1, <3>2, <3>3, SMTT(30) DEF Abreast
  <2>5. CASE /\ c.kind = "alert" /\ c.description = "close_notify"
             /\ s'.rd = Wiped /\ s'.pt = NoData /\ s'.read_closed = TRUE
    <3>1. s'.rd.live = FALSE /\ s'.pt.len = 0
      BY <2>5 DEF Wiped, NoData
    <3>2. Received' = Received
      BY <1>0, <2>1, <3>1, SMTT(30) DEF Received
    <3>3. Len(rx) = w
      BY <1>5, <2>1, <2>5, SMTT(30)
    <3>4. i = Len(o)
      BY <2>5, SMTT(30) DEF Readable
    <3>5. c = Alert("close_notify")
      <4>1. Carries(c, w)
        BY SMTT(30) DEF Readable, Stream
      <4>2. PICK a \in Alerts \cup {"close_notify"} : c = Alert(a)
        BY <2>5, <4>1, ContentKinds DEF Carries, OwnContent, NewSessionTicket, Handshake
      <4> QED BY <2>5, <4>2, ContentKinds, SMTT(30)
    <3>6. o # <<>>
      BY <1>0, <1>3, SMTT(30)
    <3> QED BY <1>0, <1>3, <1>4, <2>1, <2>5, <3>1, <3>2, <3>3, <3>4, <3>5, <3>6, ZenonT(40) DEF Abreast
  <2>6. c.kind = "handshake" => (LastOf(c) \in {"ku0", "ku1"} <=> IsKeyUpdate(c))
    <3>1. Carries(c, w)
      BY DEF Readable, Stream
    <3> QED BY <3>1, OwnLast, ContentKinds, SMTT(30) DEF Carries, OwnContent
  <2>7. c.kind = "alert" => ~IsKeyUpdate(c)
    BY DEF IsKeyUpdate
  <2> QED BY <1>8, <2>3, <2>4, <2>5, <2>6, <2>7, ZenonT(40) DEF Takes
<1> QED BY <1>2, <1>7, <1>8, Zenon

\* So does a reader that takes no record.
LEMMA ReaderLocal ==
  ASSUME TypeOK, KeysDie, StreamInv, [Local]_vars, NEW o, NEW w, Readable(o, w),
         Abreast(s.rd, opened, Received, o, w)
  PROVE  /\ Abreast(s'.rd, opened', Received', o, w)
         /\ s'.read_closed = s.read_closed
         /\ \/ rx' = rx
            \/ /\ s.read_closed = FALSE
               /\ \E n \in 1..(w - Len(rx)) : rx' = rx \o [j \in 1..n |-> Len(rx) + (j - 1)]
<1>0. /\ s.pt.len \in Nat /\ s.pt.from \in Nat /\ rx \in Seq(Nat) /\ Len(rx) \in Nat /\ w \in Nat
      /\ opened \in Nat /\ s.read_closed \in BOOLEAN
  BY DEF TypeOK, Sessions, Readable
<1>1. opened' = opened /\ (ReadSame \/ ReadEnds \/ Returns)
  BY LocalShape
<1>2. CASE ReadSame
  <2>1. s'.rd = s.rd /\ Received' = Received /\ rx' = rx /\ s'.read_closed = s.read_closed
    BY <1>2 DEF ReadSame, Received
  <2> QED BY <1>1, <2>1
<1>3. CASE ReadEnds
  <2>1. s'.rd.live = FALSE /\ s'.pt.len = 0 /\ rx' = rx /\ s'.read_closed = s.read_closed
    BY <1>3 DEF ReadEnds, Wiped, NoData
  <2>2. Received' <= w
    BY <1>0, <2>1, SMTT(30) DEF Received, Abreast
  <2> QED BY <1>1, <2>1, <2>2, SMTT(30) DEF Abreast
<1>4. CASE Returns
  <2>1. PICK take \in 0..s.pt.len :
            /\ rx' = rx \o [j \in 1..take |-> s.pt.from + (j - 1)]
            /\ s'.pt = [from |-> s.pt.from + take, len |-> s.pt.len - take]
    BY <1>4, ZenonT(40) DEF Returns
  <2>2. take \in Nat /\ (take > 0 => s.pt.from = Len(rx))
    BY <1>0, <2>1 DEF StreamInv
  <2>3. Len(rx') = Len(rx) + take
    BY <1>0, <2>1, <2>2, InOrderExtends DEF StreamInv, InOrder, Ascends
  <2>4. s'.pt.len = s.pt.len - take
    BY <2>1
  <2>5. Received' = Received
    <3>1. Len(rx) \in Nat /\ s.pt.len \in Nat /\ take \in Nat
      BY <1>0, <2>2, SMTT(30)
    <3> QED BY <2>3, <2>4, <3>1 DEF Received
  <2>6. CASE take = 0
    <3>1. [j \in 1..take |-> s.pt.from + (j - 1)] = <<>>
      BY <2>6
    <3>2. rx \o <<>> = rx
      BY <1>0
    <3>3. rx' = rx
      BY <2>1, <3>1, <3>2, Zenon
    <3> QED BY <1>1, <1>4, <2>5, <3>3 DEF Returns
  <2>7. CASE take > 0
    <3>1. take \in 1..(w - Len(rx))
      BY <1>0, <2>2, <2>7, SMTT(30) DEF Abreast, Received
    <3>2. rx' = rx \o [j \in 1..take |-> Len(rx) + (j - 1)]
      BY <2>1, <2>2, <2>7, Zenon
    <3>3. s.read_closed = FALSE
      BY <1>0, <2>2, <2>7 DEF StreamInv
    <3> QED BY <1>1, <1>4, <2>5, <3>1, <3>2, <3>3, Zenon DEF Returns
  <2>8. take = 0 \/ take > 0
    BY <2>2
  <2> QED BY <2>6, <2>7, <2>8, Zenon
<1> QED BY <1>1, <1>2, <1>3, <1>4, ZenonT(40)

-----------------------------------------------------------------------------
(* The shapes of a step *)

\* A step that seals nothing: the start of a call, a return, a read.
Silent ==
    /\ out' = out
    /\ s'.state = s.state /\ s'.keys = s.keys /\ s'.wr = s.wr
    /\ s'.send_epochs = s.send_epochs
    /\ \/ asked' = asked /\ s'.key_update_owed = s.key_update_owed
       \/ asked' = asked \cup {Len(out)} /\ s'.key_update_owed = TRUE
    /\ s.state # "CONNECTED" => s' = s /\ call' = call
    /\ \/ s'.rd.live = s.rd.live /\ s'.read_closed = s.read_closed
       \/ s'.rd.live = FALSE /\ s'.read_closed = TRUE

\* A KeyUpdate or a data record may be sealed next.
MaySeal(c) ==
    /\ s.state = "CONNECTED" /\ s.keys = TRUE /\ rec_seal_ok(s.wr)
    /\ \/ c = KeyUpdate /\ ~EpochsSpent(s) /\ records_before_key_update(s) = 0
       \/ /\ records_before_key_update(s) # 0
          /\ \E f, l \in Nat : c = Data(f, l)

Seals ==
    \E c \in Contents :
       /\ MaySeal(c)
       /\ out' = Append(out, Sealed(s.wr, c))
       /\ s' = IF c = KeyUpdate THEN hspost_send_key_update(s)
               ELSE [s EXCEPT !.wr = rec_seal(s.wr)]
       /\ asked' = asked

\* The alert that ends the session.
LastAlert(a) ==
    a = "close_notify" \/ (a \in Alerts /\ a = s'.alert_sent /\ s'.alert_received = "none")

\* The end of the session, with what it leaves in out.
Ends ==
    /\ s'.state # "CONNECTED" /\ s'.keys = FALSE
    /\ s'.wr = Wiped /\ s'.rd = Wiped /\ s'.pt = NoData /\ call' = NoCall
    /\ asked' = asked
    /\ s.state # "CONNECTED" =>
          s'.alert_sent = s.alert_sent /\ s'.alert_received = s.alert_received /\ out' = out
    /\ \/ out' = out
       \/ /\ s.keys = TRUE /\ rec_seal_ok(s.wr)
          /\ \E a \in Alerts \cup {"close_notify"} :
                LastAlert(a) /\ out' = Append(out, Sealed(s.wr, Alert(a)))
       \/ \E c \in Contents : MaySeal(c) /\ out' = Append(out, Sealed(s.wr, c))
       \/ /\ rec_seal_ok(rec_seal(s.wr))
          /\ LastAlert("internal_error")
          /\ \E c \in Contents :
                /\ MaySeal(c)
                /\ out' = Append(Append(out, Sealed(s.wr, c)),
                                 Sealed(rec_seal(s.wr), Alert("internal_error")))

\* Every step of the session is silent, seals one record, or ends it.
LEMMA StepShape == TypeOK /\ KeysDie /\ [Next]_vars => Silent \/ Seals \/ Ends
\* tlsi_fail ends the session with an alert or without one.
<1>FailShape.
  ASSUME NEW t \in Sessions, NEW o, NEW d \in Alerts, NEW r, t.keys = TRUE, tlsi_fail(t, o, d, r)
  PROVE  /\ s'.state # "CONNECTED" /\ s'.keys = FALSE
         /\ s'.wr = Wiped /\ s'.rd = Wiped /\ s'.pt = NoData /\ call' = NoCall
         /\ \/ out' = o
            \/ rec_seal_ok(t.wr) /\ LastAlert(d) /\ out' = Append(o, Sealed(t.wr, Alert(d)))
  <2> USE <1>FailShape
  <2>1. /\ tlsi_wipe(t) \in Sessions /\ tlsi_wipe(t).wr = Wiped /\ tlsi_wipe(t).rd = Wiped
        /\ tlsi_wipe(t).pt = NoData /\ tlsi_wipe(t).keys = FALSE
        /\ tlsi_wipe(t).alert_received = t.alert_received
    <3>1. tlsi_wipe(t) \in Sessions
      BY Zenon DEF tlsi_wipe, Sessions, Wiped, NoData
    <3>2. QED
      BY <3>1 DEF tlsi_wipe, Sessions
  <2>2. /\ s'.state = "FAILED" /\ s'.wr = Wiped /\ s'.rd = Wiped /\ s'.pt = NoData
        /\ s'.keys = FALSE /\ s'.alert_received = t.alert_received
        /\ t.alert_received = "none" => s'.alert_sent = d
    BY <2>1 DEF tlsi_fail, Sessions
  <2>3. \/ out' = o
        \/ /\ t.alert_received = "none" /\ rec_seal_ok(t.wr)
           /\ out' = Append(o, Sealed(t.wr, Alert(d)))
    BY DEF tlsi_fail, tlsi_send_alert
  <2>4. call' = NoCall
    BY DEF tlsi_fail
  <2>5. QED
    BY <2>2, <2>3, <2>4 DEF LastAlert
\* A failure met while reading, or by ch_fail, leaves the write side alone until
\* tlsi_fail.
<1>FailEnds.
  ASSUME s.state = "CONNECTED", NEW t \in Sessions, t.wr = s.wr, s.keys = TRUE, t.keys = TRUE,
         NEW d \in Alerts, NEW r, tlsi_fail(t, out, d, r), UNCHANGED asked
  PROVE  Ends
  BY <1>FailEnds, <1>FailShape, Zenon DEF Ends
\* What reading a handshake record does to the session's write side.
<1>HspostReadShape.
  ASSUME TypeOK, s.state = "CONNECTED", s.keys = TRUE, call.op = "read", call.quiet < QuietCap,
         s.post_fill < FillCap,
         NEW m \in PeerRuns, NEW o \in BOOLEAN, NEW c,
         c = [kind |-> "handshake", msgs |-> m, open |-> o],
         hspost_read([s EXCEPT !.rd = rec_open(s.rd)], c)
  PROVE  Silent \/ Ends
  <2> USE <1>HspostReadShape
  <2> DEFINE t == [s EXCEPT !.rd = rec_open(s.rd)]
             last == IF c.msgs = <<>> THEN "none" ELSE c.msgs[Len(c.msgs)]
             u == IF last \in {"ku0", "ku1"} THEN handle_key_update(t, last) ELSE t
  <2>0. t \in Sessions
    BY OpenType DEF TypeOK
  <2>1. /\ t.wr = s.wr /\ t.keys = TRUE /\ t.state = s.state /\ t.send_epochs = s.send_epochs
        /\ t.key_update_owed = s.key_update_owed /\ t.rd.live = s.rd.live
        /\ t.read_closed = s.read_closed /\ t.post_fill = s.post_fill
    BY DEF TypeOK, Sessions, rec_open
  <2> HIDE DEF t
  <2>2. CASE (\E r \in FirstRefusal(t, c) : tlsi_fail(t, out, r[1], r[2])) /\ UNCHANGED asked
    <3>1. PICK r \in FirstRefusal(t, c) : tlsi_fail(t, out, r[1], r[2])
      BY <2>2, Zenon
    <3>2. r[1] \in Alerts
      BY <2>0, FirstRefusalType, Zenon
    <3>3. QED
      BY <2>0, <2>1, <2>2, <3>1, <3>2, <1>FailEnds, Zenon
  <2>3. CASE UNCHANGED asked /\ tlsi_fail(t, out, "unexpected_message", "EPROTO")
    BY <2>0, <2>1, <2>3, <1>FailEnds, Zenon DEF Alerts
  <2>4. CASE UNCHANGED asked /\ s' = t /\ UNCHANGED <<out, ret>>
    BY <2>1, <2>4, Zenon DEF Silent
  <2>5. ASSUME NEW fill,
               s' = [u EXCEPT !.post_fill = fill], out' = out,
               asked' = IF OwesAnswer(t, last) THEN asked \cup {Len(out)} ELSE asked
        PROVE  Silent
    <3> HIDE DEF last
    <3>1. CASE last \in {"ku0", "ku1"}
      <4>1. /\ u.wr = t.wr /\ u.keys = t.keys /\ u.state = t.state /\ u.send_epochs = t.send_epochs
            /\ u.read_closed = t.read_closed /\ u.rd.live = t.rd.live
            /\ u.key_update_owed = IF OwesAnswer(t, last) THEN TRUE ELSE t.key_update_owed
        BY <2>0, <3>1, Zenon DEF handle_key_update, rec_dir_update, Sessions
      <4>2. /\ s'.wr = u.wr /\ s'.keys = u.keys /\ s'.state = u.state /\ s'.send_epochs = u.send_epochs
            /\ s'.read_closed = u.read_closed /\ s'.rd = u.rd
            /\ s'.key_update_owed = u.key_update_owed
        BY <2>0, <2>5, <3>1, SMTT(30) DEF handle_key_update, Sessions
      <4>3. QED
        <5> HIDE DEF u
        <5> QED BY <2>1, <2>5, <4>1, <4>2, ZenonT(40) DEF Silent
    <3>2. CASE last \notin {"ku0", "ku1"}
      <4>1. u = t /\ ~OwesAnswer(t, last)
        BY <3>2 DEF OwesAnswer
      <4>2. /\ s'.wr = t.wr /\ s'.keys = t.keys /\ s'.state = t.state /\ s'.send_epochs = t.send_epochs
            /\ s'.read_closed = t.read_closed /\ s'.rd = t.rd
            /\ s'.key_update_owed = t.key_update_owed
        BY <2>0, <2>5, <4>1 DEF Sessions
      <4>3. QED
        BY <2>1, <2>5, <4>1, <4>2, Zenon DEF Silent
    <3>3. QED
      BY <3>1, <3>2
  <2>6. QED
    BY <2>2, <2>3, <2>4, <2>5, Zenon DEF hspost_read, NextIteration, t
\* The peer's close_notify closes the read side and nothing else.
<1>CloseReadSideFields.
  ASSUME NEW t \in Sessions
  PROVE  LET u == close_read_side(t) IN
         /\ u.wr = t.wr /\ u.keys = t.keys /\ u.state = t.state /\ u.send_epochs = t.send_epochs
         /\ u.key_update_owed = t.key_update_owed /\ u.rd = Wiped /\ u.read_closed = TRUE
  BY <1>CloseReadSideFields DEF close_read_side, Sessions
\* An alert record that is refused ends the session.
<1>RefuseAlertEnds.
  ASSUME s.state = "CONNECTED", NEW t \in Sessions, t.wr = s.wr, s.keys = TRUE, t.keys = TRUE,
         NEW d \in Alerts \cup {"close_notify", "user_canceled", "malformed"},
         hsr_refuse_alert(t, d), UNCHANGED asked
  PROVE  Ends
  <2> USE <1>RefuseAlertEnds
  <2> DEFINE u == IF d \in {"malformed", "close_notify", "user_canceled"} THEN t
                  ELSE [t EXCEPT !.alert_received = d]
             a == IF d = "malformed" THEN "decode_error" ELSE "unexpected_message"
  <2>1. u \in Sessions /\ u.wr = s.wr /\ u.keys = TRUE
    BY DEF Sessions
  <2>2. a \in Alerts
    BY DEF Alerts
  <2>3. tlsi_fail(u, out, a, "EPROTO")
    BY DEF hsr_refuse_alert
  <2>4. QED
    <3> HIDE DEF u, a
    <3> QED BY <2>1, <2>2, <2>3, <1>FailEnds, ZenonT(40)
<1> SUFFICES ASSUME TypeOK, KeysDie, [Next]_vars PROVE Silent \/ Seals \/ Ends
  OBVIOUS
<1>0. ASSUME s' = s, out' = out, asked' = asked, s.state # "CONNECTED" => call' = call PROVE Silent
  BY <1>0 DEF Silent
<1>1. ASSUME NEW n \in 0..MaxWrite, tls_write(n) PROVE Silent
  BY <1>0, <1>1 DEF tls_write
<1>2. ASSUME NEW n \in 0..(PeerLen + 1), tls_read(n) PROVE Silent
  BY <1>0, <1>2 DEF tls_read
<1>3. CASE tls_close
  <2>1. /\ s'.state # "CONNECTED" /\ s'.keys = FALSE
        /\ s'.wr = Wiped /\ s'.rd = Wiped /\ s'.pt = NoData
        /\ s'.alert_sent = s.alert_sent /\ s'.alert_received = s.alert_received
    <3>1. /\ tlsi_wipe(s) \in Sessions /\ tlsi_wipe(s).keys = FALSE
          /\ tlsi_wipe(s).wr = Wiped /\ tlsi_wipe(s).rd = Wiped /\ tlsi_wipe(s).pt = NoData
          /\ tlsi_wipe(s).alert_sent = s.alert_sent
          /\ tlsi_wipe(s).alert_received = s.alert_received
      BY Zenon DEF TypeOK, tlsi_wipe, Sessions, Wiped, NoData
    <3>2. QED
      BY <1>3, <3>1 DEF tls_close, Sessions
  <2>2. call' = NoCall /\ asked' = asked
    BY <1>3 DEF tls_close
  <2>3. \/ out' = out
        \/ s.keys = TRUE /\ rec_seal_ok(s.wr) /\ out' = Append(out, Sealed(s.wr, Alert("close_notify")))
    BY <1>3 DEF tls_close, tlsi_send_alert, TypeOK, Sessions
  <2>4. s.state # "CONNECTED" => out' = out
    BY <1>3 DEF tls_close, tlsi_send_alert, KeysDie
  <2>5. QED
    BY <2>1, <2>2, <2>3, <2>4 DEF Ends, LastAlert
<1>4. ASSUME NEW d \in {"record_overflow", "close_notify"}, NEW sent \in BOOLEAN, tls_fail(d, sent)
      PROVE  Silent \/ Ends
  <2>1. CASE s.state # "CONNECTED" \/ d \notin Alerts
    BY <1>0, <1>4, <2>1 DEF tls_fail
  <2>2. CASE s.state = "CONNECTED" /\ d \in Alerts
    <3>1. s \in Sessions /\ s.keys = TRUE
      BY <2>2 DEF TypeOK, KeysDie, Sessions
    <3>2. QED
      BY <1>4, <2>2, <3>1, <1>FailEnds, Zenon DEF tls_fail
  <2>3. QED
    BY <2>1, <2>2
<1>5. ASSUME NEW sent \in BOOLEAN, key_update_before_record(sent) PROVE Seals \/ Ends
  <2> DEFINE o == Append(out, Sealed(s.wr, KeyUpdate))
             t == [s EXCEPT !.wr = rec_seal(s.wr)]
  <2>1. /\ s.state = "CONNECTED" /\ s.keys = TRUE /\ s \in Sessions /\ asked' = asked
        /\ KeyUpdate \in Contents /\ "internal_error" \in Alerts
    BY <1>5, CallConnected, ContentsType, Zenon DEF key_update_before_record, TypeOK, Alerts
  <2>2. t \in Sessions /\ t.wr = rec_seal(s.wr) /\ t.keys = TRUE
    BY <2>1, SealType DEF Sessions
  <2>3. CASE tlsi_fail(s, out, "internal_error", "ECAP") \/ tlsi_fail(s, out, "internal_error", "EIO")
    BY <2>1, <2>3, <1>FailEnds, Zenon
  <2>4. CASE ~EpochsSpent(s) /\ rec_seal_ok(s.wr) /\ tlsi_fail(t, o, "internal_error", "EIO")
    <3>1. MaySeal(KeyUpdate)
      BY <1>5, <2>1, <2>4 DEF MaySeal, key_update_before_record
    <3>2. QED
      <4> HIDE DEF t
      <4> QED BY <2>1, <2>2, <2>4, <3>1, <1>FailShape, Zenon DEF Ends
  <2>5. CASE ~EpochsSpent(s) /\ rec_seal_ok(s.wr) /\ s' = hspost_send_key_update(s) /\ out' = o
    <3>1. MaySeal(KeyUpdate)
      BY <1>5, <2>1, <2>5 DEF MaySeal, key_update_before_record
    <3>2. QED
      BY <2>1, <2>5, <3>1 DEF Seals
  <2>6. QED
    BY <1>5, <2>3, <2>4, <2>5 DEF key_update_before_record
<1>6. ASSUME NEW sent \in BOOLEAN, tls_write_record(sent) PROVE Seals \/ Ends
  <2> DEFINE len == IF call.n < PlaintextMax THEN call.n ELSE PlaintextMax
             t == [s EXCEPT !.wr = rec_seal(s.wr)]
             c == Data(written, len)
             o == Append(out, Sealed(s.wr, c))
  <2>1. /\ s.state = "CONNECTED" /\ s.keys = TRUE /\ s \in Sessions /\ asked' = asked
        /\ "internal_error" \in Alerts
    BY <1>6, CallConnected, Zenon DEF tls_write_record, TypeOK, Alerts
  <2>2. t \in Sessions /\ t.wr = rec_seal(s.wr) /\ t.keys = TRUE
    BY <2>1, SealType DEF Sessions
  <2>3. len \in Nat /\ written \in Nat
    BY SessionAssumption DEF TypeOK, Frames
  <2>4. c \in Contents /\ c # KeyUpdate
    <3> HIDE DEF len
    <3> QED BY <2>3, ContentsType DEF Data, KeyUpdate, Handshake
  <2>5. CASE tlsi_fail(s, out, "internal_error", "ECAP")
    BY <2>1, <2>5, <1>FailEnds, Zenon
  <2>6. rec_seal_ok(s.wr) => MaySeal(c)
    <3> HIDE DEF len
    <3> QED BY <1>6, <2>1, <2>3 DEF MaySeal, tls_write_record
  <2>7. CASE rec_seal_ok(s.wr) /\ tlsi_fail(t, o, "internal_error", "EIO")
    <3> HIDE DEF t, c
    <3> QED BY <2>1, <2>2, <2>4, <2>6, <2>7, <1>FailShape, ZenonT(40) DEF Ends, MaySeal
  <2>8. CASE rec_seal_ok(s.wr) /\ s' = t /\ out' = o
    <3> HIDE DEF c
    <3> QED BY <2>1, <2>4, <2>6, <2>8 DEF Seals
  <2>9. QED
    BY <1>6, <2>5, <2>7, <2>8 DEF tls_write_record
<1>7. CASE ReturnData
  <2>1. s.state = "CONNECTED" /\ out' = out /\ asked' = asked
    BY <1>7, CallConnected DEF ReturnData
  <2>2. \E pt : s' = [s EXCEPT !.pt = pt]
    BY <1>7, Zenon DEF ReturnData
  <2>3. QED
    BY <2>1, <2>2 DEF Silent, TypeOK, Sessions
<1>8. ASSUME Reading \/ call.op = "read", NEW d \in Alerts, NEW r, tlsi_fail(s, out, d, r), asked' = asked
      PROVE  Ends
  BY <1>8, CallConnected, <1>FailEnds, Zenon DEF Reading, TypeOK
<1>9. CASE QuietCapReached
  BY <1>8, <1>9 DEF QuietCapReached, Alerts
<1>10. ASSUME NEW c \in PeerContents, dispatch_one_record(c) PROVE Silent \/ Ends
  <2> DEFINE t == [s EXCEPT !.rd = rec_open(s.rd)]
  <2>0. /\ call.op = "read" /\ call.quiet < QuietCap /\ s.post_fill < FillCap
        /\ s.state = "CONNECTED" /\ s.keys = TRUE
    <3>1. call.op = "read" /\ call.quiet < QuietCap /\ s.post_fill = 0
      BY <1>10 DEF dispatch_one_record, Opening, Reading
    <3>2. s.state = "CONNECTED" /\ s.keys = TRUE
      BY <3>1, CallConnected, Zenon
    <3>3. 0 < FillCap
      BY SessionAssumption
    <3>4. QED
      BY <3>1, <3>2, <3>3
  <2>1. t \in Sessions
    BY OpenType DEF TypeOK
  <2>2. /\ t.wr = s.wr /\ t.keys = TRUE /\ t.state = s.state /\ t.send_epochs = s.send_epochs
        /\ t.key_update_owed = s.key_update_owed /\ t.rd.live = s.rd.live
        /\ t.read_closed = s.read_closed
    BY <2>0 DEF TypeOK, Sessions, rec_open
  <2>3. CASE /\ UNCHANGED asked /\ NextIteration
             /\ s' = [t EXCEPT !.pt = [from |-> c.from, len |-> c.len],
                               !.key_update_run = RunAfterData(t, c.len)]
    <3> HIDE DEF t
    <3>1. /\ s'.wr = t.wr /\ s'.keys = t.keys /\ s'.state = t.state /\ s'.send_epochs = t.send_epochs
          /\ s'.key_update_owed = t.key_update_owed /\ s'.rd = t.rd
          /\ s'.read_closed = t.read_closed
      BY <2>1, <2>3 DEF Sessions
    <3>2. QED
      BY <2>0, <2>2, <2>3, <3>1, Zenon DEF Silent, NextIteration
  <2>4. CASE c.kind = "handshake" /\ hspost_read(t, c)
    <3>1. PICK m \in PeerRuns, o \in BOOLEAN : c = [kind |-> "handshake", msgs |-> m, open |-> o]
      BY <2>4, PeerContentsType
    <3>2. QED
      BY <2>0, <2>4, <3>1, <1>HspostReadShape, ZenonT(40)
  <2>5. CASE c.kind = "alert" /\ read_alert(t, c.description) /\ UNCHANGED asked
    <3> HIDE DEF t
    <3>1. c.description \in Alerts \cup {"close_notify", "user_canceled", "malformed"}
      BY <2>5, PeerContentsType, SMTT(30)
    <3>2. CASE s' = close_read_side(t) /\ UNCHANGED out
      <4>1. /\ s'.wr = t.wr /\ s'.keys = t.keys /\ s'.state = t.state /\ s'.send_epochs = t.send_epochs
            /\ s'.key_update_owed = t.key_update_owed /\ s'.rd = Wiped
            /\ s'.read_closed = TRUE
        BY <2>1, <3>2, <1>CloseReadSideFields, Zenon
      <4>2. s'.rd.live = FALSE
        BY <4>1 DEF Wiped
      <4>3. QED
        BY <2>0, <2>2, <2>5, <3>2, <4>1, <4>2, Zenon DEF Silent
    <3>3. CASE s' = t /\ NextIteration
      BY <2>0, <2>2, <2>5, <3>3, Zenon DEF Silent, NextIteration
    <3>4. CASE hsr_refuse_alert(t, c.description)
      BY <2>0, <2>1, <2>2, <2>5, <3>1, <3>4, <1>RefuseAlertEnds, Zenon
    <3>5. QED
      BY <2>5, <3>2, <3>3, <3>4 DEF read_alert
  <2>6. CASE tlsi_fail(t, out, "unexpected_message", "EPROTO") /\ UNCHANGED asked
    <3> HIDE DEF t
    <3> QED BY <2>0, <2>1, <2>2, <2>6, <1>FailEnds, Zenon DEF Alerts
  <2>7. QED
    BY <1>10, <2>3, <2>4, <2>5, <2>6 DEF dispatch_one_record
<1>11. ASSUME NEW c \in PeerContents, open_fragment(c) PROVE Silent \/ Ends
  <2> DEFINE t == [s EXCEPT !.rd = rec_open(s.rd)]
  <2>0. /\ call.op = "read" /\ call.quiet < QuietCap /\ s.state = "CONNECTED" /\ s.keys = TRUE
    BY <1>11, CallConnected, Zenon DEF open_fragment, Opening, Reading
  <2>1. t \in Sessions
    BY OpenType DEF TypeOK
  <2>2. t.wr = s.wr /\ t.keys = TRUE
    BY <2>0 DEF TypeOK, Sessions
  <2>3. s.post_fill < FillCap
    <3>1. s.post_fill \in 1..(FillCap - 1)
      BY <1>11 DEF open_fragment
    <3>2. QED
      BY <3>1, SessionAssumption
  <2>4. CASE c.kind = "handshake" /\ hspost_read(t, c)
    <3>1. PICK m \in PeerRuns, o \in BOOLEAN : c = [kind |-> "handshake", msgs |-> m, open |-> o]
      BY <2>4, PeerContentsType
    <3>2. QED
      BY <2>0, <2>3, <2>4, <3>1, <1>HspostReadShape, Zenon
  <2>5. CASE c.kind = "alert" /\ hsr_refuse_alert(t, c.description) /\ UNCHANGED asked
    <3> HIDE DEF t
    <3>1. c.description \in Alerts \cup {"close_notify", "user_canceled", "malformed"}
      BY <2>5, PeerContentsType
    <3>2. QED
      BY <2>0, <2>1, <2>2, <2>5, <3>1, <1>RefuseAlertEnds, Zenon
  <2>6. CASE tlsi_fail(t, out, "unexpected_message", "EPROTO") /\ UNCHANGED asked
    <3> HIDE DEF t
    <3> QED BY <2>0, <2>1, <2>2, <2>6, <1>FailEnds, Zenon DEF Alerts
  <2>7. QED
    BY <1>11, <2>4, <2>5, <2>6 DEF open_fragment
<1>12. CASE Unopened
  BY <1>8, <1>12 DEF Unopened, Alerts
<1>13. CASE Unprotected
  BY <1>8, <1>13 DEF Unprotected, Alerts
<1>14. CASE ReadFails
  <2>1. PICK e \in io_read_record_errors : tlsi_fail(s, out, e[1], e[2])
    BY <1>14 DEF ReadFails
  <2>2. QED
    BY <1>8, <1>14, <2>1, ReadRecordErrorType DEF ReadFails
<1>15. CASE NoRoom
  BY <1>8, <1>15 DEF NoRoom, Alerts
<1>16. CASE Again
  BY <1>0, <1>16, CallConnected DEF Again, Reading
<1>17. CASE UNCHANGED vars
  BY <1>0, <1>17 DEF vars
<1>18. QED
  BY <1>1, <1>2, <1>3, <1>4, <1>5, <1>6, <1>7, <1>9, <1>10, <1>11, <1>12, <1>13, <1>14, <1>15,
     <1>16, <1>17 DEF Next, Calls, CallStep

\* tlsi_wipe and close_read_side: KeysDie is inductive.
LEMMA KeysDieStep == TypeOK /\ KeysDie /\ [Next]_vars => KeysDie'
<1> SUFFICES ASSUME TypeOK, KeysDie, [Next]_vars PROVE KeysDie'
  OBVIOUS
<1>0. s \in Sessions /\ s' \in Sessions
  BY TypeStep DEF TypeOK
<1>1. CASE Silent
  <2>1. CASE s.state = "CONNECTED"
    BY <1>0, <1>1, <2>1, SMTT(30) DEF Silent, KeysDie, Sessions
  <2>2. CASE s.state # "CONNECTED"
    BY <1>1, <2>2 DEF Silent, KeysDie
  <2>3. QED
    BY <2>1, <2>2
<1>2. CASE Seals
  <2>1. PICK c : /\ MaySeal(c)
                 /\ s' = IF c = KeyUpdate THEN hspost_send_key_update(s)
                         ELSE [s EXCEPT !.wr = rec_seal(s.wr)]
    BY <1>2 DEF Seals
  <2>2. /\ s'.state = "CONNECTED" /\ s'.keys = s.keys /\ s'.rd = s.rd
        /\ s'.read_closed = s.read_closed
    BY <1>0, <2>1 DEF MaySeal, hspost_send_key_update, Sessions
  <2>3. s'.wr.live = s.wr.live
    <3>1. s'.wr = rec_seal(s.wr) \/ s'.wr = rec_dir_update(s.wr)
      BY <1>0, <2>1 DEF hspost_send_key_update, Sessions
    <3>2. s.wr \in Dir
      BY <1>0 DEF Sessions
    <3>3. QED
      BY <3>1, <3>2, ZenonT(40) DEF rec_seal, rec_dir_update
  <2>4. s.state = "CONNECTED"
    BY <2>1 DEF MaySeal
  <2>5. QED
    BY <2>2, <2>3, <2>4 DEF KeysDie
<1>3. CASE Ends
  BY <1>3 DEF Ends, KeysDie
<1>4. QED
  BY <1>1, <1>2, <1>3, StepShape

(***************************************************************************)
(* No nonce repeats.  The inductive invariant is that the records left in  *)
(* the order of their keys and sequence numbers, and that the write key    *)
(* stands after all of them while the session holds it.                    *)
(***************************************************************************)

AllBefore(o, d) == \A i \in 1..Len(o) : Before(o[i], d)

NonceInv == Ordered(out) /\ (s.keys = TRUE => AllBefore(out, s.wr))

\* NonceInv is inductive.
LEMMA NonceStep == TypeOK /\ KeysDie /\ NonceInv /\ [Next]_vars => NonceInv'
\* rec_seal at the direction's next sequence number keeps the order, and both
\* the next sequence number and the next key stand after the new record.
<1>SealOrdered.
  ASSUME NEW o \in Seq(Records), NEW d \in Dir, NEW c \in Contents, Ordered(o), AllBefore(o, d)
  PROVE  LET p == Append(o, Sealed(d, c)) IN
         /\ p \in Seq(Records) /\ Ordered(p)
         /\ AllBefore(p, rec_seal(d)) /\ AllBefore(p, rec_dir_update(d))
  <2> USE <1>SealOrdered
  <2> DEFINE p == Append(o, Sealed(d, c))
  <2>1. p \in Seq(Records) /\ Len(p) = Len(o) + 1 /\ Len(o) \in Nat
    BY SealedType
  <2>2. /\ \A i \in 1..Len(o) : p[i] = o[i] /\ o[i] \in Records
        /\ p[Len(o) + 1] = Sealed(d, c)
    BY SealedType
  <2>3. Sealed(d, c).gen = d.gen /\ Sealed(d, c).seq = d.seq /\ d.gen \in Nat /\ d.seq \in Nat
    BY DEF Sealed
  <2> HIDE DEF p
  <2>4. Ordered(p)
    <3> SUFFICES ASSUME NEW i \in 1..Len(p), NEW j \in 1..Len(p), i < j PROVE Before(p[i], p[j])
      BY DEF Ordered
    <3>1. CASE j \in 1..Len(o)
      BY <2>1, <2>2, <3>1 DEF Ordered
    <3>2. CASE j = Len(o) + 1
      BY <2>1, <2>2, <2>3, <3>2 DEF AllBefore, Before
    <3>3. QED
      BY <2>1, <3>1, <3>2
  <2>5. rec_seal(d).gen = d.gen /\ rec_seal(d).seq = d.seq + 1 /\ rec_dir_update(d).gen = d.gen + 1
    BY DEF rec_seal, rec_dir_update
  <2>6. ASSUME NEW i \in 1..Len(p) PROVE Before(p[i], rec_seal(d)) /\ Before(p[i], rec_dir_update(d))
    <3>1. CASE i \in 1..Len(o)
      <4>1. Before(o[i], d) /\ o[i].gen \in Nat /\ o[i].seq \in Nat
        BY <2>2, <3>1 DEF AllBefore, Records
      <4>2. QED
        BY <2>2, <2>3, <2>5, <3>1, <4>1 DEF Before
    <3>2. CASE i = Len(o) + 1
      BY <2>2, <2>3, <2>5, <3>2 DEF Before
    <3>3. QED
      BY <2>1, <3>1, <3>2
  <2>7. QED
    BY <2>1, <2>4, <2>6 DEF AllBefore, p
<1> SUFFICES ASSUME TypeOK, KeysDie, NonceInv, [Next]_vars PROVE NonceInv'
  OBVIOUS
<1>0. s \in Sessions /\ s.wr \in Dir /\ out \in Seq(Records)
  BY DEF TypeOK, Sessions
<1>1. CASE Silent
  BY <1>1 DEF Silent, NonceInv
<1>2. ASSUME NEW c \in Contents, s.keys = TRUE
      PROVE  LET p == Append(out, Sealed(s.wr, c)) IN
             /\ p \in Seq(Records) /\ Ordered(p)
             /\ AllBefore(p, rec_seal(s.wr)) /\ AllBefore(p, rec_dir_update(s.wr))
  BY <1>0, <1>2, <1>SealOrdered DEF NonceInv
<1>3. CASE Seals
  <2>1. PICK c \in Contents :
           /\ MaySeal(c) /\ out' = Append(out, Sealed(s.wr, c))
           /\ s' = IF c = KeyUpdate THEN hspost_send_key_update(s)
                   ELSE [s EXCEPT !.wr = rec_seal(s.wr)]
    BY <1>3 DEF Seals
  <2>2. s'.wr = rec_seal(s.wr) \/ s'.wr = rec_dir_update(s.wr)
    BY <1>0, <2>1 DEF hspost_send_key_update, Sessions
  <2>3. s.keys = TRUE
    BY <2>1 DEF MaySeal
  <2>4. QED
    BY <1>2, <2>1, <2>2, <2>3, Zenon DEF NonceInv
<1>4. CASE Ends
  <2>1. s'.keys = FALSE
    BY <1>4 DEF Ends
  <2>2. Ordered(out')
    <3>1. CASE out' = out
      BY <3>1 DEF NonceInv
    <3>2. ASSUME NEW a \in Alerts \cup {"close_notify"}, s.keys = TRUE,
                 out' = Append(out, Sealed(s.wr, Alert(a)))
          PROVE  Ordered(out')
      BY <1>2, <3>2, ContentsType, Zenon
    <3>3. ASSUME NEW c \in Contents, MaySeal(c), out' = Append(out, Sealed(s.wr, c))
          PROVE  Ordered(out')
      BY <1>2, <3>3, Zenon DEF MaySeal
    <3>4. ASSUME NEW c \in Contents, MaySeal(c),
                 out' = Append(Append(out, Sealed(s.wr, c)),
                               Sealed(rec_seal(s.wr), Alert("internal_error")))
          PROVE  Ordered(out')
      <4> DEFINE p == Append(out, Sealed(s.wr, c))
      <4>1. p \in Seq(Records) /\ Ordered(p) /\ AllBefore(p, rec_seal(s.wr))
        BY <1>2, <3>4, Zenon DEF MaySeal
      <4>2. rec_seal(s.wr) \in Dir /\ Alert("internal_error") \in Contents
        BY <1>0, DirType, ContentsType DEF Alerts
      <4> HIDE DEF p
      <4>3. Ordered(Append(p, Sealed(rec_seal(s.wr), Alert("internal_error"))))
        BY <4>1, <4>2, <1>SealOrdered
      <4>4. QED
        BY <3>4, <4>3 DEF p
    <3>5. QED
      BY <1>4, <3>1, <3>2, <3>3, <3>4, Zenon DEF Ends
  <2>3. QED
    BY <2>1, <2>2 DEF NonceInv
<1>5. QED
  BY <1>1, <1>3, <1>4, StepShape

\* Records in the order of their keys and sequence numbers are all different.
LEMMA OrderedFresh == TypeOK /\ NonceInv => NonceFresh
<1> SUFFICES ASSUME TypeOK, NonceInv, NEW i \in 1..Len(out), NEW j \in 1..Len(out), i # j
             PROVE  <<out[i].gen, out[i].seq>> # <<out[j].gen, out[j].seq>>
  BY DEF NonceFresh
<1>1. /\ out[i].gen \in Nat /\ out[i].seq \in Nat
      /\ out[j].gen \in Nat /\ out[j].seq \in Nat
  <2>1. out[i] \in Records /\ out[j] \in Records
    BY DEF TypeOK
  <2>2. QED
    BY <2>1 DEF Records
<1>2. Before(out[i], out[j]) \/ Before(out[j], out[i])
  <2>1. i < j \/ j < i
    BY DEF TypeOK
  <2>2. QED
    BY <2>1 DEF NonceInv, Ordered
<1>3. QED
  BY <1>1, <1>2 DEF Before

\* A session that just connected.
LEMMA InitKeys == Init => KeysDie /\ NonceInv
<1> SUFFICES ASSUME Init PROVE KeysDie /\ NonceInv
  OBVIOUS
<1>1. PICK ticket \in BOOLEAN :
        /\ s.state = "CONNECTED" /\ s.keys = TRUE /\ s.rd = rec_dir_init
        /\ s.wr = IF ticket THEN rec_seal(rec_dir_init) ELSE rec_dir_init
        /\ s.read_closed = FALSE
        /\ out = IF ticket THEN <<Sealed(rec_dir_init, NewSessionTicket)>> ELSE <<>>
  <2>1. PICK ticket \in BOOLEAN :
          /\ s = [state |-> "CONNECTED", keys |-> TRUE, rd |-> rec_dir_init,
                  wr |-> IF ticket THEN rec_seal(rec_dir_init) ELSE rec_dir_init,
                  key_update_owed |-> FALSE, key_update_run |-> 0, send_epochs |-> 0,
                  read_closed |-> FALSE, alert_sent |-> "none", alert_received |-> "none",
                  pt |-> NoData, post_fill |-> 0]
          /\ out = IF ticket THEN <<Sealed(rec_dir_init, NewSessionTicket)>> ELSE <<>>
    BY SessionAssumption, Zenon DEF Init
  <2>2. QED
    BY <2>1
<1>2. /\ rec_dir_init.live = TRUE /\ rec_seal(rec_dir_init).live = TRUE
      /\ rec_seal(rec_dir_init).gen = 0 /\ rec_seal(rec_dir_init).seq = 1
      /\ rec_dir_init.gen = 0 /\ rec_dir_init.seq = 0
  BY DEF rec_dir_init, rec_seal
<1>3. KeysDie
  BY <1>1, <1>2 DEF KeysDie
<1>4. NonceInv
  <2>1. CASE ticket
    <3>1. Len(out) = 1 /\ out[1].gen = 0 /\ out[1].seq = 0
      BY <1>1, <1>2, <2>1 DEF Sealed
    <3>2. QED
      BY <1>1, <1>2, <2>1, <3>1 DEF NonceInv, Ordered, AllBefore, Before
  <2>2. CASE ~ticket
    BY <1>1, <2>2 DEF NonceInv, Ordered, AllBefore
  <2>3. QED
    BY <2>1, <2>2, SMTT(30)
<1>5. QED
  BY <1>3, <1>4

\* No nonce repeats under a key, for every number of writes, KeyUpdates and
\* failures and for both suites (rec_seal, rec_dir_update, tlsi_fail, tls_close).
THEOREM NonceFreshAlways == Spec => []NonceFresh
<1> DEFINE Inv == TypeOK /\ KeysDie /\ NonceInv
<1>1. Init => Inv
  BY TypeInit, InitKeys
<1>2. Inv /\ [Next]_vars => Inv'
  BY TypeStep, KeysDieStep, NonceStep
<1>3. Inv => NonceFresh
  BY OrderedFresh
<1>4. QED
  BY <1>1, <1>2, <1>3, PTL DEF Spec

\* A session that ended holds no key, no plaintext and no call (tlsi_wipe,
\* close_read_side).
THEOREM KeysDieAlways == Spec => []KeysDie
<1> DEFINE Inv == TypeOK /\ KeysDie
<1>1. Init => Inv
  BY TypeInit, InitKeys
<1>2. Inv /\ [Next]_vars => Inv'
  BY TypeStep, KeysDieStep
<1>3. QED
  BY <1>1, <1>2, PTL DEF Spec

\* No call revives a session that ended or seals a record under it (tls_read,
\* tls_write_parts, tls_fail, tls_close).
THEOREM DeadStaysDeadAlways == Spec => DeadStaysDead
<1> DEFINE Inv == TypeOK /\ KeysDie
<1>1. Init => Inv
  BY TypeInit, InitKeys
<1>2. Inv /\ [Next]_vars => Inv'
  BY TypeStep, KeysDieStep
<1>3. Inv /\ [Next]_vars => [s.state # "CONNECTED" => s'.state # "CONNECTED" /\ out' = out]_vars
  BY StepShape DEF Silent, Seals, MaySeal, Ends
<1>4. QED
  BY <1>1, <1>2, <1>3, PTL DEF Spec, DeadStaysDead

-----------------------------------------------------------------------------
(* What leaves a connected session: the alert at the end and the order a peer
   can follow, with what the other invariants of the output begin with.  Each is
   an invariant of the step shapes above. *)

\* A record at the end of a sequence.
LEMMA PushFacts ==
  ASSUME NEW o \in Seq(Records), NEW r \in Records
  PROVE  /\ Append(o, r) \in Seq(Records) /\ Len(o) \in Nat /\ Len(Append(o, r)) = Len(o) + 1
         /\ \A i \in 1..Len(o) : Append(o, r)[i] = o[i] /\ o[i] \in Records
         /\ Append(o, r)[Len(o) + 1] = r
  OBVIOUS

\* A sealed record carries its key, its sequence number and its content.
LEMMA SealedFields ==
  ASSUME NEW d, NEW c
  PROVE  Sealed(d, c).gen = d.gen /\ Sealed(d, c).seq = d.seq /\ Sealed(d, c).content = c
  BY DEF Sealed

(***************************************************************************)
(* The limits of a key and the answers owed, which follow further below.   *)
(***************************************************************************)

WithinKey(r) ==
    /\ AesGcm => r.seq < RecordsMax /\ (r.seq = RecordsMax - 1 => ~IsData(r.content))
    /\ r.gen <= SendEpochsMax

KeyLimitInv ==
    /\ \A i \in 1..Len(out) : WithinKey(out[i])
    /\ s.keys = TRUE => s.wr.gen = s.send_epochs

Answered(o, a) == \E k \in (a + 1)..Len(o) : IsKeyUpdate(o[k].content)

AnsweredFirst(o, A) ==
    \A a \in A : \A i \in (a + 1)..Len(o) :
        IsData(o[i].content) => \E k \in (a + 1)..(i - 1) : IsKeyUpdate(o[k].content)

\* An unanswered request is owed its answer while the session is connected.
AnswerInv ==
    /\ AnsweredFirst(out, asked)
    /\ \A a \in asked :
          /\ a <= Len(out)
          /\ s.state = "CONNECTED" /\ s.key_update_owed = FALSE => Answered(out, a)

(***************************************************************************)
(* The alert at the end.                                                   *)
(***************************************************************************)

\* AlertEndsSession is inductive: a connected session has sealed no alert, the
\* step that ends it seals at most one, and nothing follows.
LEMMA AlertStep == TypeOK /\ KeysDie /\ AlertEndsSession /\ [Next]_vars => AlertEndsSession'
<1> SUFFICES ASSUME TypeOK, KeysDie, AlertEndsSession, [Next]_vars PROVE AlertEndsSession'
  OBVIOUS
<1>0. s.wr \in Dir /\ out \in Seq(Records)
  BY DEF TypeOK, Sessions
<1>1. CASE Silent
  <2>1. CASE s.state = "CONNECTED"
    BY <1>1, <2>1 DEF Silent, AlertEndsSession
  <2>2. CASE s.state # "CONNECTED"
    BY <1>1, <2>2 DEF Silent, AlertEndsSession
  <2>3. QED
    BY <2>1, <2>2
<1>2. ASSUME NEW c \in Contents, MaySeal(c)
      PROVE  LET p == Append(out, Sealed(s.wr, c)) IN
             p \in Seq(Records) /\ \A i \in 1..Len(p) : p[i].content.kind # "alert"
  <2>1. s.state = "CONNECTED" /\ c.kind # "alert"
    BY <1>2, ContentKinds DEF MaySeal
  <2>2. \A i \in 1..Len(out) : out[i].content.kind # "alert"
    BY <2>1 DEF AlertEndsSession
  <2>3. Sealed(s.wr, c) \in Records /\ Sealed(s.wr, c).content = c
    BY <1>0, SealedType, SealedFields
  <2>4. QED
    BY <1>0, <2>1, <2>2, <2>3, PushFacts
<1>3. CASE Seals
  BY <1>2, <1>3 DEF Seals, AlertEndsSession
<1>4. CASE Ends
  <2>0. s'.state # "CONNECTED"
    BY <1>4 DEF Ends
  <2>1. ASSUME NEW o \in Seq(Records), \A i \in 1..Len(o) : o[i].content.kind # "alert",
               NEW d \in Dir, NEW a \in Alerts \cup {"close_notify"}, LastAlert(a),
               out' = Append(o, Sealed(d, Alert(a)))
        PROVE  AlertEndsSession'
    <3>1. /\ Sealed(d, Alert(a)) \in Records /\ Sealed(d, Alert(a)).content = Alert(a)
          /\ Alert(a).description = a
      BY ContentsType, SealedType, SealedFields, ContentKinds
    <3>2. IsFatal(Alert(a)) => a = s'.alert_sent /\ s'.alert_received = "none"
      BY <2>1, <3>1 DEF IsFatal, LastAlert
    <3>3. QED
      BY <2>0, <2>1, <3>1, <3>2, PushFacts DEF AlertEndsSession
  <2>2. CASE out' = out
    <3>1. CASE s.state = "CONNECTED"
      BY <2>2, <3>1 DEF AlertEndsSession
    <3>2. CASE s.state # "CONNECTED"
      BY <1>4, <2>2, <3>2 DEF AlertEndsSession, Ends
    <3>3. QED
      BY <3>1, <3>2
  <2>3. ASSUME NEW a \in Alerts \cup {"close_notify"}, s.keys = TRUE, LastAlert(a),
               out' = Append(out, Sealed(s.wr, Alert(a)))
        PROVE  AlertEndsSession'
    <3>1. s.state = "CONNECTED"
      BY <2>3 DEF KeysDie
    <3>2. \A i \in 1..Len(out) : out[i].content.kind # "alert"
      BY <3>1 DEF AlertEndsSession
    <3>3. QED
      BY <1>0, <2>1, <2>3, <3>2
  <2>4. ASSUME NEW c \in Contents, MaySeal(c), out' = Append(out, Sealed(s.wr, c))
        PROVE  AlertEndsSession'
    BY <1>2, <2>4 DEF AlertEndsSession
  <2>5. ASSUME NEW c \in Contents, MaySeal(c), LastAlert("internal_error"),
               out' = Append(Append(out, Sealed(s.wr, c)),
                             Sealed(rec_seal(s.wr), Alert("internal_error")))
        PROVE  AlertEndsSession'
    <3> DEFINE o == Append(out, Sealed(s.wr, c))
    <3>1. o \in Seq(Records) /\ \A i \in 1..Len(o) : o[i].content.kind # "alert"
      BY <1>2, <2>5
    <3>2. rec_seal(s.wr) \in Dir /\ "internal_error" \in Alerts \cup {"close_notify"}
      BY <1>0, DirType DEF Alerts
    <3>3. out' = Append(o, Sealed(rec_seal(s.wr), Alert("internal_error")))
      BY <2>5
    <3> HIDE DEF o
    <3>4. QED
      BY <2>1, <2>5, <3>1, <3>2, <3>3
  <2>6. QED
    BY <1>4, <2>2, <2>3, <2>4, <2>5, ZenonT(40) DEF Ends
<1>5. QED
  BY <1>1, <1>3, <1>4, StepShape

(***************************************************************************)
(* The order a peer can follow.                                            *)
(***************************************************************************)

\* A peer that opened all of o stands at d.
StandsAt(o, d) ==
    <<d.gen, d.seq>> = IF o = <<>> THEN <<0, 0>> ELSE After(o[Len(o)])

FollowInv == Follows(out) /\ (s.keys = TRUE => StandsAt(out, s.wr))

\* FollowInv is inductive.
LEMMA FollowStep == TypeOK /\ KeysDie /\ FollowInv /\ [Next]_vars => FollowInv'
\* One more record at the place the peer stands is one the peer can follow.
<1>FollowPush.
  ASSUME NEW o \in Seq(Records), NEW d \in Dir, NEW c \in Contents, Follows(o),
         StandsAt(o, d) \/ (o # <<>> /\ c = Alert("internal_error"))
  PROVE  LET p == Append(o, Sealed(d, c)) IN
         /\ p \in Seq(Records) /\ p # <<>> /\ Follows(p)
         /\ StandsAt(p, IF IsKeyUpdate(c) THEN rec_dir_update(d) ELSE rec_seal(d))
  <2> USE <1>FollowPush
  <2> DEFINE p == Append(o, Sealed(d, c))
  <2>0. /\ Sealed(d, c) \in Records /\ Sealed(d, c).content = c
        /\ Sealed(d, c).gen = d.gen /\ Sealed(d, c).seq = d.seq
    BY SealedType, SealedFields
  <2>1. /\ p \in Seq(Records) /\ Len(o) \in Nat /\ Len(p) = Len(o) + 1 /\ p[Len(o) + 1] = Sealed(d, c)
        /\ \A i \in 1..Len(o) : p[i] = o[i]
    BY <2>0, PushFacts
  <2>2. p # <<>> /\ (o = <<>> <=> Len(o) = 0)
    BY <2>1
  <2> HIDE DEF p
  <2>3. <<p[1].gen, p[1].seq>> = <<0, 0>>
    <3>1. CASE o = <<>>
      BY <2>0, <2>1, <2>2, <3>1 DEF StandsAt
    <3>2. CASE o # <<>>
      <4>1. 1 \in 1..Len(o)
        BY <2>1, <2>2, <3>2
      <4>2. QED
        BY <2>1, <3>2, <4>1 DEF Follows
    <3>3. QED
      BY <3>1, <3>2
  <2>4. ASSUME NEW i \in 1..(Len(p) - 1)
        PROVE  \/ <<p[i + 1].gen, p[i + 1].seq>> = After(p[i])
               \/ p[i + 1].content = Alert("internal_error")
    <3>1. CASE i \in 1..(Len(o) - 1)
      <4>1. p[i] = o[i] /\ p[i + 1] = o[i + 1]
        BY <2>1, <3>1
      <4>2. QED
        BY <3>1, <4>1 DEF Follows
    <3>2. CASE i = Len(o)
      <4>1. p[i] = o[Len(o)] /\ p[i + 1] = Sealed(d, c) /\ o # <<>>
        BY <2>1, <2>2, <3>2
      <4>2. QED
        BY <2>0, <4>1, Zenon DEF StandsAt
    <3>3. QED
      BY <2>1, <3>1, <3>2
  <2>5. StandsAt(p, IF IsKeyUpdate(c) THEN rec_dir_update(d) ELSE rec_seal(d))
    <3>1. /\ rec_dir_update(d).gen = d.gen + 1 /\ rec_dir_update(d).seq = 0
          /\ rec_seal(d).gen = d.gen /\ rec_seal(d).seq = d.seq + 1
      BY DEF rec_dir_update, rec_seal
    <3>2. After(p[Len(p)]) = IF IsKeyUpdate(c) THEN <<d.gen + 1, 0>> ELSE <<d.gen, d.seq + 1>>
      BY <2>0, <2>1, Zenon DEF After
    <3>3. QED
      BY <2>2, <3>1, <3>2 DEF StandsAt
  <2>6. QED
    BY <2>1, <2>2, <2>3, <2>4, <2>5 DEF Follows, p
<1> SUFFICES ASSUME TypeOK, KeysDie, FollowInv, [Next]_vars PROVE FollowInv'
  OBVIOUS
<1>0. s \in Sessions /\ s.wr \in Dir /\ out \in Seq(Records) /\ Follows(out)
  BY DEF TypeOK, Sessions, FollowInv
<1>1. CASE Silent
  BY <1>1 DEF Silent, FollowInv
<1>2. ASSUME NEW c \in Contents, s.keys = TRUE
      PROVE  LET p == Append(out, Sealed(s.wr, c)) IN
             /\ p \in Seq(Records) /\ p # <<>> /\ Follows(p)
             /\ StandsAt(p, IF IsKeyUpdate(c) THEN rec_dir_update(s.wr) ELSE rec_seal(s.wr))
  BY <1>0, <1>2, <1>FollowPush DEF FollowInv
<1>3. CASE Seals
  <2>1. PICK c \in Contents :
           /\ MaySeal(c) /\ out' = Append(out, Sealed(s.wr, c))
           /\ s' = IF c = KeyUpdate THEN hspost_send_key_update(s)
                   ELSE [s EXCEPT !.wr = rec_seal(s.wr)]
    BY <1>3 DEF Seals
  <2>2. s.keys = TRUE
    BY <2>1 DEF MaySeal
  <2>3. IsKeyUpdate(c) <=> c = KeyUpdate
    BY <2>1, ContentKinds DEF MaySeal
  <2>4. s'.wr = IF IsKeyUpdate(c) THEN rec_dir_update(s.wr) ELSE rec_seal(s.wr)
    BY <1>0, <2>1, <2>3 DEF hspost_send_key_update, Sessions
  <2>5. QED
    BY <1>2, <2>1, <2>2, <2>4, Zenon DEF FollowInv
<1>4. CASE Ends
  <2>0. s'.keys = FALSE
    BY <1>4 DEF Ends
  <2>1. CASE out' = out
    BY <2>0, <2>1 DEF FollowInv
  <2>2. ASSUME NEW a \in Alerts \cup {"close_notify"}, s.keys = TRUE,
               out' = Append(out, Sealed(s.wr, Alert(a)))
        PROVE  FollowInv'
    BY <1>2, <2>0, <2>2, ContentsType, Zenon DEF FollowInv
  <2>3. ASSUME NEW c \in Contents, MaySeal(c), out' = Append(out, Sealed(s.wr, c))
        PROVE  FollowInv'
    BY <1>2, <2>0, <2>3, Zenon DEF FollowInv, MaySeal
  <2>4. ASSUME NEW c \in Contents, MaySeal(c),
               out' = Append(Append(out, Sealed(s.wr, c)),
                             Sealed(rec_seal(s.wr), Alert("internal_error")))
        PROVE  FollowInv'
    <3> DEFINE o == Append(out, Sealed(s.wr, c))
    <3>1. o \in Seq(Records) /\ o # <<>> /\ Follows(o)
      BY <1>2, <2>4, ZenonT(40) DEF MaySeal
    <3>2. rec_seal(s.wr) \in Dir /\ Alert("internal_error") \in Contents
      BY <1>0, DirType, ContentsType DEF Alerts
    <3>3. out' = Append(o, Sealed(rec_seal(s.wr), Alert("internal_error")))
      BY <2>4
    <3> HIDE DEF o
    <3>4. Follows(out')
      BY <3>1, <3>2, <3>3, <1>FollowPush
    <3>5. QED
      BY <2>0, <3>4 DEF FollowInv
  <2>5. QED
    BY <1>4, <2>1, <2>2, <2>3, <2>4, Zenon DEF Ends
<1>5. QED
  BY <1>1, <1>3, <1>4, StepShape

(***************************************************************************)
(* What the output begins with.                                            *)
(***************************************************************************)

\* A session that just connected has sealed nothing, or one ticket.
LEMMA InitOutput == Init => KeyLimitInv /\ AnswerInv /\ AlertEndsSession /\ FollowInv
<1> SUFFICES ASSUME Init PROVE KeyLimitInv /\ AnswerInv /\ AlertEndsSession /\ FollowInv
  BY SMTT(30)
<1>1. PICK ticket \in BOOLEAN :
        /\ s.state = "CONNECTED" /\ s.keys = TRUE /\ s.send_epochs = 0
        /\ s.wr = IF ticket THEN rec_seal(rec_dir_init) ELSE rec_dir_init
        /\ out = IF ticket THEN <<Sealed(rec_dir_init, NewSessionTicket)>> ELSE <<>>
  <2>1. PICK ticket \in BOOLEAN :
          /\ s = [state |-> "CONNECTED", keys |-> TRUE, rd |-> rec_dir_init,
                  wr |-> IF ticket THEN rec_seal(rec_dir_init) ELSE rec_dir_init,
                  key_update_owed |-> FALSE, key_update_run |-> 0, send_epochs |-> 0,
                  read_closed |-> FALSE, alert_sent |-> "none", alert_received |-> "none",
                  pt |-> NoData, post_fill |-> 0]
          /\ out = IF ticket THEN <<Sealed(rec_dir_init, NewSessionTicket)>> ELSE <<>>
    BY SessionAssumption, Zenon DEF Init
  <2>2. QED
    BY <2>1
<1>2. /\ rec_seal(rec_dir_init).gen = 0 /\ rec_seal(rec_dir_init).seq = 1
      /\ rec_dir_init.gen = 0 /\ rec_dir_init.seq = 0
  BY DEF rec_dir_init, rec_seal
<1>3. /\ NewSessionTicket.kind = "handshake" /\ ~IsKeyUpdate(NewSessionTicket)
      /\ ~IsData(NewSessionTicket)
  BY SMTT(30) DEF NewSessionTicket, Handshake, IsKeyUpdate, IsData
<1>4. asked = {}
  BY DEF Init
<1>5. AnswerInv
  BY <1>4 DEF AnswerInv, AnsweredFirst
<1>6. CASE ticket
  <2>1. /\ Len(out) = 1 /\ out # <<>> /\ out[1].gen = 0 /\ out[1].seq = 0
        /\ out[1].content = NewSessionTicket
    BY <1>1, <1>2, <1>6, SealedFields, SMTT(30)
  <2>2. KeyLimitInv
    BY <1>1, <1>2, <1>3, <1>6, <2>1, SessionAssumption, RecordAssumption DEF KeyLimitInv, WithinKey
  <2>3. AlertEndsSession
    BY <1>3, <2>1, SMTT(30) DEF AlertEndsSession
  <2>4. FollowInv
    BY <1>1, <1>2, <1>3, <1>6, <2>1, SMTT(30) DEF FollowInv, Follows, StandsAt, After
  <2>5. QED
    BY <1>5, <2>2, <2>3, <2>4, SMTT(30)
<1>7. CASE ~ticket
  BY <1>1, <1>2, <1>5, <1>7 DEF KeyLimitInv, AlertEndsSession, FollowInv, Follows, StandsAt
<1>8. QED
  BY <1>6, <1>7

-----------------------------------------------------------------------------
(* The bytes read *)

\* Every step is one of the shapes.
LEMMA ReadShape ==
  ASSUME TypeOK, KeysDie, [Next]_vars
  PROVE  \/ opened' = opened /\ (ReadSame \/ ReadEnds \/ Returns)
         \/ opened' = opened + 1 /\ (ReadEnds \/ \E c \in PeerContents : Takes(c))
<1>1. [Local]_vars \/ \E c \in PeerContents : dispatch_one_record(c) \/ open_fragment(c)
  BY DEF Next, Local, CallStep
<1> QED BY <1>1, LocalShape, ArrivalShape

\* A data record of the peer starts where the stream stands.
LEMMA PeerDataFrom ==
  ASSUME NEW c \in PeerContents, c.kind = "data"
  PROVE  c.from = Received /\ c.len \in 0..PeerLen
  BY DEF PeerContents

\* Its length is a number.
LEMMA PeerLenNat ==
  ASSUME NEW c \in PeerContents, c.kind = "data"
  PROVE  c.len \in Nat
  BY PeerDataFrom, SessionAssumption

\* Every step keeps the stream.
LEMMA StreamStep == TypeOK /\ KeysDie /\ StreamInv /\ [Next]_vars => StreamInv'
<1> SUFFICES ASSUME TypeOK, KeysDie, StreamInv, [Next]_vars PROVE StreamInv'
  OBVIOUS
<1>0. /\ s \in Sessions /\ s.pt.len \in Nat /\ s.pt.from \in Nat /\ rx \in Seq(Nat)
      /\ Len(rx) \in Nat
  BY DEF TypeOK, Sessions
<1>1. CASE ReadSame
  BY <1>1 DEF ReadSame, StreamInv, InOrder
<1>2. CASE ReadEnds
  BY <1>2 DEF ReadEnds, StreamInv, InOrder, NoData
<1>3. CASE Returns
  <2>1. PICK take \in 0..s.pt.len :
            /\ rx' = rx \o [i \in 1..take |-> s.pt.from + (i - 1)]
            /\ s'.pt = [from |-> s.pt.from + take, len |-> s.pt.len - take]
    BY <1>3 DEF Returns
  <2>2. take \in Nat /\ (take > 0 => s.pt.from = Len(rx))
    BY <1>0, <2>1 DEF StreamInv
  <2>3. Len(rx') = Len(rx) + take /\ InOrder'
    BY <1>0, <2>1, <2>2, InOrderExtends, ZenonT(40) DEF StreamInv, InOrder, Ascends
  <2>4. s'.read_closed = s.read_closed /\ call'.op = "none"
    BY <1>3 DEF Returns
  <2>5. s'.pt.len = s.pt.len - take /\ s'.pt.from = s.pt.from + take
    BY <2>1
  <2>6. s'.pt.len > 0 => s'.pt.from = Len(rx')
    <3>1. s.pt.len > 0 => s.pt.from = Len(rx)
      BY DEF StreamInv
    <3>2. Len(rx') = Len(rx) + take
      BY <2>3
    <3>3. s'.pt.len > 0 => s.pt.len > 0
      BY <1>0, <2>2, <2>5
    <3>4. s'.pt.from = s.pt.from + take
      BY <2>5
    <3> QED BY <3>1, <3>2, <3>3, <3>4, Zenon
  <2>7. s'.read_closed = TRUE => s'.pt.len = 0
    BY <1>0, <2>4, <2>5 DEF StreamInv
  <2> QED BY <2>3, <2>4, <2>6, <2>7 DEF StreamInv
<1>4. ASSUME NEW c \in PeerContents, Takes(c) PROVE StreamInv'
  <2>1. InOrder' /\ rx' = rx /\ s.pt.len = 0
    BY <1>4 DEF Takes, StreamInv, InOrder
  <2>2. s.read_closed # TRUE
    BY <1>4, Zenon DEF Takes, StreamInv
  <2>3. CASE c.kind = "data" /\ s'.pt = [from |-> c.from, len |-> c.len] /\ s'.read_closed = s.read_closed
    <3>1. s'.pt.from = Len(rx)
      BY <1>0, <2>1, <2>3, PeerDataFrom DEF Received
    <3> QED BY <2>1, <2>2, <2>3, <3>1, Zenon DEF StreamInv
  <2>4. CASE s'.pt = s.pt /\ s'.read_closed = s.read_closed
    BY <2>1, <2>2, <2>4, Zenon DEF StreamInv
  <2>5. CASE s'.pt = NoData /\ call'.op = "none"
    BY <2>1, <2>5 DEF StreamInv, NoData
  <2> QED BY <1>4, <2>3, <2>4, <2>5 DEF Takes
<1> QED BY <1>1, <1>2, <1>3, <1>4, ReadShape

\* The KeyUpdates read are RunMax for each byte that arrived, and the run now.
RunInv == s.rd.gen <= RunMax * Received + s.key_update_run

\* The session a handshake leaves has read nothing.
LEMMA InitInput == Init => StreamInv /\ RunInv
<1> SUFFICES ASSUME Init PROVE StreamInv /\ RunInv
  OBVIOUS
<1>1. /\ s.pt = NoData /\ s.rd = rec_dir_init /\ s.key_update_run = 0 /\ rx = <<>>
      /\ s.read_closed = FALSE
  BY DEF Init
<1>2. s.pt.len = 0 /\ s.rd.gen = 0 /\ Len(rx) = 0
  BY <1>1 DEF NoData, rec_dir_init
<1>3. RunMax * 0 = 0
  BY SessionAssumption
<1>4. Received = 0
  BY <1>2 DEF Received
<1> QED BY <1>1, <1>2, <1>3, <1>4 DEF StreamInv, InOrder, RunInv

\* dispatch_one_record and tls_read: the bytes ch_read returned are the peer's
\* stream from its first byte, each once and in order.
THEOREM InOrderAlways == Spec => []InOrder
<1> DEFINE Inv == TypeOK /\ KeysDie /\ StreamInv
<1>1. Init => Inv
  BY TypeInit, InitKeys, InitInput
<1>2. Inv /\ [Next]_vars => Inv'
  BY TypeStep, KeysDieStep, StreamStep
<1>3. Inv => InOrder
  BY DEF StreamInv
<1> QED BY <1>1, <1>2, <1>3, PTL DEF Spec

-----------------------------------------------------------------------------
(* The bytes written *)

\* One record more, with its bytes of the stream.
Pushes(o, w, p, v) ==
    \E r \in Records :
       /\ p = Append(o, r)
       /\ \/ OwnContent(r.content) /\ v = w
          \/ \E len \in 0..PlaintextMax : r.content = Data(w, len) /\ v = w + len

\* A step writes nothing, a record, or a record and the alert after a send that
\* failed.
Writes(o, w, p, v) ==
    \/ p = o /\ v = w
    \/ Pushes(o, w, p, v)
    \/ \E q \in Seq(Records), r \in Records :
          /\ Pushes(o, w, q, v)
          /\ r.content = Alert("internal_error") /\ p = Append(q, r)

\* Every step writes the next bytes of the stream or none.
LEMMA WriteShape ==
  ASSUME TypeOK, KeysDie, [Next]_vars
  PROVE  Writes(out, written, out', written')
\* tlsi_fail writes an alert or nothing.
<1>FailWrites.
  ASSUME NEW t \in Sessions, NEW o \in Seq(Records), NEW d \in Alerts, NEW r, tlsi_fail(t, o, d, r)
  PROVE  out' = o \/ \E x \in Records : x.content = Alert(d) /\ out' = Append(o, x)
  <2> USE <1>FailWrites
  <2>1. out' = o \/ out' = Append(o, Sealed(t.wr, Alert(d)))
    BY DEF tlsi_fail, tlsi_send_alert
  <2>2. t.wr \in Dir /\ Alert(d) \in Contents
    BY ContentsType DEF Sessions
  <2>3. Sealed(t.wr, Alert(d)) \in Records /\ Sealed(t.wr, Alert(d)).content = Alert(d)
    BY <2>2, SealedType, SealedFields
  <2> QED BY <2>1, <2>3
\* A failure met while reading writes no data.
<1>FailReadWrites.
  ASSUME TypeOK, NEW t \in Sessions, NEW d \in Alerts, NEW r, tlsi_fail(t, out, d, r),
         written' = written
  PROVE  Writes(out, written, out', written')
  <2> USE <1>FailReadWrites
  <2>1. out \in Seq(Records)
    BY DEF TypeOK
  <2> QED BY <2>1, <1>FailWrites DEF Writes, Pushes, OwnContent
\* A record of the peer makes the session write at most an alert.
<1>ArrivalWrites.
  ASSUME TypeOK, KeysDie, NEW c \in PeerContents, dispatch_one_record(c) \/ open_fragment(c)
  PROVE  Writes(out, written, out', written')
  <2> USE <1>ArrivalWrites
  <2> DEFINE t == [s EXCEPT !.rd = rec_open(s.rd)]
  <2>0. t \in Sessions
    BY OpenType DEF TypeOK
  <2>1. written' = written
    BY DEF dispatch_one_record, open_fragment, Opening
  <2>2. CASE out' = out
    BY <2>1, <2>2 DEF Writes
  <2>3. ASSUME NEW u \in Sessions, NEW d \in Alerts, NEW r, tlsi_fail(u, out, d, r)
        PROVE  Writes(out, written, out', written')
    BY <2>1, <2>3, <1>FailReadWrites
  <2>4. \/ out' = out
        \/ c.kind = "handshake" /\ hspost_read(t, c)
        \/ c.kind = "alert" /\ hsr_refuse_alert(t, c.description)
        \/ tlsi_fail(t, out, "unexpected_message", "EPROTO")
    BY DEF dispatch_one_record, open_fragment, read_alert, NextIteration
  <2> HIDE DEF t
  <2>5. CASE c.kind = "handshake" /\ hspost_read(t, c)
    <3>1. PICK m \in PeerRuns, o \in BOOLEAN : c = [kind |-> "handshake", msgs |-> m, open |-> o]
      BY <2>5, PeerContentsType
    <3>2. \/ out' = out
          \/ \E r \in FirstRefusal(t, c) : tlsi_fail(t, out, r[1], r[2])
          \/ tlsi_fail(t, out, "unexpected_message", "EPROTO")
      BY <2>5 DEF hspost_read, NextIteration
    <3>3. \A r \in FirstRefusal(t, c) : r[1] \in Alerts
      BY <2>0, <3>1, FirstRefusalType, Zenon
    <3> QED BY <2>0, <2>2, <2>3, <3>2, <3>3 DEF Alerts
  <2>6. CASE c.kind = "alert" /\ hsr_refuse_alert(t, c.description)
    <3> DEFINE d == c.description
               u == IF d \in {"malformed", "close_notify", "user_canceled"} THEN t
                    ELSE [t EXCEPT !.alert_received = d]
               a == IF d = "malformed" THEN "decode_error" ELSE "unexpected_message"
    <3>1. d \in Alerts \cup {"close_notify", "user_canceled", "malformed"}
      BY <2>6, PeerContentsType
    <3>2. u \in Sessions
      BY <2>0, <3>1 DEF Sessions
    <3>3. a \in Alerts
      BY DEF Alerts
    <3>4. tlsi_fail(u, out, a, "EPROTO")
      BY <2>6 DEF hsr_refuse_alert
    <3> HIDE DEF u, a
    <3> QED BY <2>3, <3>2, <3>3, <3>4
  <2> QED BY <2>0, <2>2, <2>3, <2>4, <2>5, <2>6 DEF Alerts
<1>0. /\ s \in Sessions /\ s.wr \in Dir /\ out \in Seq(Records) /\ written \in Nat
      /\ call.n \in Nat /\ PlaintextMax \in Nat
  BY SessionAssumption DEF TypeOK, Sessions, Frames
<1> DEFINE t == [s EXCEPT !.wr = rec_seal(s.wr)]
<1>1. t \in Sessions
  BY SealType, <1>0
<1> HIDE DEF t
<1>2. CASE out' = out /\ written' = written
  BY <1>2 DEF Writes
<1>3. ASSUME NEW u \in Sessions, NEW d \in Alerts, NEW r, tlsi_fail(u, out, d, r), written' = written
      PROVE  Writes(out, written, out', written')
  BY <1>3, <1>FailReadWrites
<1>4. ASSUME NEW sent \in BOOLEAN, key_update_before_record(sent)
      PROVE  Writes(out, written, out', written')
  <2> DEFINE o == Append(out, Sealed(s.wr, KeyUpdate))
  <2>1. /\ written' = written
        /\ \/ \E r : tlsi_fail(s, out, "internal_error", r)
           \/ tlsi_fail(t, o, "internal_error", "EIO")
           \/ out' = o
    BY <1>4 DEF key_update_before_record, t
  <2>2. Sealed(s.wr, KeyUpdate) \in Records /\ Sealed(s.wr, KeyUpdate).content = KeyUpdate
    BY <1>0, SealedType, SealedFields, ContentsType
  <2>3. o \in Seq(Records) /\ Pushes(out, written, o, written)
    BY <1>0, <2>2, PushFacts DEF Pushes, OwnContent
  <2> HIDE DEF o
  <2>4. CASE tlsi_fail(t, o, "internal_error", "EIO")
    BY <1>1, <2>1, <2>3, <2>4, <1>FailWrites DEF Writes, Alerts
  <2> QED BY <1>0, <1>3, <2>1, <2>3, <2>4 DEF Writes, Alerts
<1>5. ASSUME NEW sent \in BOOLEAN, tls_write_record(sent)
      PROVE  Writes(out, written, out', written')
  <2> DEFINE len == IF call.n < PlaintextMax THEN call.n ELSE PlaintextMax
             o == Append(out, Sealed(s.wr, Data(written, len)))
  <2>1. \/ tlsi_fail(s, out, "internal_error", "ECAP") /\ written' = written
        \/ tlsi_fail(t, o, "internal_error", "EIO") /\ written' = written + len
        \/ out' = o /\ written' = written + len
    BY <1>5 DEF tls_write_record, t
  <2>2. len \in 0..PlaintextMax /\ len \in Nat
    BY <1>0
  <2> HIDE DEF len
  <2>3. /\ Sealed(s.wr, Data(written, len)) \in Records
        /\ Sealed(s.wr, Data(written, len)).content = Data(written, len)
    BY <1>0, <2>2, SealedType, SealedFields, ContentsType
  <2>4. o \in Seq(Records) /\ Pushes(out, written, o, written + len)
    BY <1>0, <2>2, <2>3, PushFacts DEF Pushes
  <2> HIDE DEF o
  <2>5. CASE tlsi_fail(t, o, "internal_error", "EIO") /\ written' = written + len
    BY <1>1, <2>4, <2>5, <1>FailWrites DEF Writes, Alerts
  <2> QED BY <1>0, <1>3, <2>1, <2>4, <2>5 DEF Writes, Alerts
<1>6. CASE Calls
  <2>1. CASE \E n : tls_write(n) \/ tls_read(n)
    BY <1>2, <2>1 DEF tls_write, tls_read
  <2>2. CASE tls_close
    <3>1. out' = out \/ out' = Append(out, Sealed(s.wr, Alert("close_notify")))
      BY <2>2 DEF tls_close, tlsi_send_alert
    <3>2. /\ Sealed(s.wr, Alert("close_notify")) \in Records
          /\ Sealed(s.wr, Alert("close_notify")).content = Alert("close_notify")
      BY <1>0, SealedType, SealedFields, ContentsType
    <3>3. written' = written
      BY <2>2 DEF tls_close
    <3> QED BY <1>2, <3>1, <3>2, <3>3 DEF Writes, Pushes, OwnContent
  <2>3. ASSUME NEW d, NEW sent, tls_fail(d, sent) PROVE Writes(out, written, out', written')
    BY <1>0, <1>2, <1>3, <2>3 DEF tls_fail
  <2> QED BY <1>6, <2>1, <2>2, <2>3 DEF Calls
<1>7. CASE ReturnData \/ Again \/ UNCHANGED vars
  BY <1>2, <1>7 DEF ReturnData, Again, vars
<1>8. CASE QuietCapReached \/ Unopened \/ Unprotected \/ NoRoom
  BY <1>0, <1>3, <1>8 DEF QuietCapReached, Unopened, Unprotected, NoRoom, Alerts
<1>9. CASE ReadFails
  BY <1>0, <1>3, <1>9, ReadRecordErrorType DEF ReadFails
<1> QED BY <1>4, <1>5, <1>6, <1>7, <1>8, <1>9, <1>ArrivalWrites DEF Next, CallStep

\* One record more leaves the next byte where it was.
LEMMA PushNext ==
  ASSUME NEW o \in Seq(Records), NEW w \in Nat, NEW p, NEW v, Pushes(o, w, p, v),
         NEW n \in 0..Len(o), NEW k, NextByte(o, n, w, k)
  PROVE  NextByte(p, n, v, k)
<1>1. PICK r \in Records :
         /\ p = Append(o, r)
         /\ \/ OwnContent(r.content) /\ v = w
            \/ \E len \in 0..PlaintextMax : r.content = Data(w, len) /\ v = w + len
  BY DEF Pushes
<1>2. /\ Len(o) \in Nat /\ Len(p) = Len(o) + 1 /\ p[Len(o) + 1] = r
      /\ \A i \in 1..Len(o) : p[i] = o[i]
  BY <1>1, PushFacts
<1>3. CASE \E i \in (n + 1)..Len(o) :
              /\ IsData(o[i].content) /\ o[i].content.from = k
              /\ \A j \in (n + 1)..(i - 1) : ~IsData(o[j].content)
  <2>1. PICK i \in (n + 1)..Len(o) :
              /\ IsData(o[i].content) /\ o[i].content.from = k
              /\ \A j \in (n + 1)..(i - 1) : ~IsData(o[j].content)
    BY <1>3
  <2>2. i \in 1..Len(o) /\ i \in (n + 1)..Len(p)
    BY <1>2
  <2>3. \A j \in (n + 1)..(i - 1) : j \in 1..Len(o)
    BY <1>2
  <2>4. IsData(p[i].content) /\ p[i].content.from = k
    BY <1>2, <2>1, <2>2
  <2>5. \A j \in (n + 1)..(i - 1) : ~IsData(p[j].content)
    BY <1>2, <2>1, <2>3
  <2> QED BY <2>2, <2>4, <2>5 DEF NextByte
<1>4. CASE w = k /\ \A j \in (n + 1)..Len(o) : ~IsData(o[j].content)
  <2>1. \A j \in (n + 1)..Len(o) : ~IsData(p[j].content)
    <3>1. \A j \in (n + 1)..Len(o) : j \in 1..Len(o)
      BY <1>2
    <3> QED BY <1>2, <1>4, <3>1
  <2>2. CASE OwnContent(r.content) /\ v = w
    <3>1. \A j \in (n + 1)..Len(p) : ~IsData(p[j].content)
      <4>1. ~IsData(p[Len(o) + 1].content)
        BY <1>2, <2>2, OwnNotData
      <4>2. \A j \in (n + 1)..Len(p) : j \in (n + 1)..Len(o) \/ j = Len(o) + 1
        BY <1>2
      <4> QED BY <2>1, <4>1, <4>2
    <3> QED BY <1>4, <2>2, <3>1 DEF NextByte
  <2>3. CASE \E len \in 0..PlaintextMax : r.content = Data(w, len) /\ v = w + len
    <3> DEFINE i == Len(o) + 1
    <3>1. IsData(p[i].content) /\ p[i].content.from = w
      BY <1>2, <2>3, DataFields
    <3>2. i \in (n + 1)..Len(p) /\ i - 1 = Len(o)
      BY <1>2
    <3> QED BY <1>4, <2>1, <3>1, <3>2 DEF NextByte
  <2> QED BY <1>1, <2>2, <2>3
<1> QED BY <1>3, <1>4 DEF NextByte

\* One record more keeps the stream.
LEMMA PushStream ==
  ASSUME NEW o \in Seq(Records), NEW w \in Nat, NEW p, NEW v, Pushes(o, w, p, v), Stream(o, w)
  PROVE  Stream(p, v) /\ p \in Seq(Records) /\ v \in Nat /\ w <= v
<1>1. PICK r \in Records :
         /\ p = Append(o, r)
         /\ \/ OwnContent(r.content) /\ v = w
            \/ \E len \in 0..PlaintextMax : r.content = Data(w, len) /\ v = w + len
  BY DEF Pushes
<1>2. /\ Len(o) \in Nat /\ Len(p) = Len(o) + 1 /\ p[Len(o) + 1] = r /\ p \in Seq(Records)
      /\ \A i \in 1..Len(o) : p[i] = o[i]
      /\ \A i \in 1..Len(p) : i \in 1..Len(o) \/ i = Len(o) + 1
  <2>1. /\ Len(o) \in Nat /\ Len(p) = Len(o) + 1 /\ p[Len(o) + 1] = r /\ p \in Seq(Records)
        /\ \A i \in 1..Len(o) : p[i] = o[i]
    BY <1>1, PushFacts
  <2>2. \A i \in 1..Len(p) : i \in 1..Len(o) \/ i = Len(o) + 1
    BY <2>1
  <2> QED BY <2>1, <2>2
<1>3. v \in Nat /\ w <= v
  BY <1>1, SessionAssumption
<1>4. ASSUME NEW i \in 1..Len(p) PROVE Carries(p[i].content, v)
  <2>1. CASE i \in 1..Len(o)
    <3>1. Carries(o[i].content, w) /\ p[i] = o[i]
      BY <1>2, <2>1 DEF Stream
    <3>2. ASSUME NEW f \in Nat, NEW len \in 0..PlaintextMax, f + len <= w PROVE f + len <= v
      BY <1>3, <3>2, SessionAssumption
    <3> QED BY <3>1, <3>2, ZenonT(40) DEF Carries
  <2>2. CASE i = Len(o) + 1
    <3>1. \A len \in 0..PlaintextMax : w + len <= w + len
      BY SessionAssumption
    <3> QED BY <1>1, <1>2, <2>2, <3>1 DEF Carries
  <2> QED BY <1>2, <2>1, <2>2
<1>5. NextByte(p, 0, v, 0)
  BY <1>2, PushNext DEF Stream
<1>6. ASSUME NEW i \in 1..Len(p), IsData(p[i].content)
      PROVE  NextByte(p, i, v, p[i].content.from + p[i].content.len)
  <2>1. CASE i \in 1..Len(o)
    <3>1. p[i] = o[i] /\ i \in 0..Len(o)
      BY <1>2, <2>1
    <3>2. NextByte(o, i, w, o[i].content.from + o[i].content.len)
      BY <1>6, <2>1, <3>1 DEF Stream
    <3> QED BY <3>1, <3>2, PushNext
  <2>2. CASE i = Len(o) + 1
    <3>1. v = p[i].content.from + p[i].content.len
      BY <1>1, <1>2, <1>6, <2>2, OwnNotData, DataFields
    <3>2. (i + 1)..Len(p) = {}
      BY <1>2, <2>2
    <3> QED BY <3>1, <3>2 DEF NextByte
  <2> QED BY <1>2, <2>1, <2>2
<1> QED BY <1>2, <1>3, <1>4, <1>5, <1>6 DEF Stream

\* A step keeps the stream, and the next byte of a reader that lags.
LEMMA WritesStream ==
  ASSUME NEW o \in Seq(Records), NEW w \in Nat, NEW p, NEW v, Writes(o, w, p, v), Stream(o, w)
  PROVE  /\ Stream(p, v) /\ p \in Seq(Records) /\ v \in Nat /\ w <= v
         /\ Len(o) <= Len(p) /\ \A i \in 1..Len(o) : p[i] = o[i]
         /\ \A n \in 0..Len(o) : \A k : NextByte(o, n, w, k) => NextByte(p, n, v, k)
<1>1. ASSUME NEW a \in Seq(Records), NEW x \in Nat, NEW b, NEW y, Pushes(a, x, b, y)
      PROVE  Len(b) = Len(a) + 1 /\ Len(a) \in Nat /\ \A i \in 1..Len(a) : b[i] = a[i]
  BY <1>1, PushFacts DEF Pushes
<1>2. CASE p = o /\ v = w
  BY <1>2
<1>3. CASE Pushes(o, w, p, v)
  <2>1. Stream(p, v) /\ p \in Seq(Records) /\ v \in Nat /\ w <= v
    BY <1>3, PushStream
  <2>2. \A n \in 0..Len(o) : \A k : NextByte(o, n, w, k) => NextByte(p, n, v, k)
    BY <1>3, PushNext
  <2>3. Len(p) = Len(o) + 1 /\ Len(o) \in Nat /\ \A i \in 1..Len(o) : p[i] = o[i]
    BY <1>1, <1>3
  <2> QED BY <2>1, <2>2, <2>3
<1>4. ASSUME NEW q \in Seq(Records), NEW r \in Records, Pushes(o, w, q, v),
             r.content = Alert("internal_error"), p = Append(q, r)
      PROVE  /\ Stream(p, v) /\ p \in Seq(Records) /\ v \in Nat /\ w <= v
             /\ Len(o) <= Len(p) /\ \A i \in 1..Len(o) : p[i] = o[i]
             /\ \A n \in 0..Len(o) : \A k : NextByte(o, n, w, k) => NextByte(p, n, v, k)
  <2>1. Stream(q, v) /\ v \in Nat /\ w <= v
    BY <1>4, PushStream
  <2>2. Pushes(q, v, p, v)
    BY <1>4 DEF Pushes, OwnContent, Alerts
  <2>3. Stream(p, v) /\ p \in Seq(Records)
    BY <2>1, <2>2, PushStream
  <2>4. /\ Len(q) = Len(o) + 1 /\ Len(p) = Len(q) + 1 /\ Len(o) \in Nat /\ Len(q) \in Nat
        /\ \A i \in 1..Len(o) : q[i] = o[i]
        /\ \A i \in 1..Len(q) : p[i] = q[i]
    BY <1>1, <1>4, <2>1, <2>2
  <2>5. \A i \in 1..Len(o) : p[i] = o[i] /\ i \in 1..Len(q)
    BY <2>4
  <2>6. ASSUME NEW n \in 0..Len(o), NEW k, NextByte(o, n, w, k) PROVE NextByte(p, n, v, k)
    <3>1. NextByte(q, n, v, k)
      BY <1>4, <2>6, PushNext
    <3>2. n \in 0..Len(q)
      BY <2>4
    <3> QED BY <2>1, <2>2, <3>1, <3>2, PushNext
  <2> QED BY <2>1, <2>3, <2>4, <2>5, <2>6
<1> QED BY <1>2, <1>3, <1>4 DEF Writes

-----------------------------------------------------------------------------
(* A reader and a peer that writes on *)

WriterInv == NonceInv /\ AlertEndsSession /\ FollowInv /\ Stream(out, written)

\* Every step keeps what the session wrote readable.
LEMMA WriterStep == TypeOK /\ KeysDie /\ WriterInv /\ [Next]_vars => WriterInv'
<1> SUFFICES ASSUME TypeOK, KeysDie, WriterInv, [Next]_vars PROVE WriterInv'
  OBVIOUS
<1>1. NonceInv' /\ AlertEndsSession' /\ FollowInv'
  BY NonceStep, AlertStep, FollowStep DEF WriterInv
<1>2. Stream(out', written')
  BY WriteShape, WritesStream DEF TypeOK, WriterInv
<1> QED BY <1>1, <1>2 DEF WriterInv

\* The records of a session that its invariants describe are readable.
LEMMA WriterReadable == TypeOK /\ WriterInv => Readable(out, written)
  BY DEF TypeOK, WriterInv, NonceInv, FollowInv, AlertEndsSession, Readable

\* A session starts with nothing written but its ticket.
LEMMA InitWriter == Init => WriterInv
<1> SUFFICES ASSUME Init PROVE WriterInv
  OBVIOUS
<1>1. NonceInv /\ AlertEndsSession /\ FollowInv
  BY InitKeys, InitOutput
<1>2. written = 0 /\ (out = <<>> \/ out = <<Sealed(rec_dir_init, NewSessionTicket)>>)
  BY DEF Init
<1>3. \A i \in 1..Len(out) : OwnContent(out[i].content)
  BY <1>2, SealedFields DEF OwnContent
<1>4. \A i \in 1..Len(out) : ~IsData(out[i].content)
  BY <1>3, OwnNotData
<1>5. NextByte(out, 0, written, 0)
  BY <1>2, <1>4 DEF NextByte
<1> QED BY <1>1, <1>3, <1>4, <1>5 DEF WriterInv, Stream, Carries

\* A reader stays abreast while its peer writes.
LEMMA AbreastGrows ==
  ASSUME NEW o \in Seq(Records), NEW w \in Nat, NEW p, NEW v, Writes(o, w, p, v), Stream(o, w),
         NEW rd, NEW n \in Nat, NEW k \in Nat, Abreast(rd, n, k, o, w)
  PROVE  Abreast(rd, n, k, p, v)
<1>1. /\ p \in Seq(Records) /\ v \in Nat /\ w <= v
      /\ Len(o) <= Len(p) /\ \A i \in 1..Len(o) : p[i] = o[i]
      /\ \A m \in 0..Len(o) : \A j : NextByte(o, m, w, j) => NextByte(p, m, v, j)
  BY WritesStream
<1>2. n \in 0..Len(o) /\ Len(o) \in Nat /\ Len(p) \in Nat /\ k <= w
  BY <1>1 DEF Abreast
<1>3. n <= Len(p) /\ k <= v
  BY <1>1, <1>2
<1>4. n # 0 => p[n] = o[n]
  BY <1>1, <1>2
<1> QED BY <1>1, <1>2, <1>3, <1>4 DEF Abreast

\* The session closed its own direction.
Fin(o) == o # <<>> /\ o[Len(o)].content = Alert("close_notify")

\* To a reader of the stream every step writes bytes, closes the stream, or does
\* nothing, and a closed stream stays as it is.
LEMMA WriterMoves ==
  ASSUME TypeOK, KeysDie, WriterInv, [Next]_vars
  PROVE  \/ written' = written /\ (Fin(out') <=> Fin(out))
         \/ ~Fin(out) /\ ~Fin(out') /\ written' \in Nat /\ written' > written
         \/ ~Fin(out) /\ Fin(out') /\ written' = written
\* The last record decides.
<1>FinPush.
  ASSUME NEW o \in Seq(Records), NEW r \in Records
  PROVE  /\ Append(o, r) # o
         /\ Fin(Append(o, r)) <=> r.content = Alert("close_notify")
  <2> USE <1>FinPush
  <2>1. Len(o) \in Nat /\ Len(Append(o, r)) = Len(o) + 1 /\ Append(o, r)[Len(o) + 1] = r
    BY PushFacts
  <2>2. Append(o, r) # <<>> /\ Append(o, r) # o
    BY <2>1
  <2> QED BY <2>1, <2>2 DEF Fin
<1>0. out \in Seq(Records) /\ written \in Nat /\ Len(out) \in Nat
  BY DEF TypeOK
<1>1. Writes(out, written, out', written')
  BY WriteShape
<1>2. CASE out' = out
  <2>1. ASSUME NEW p, NEW v, Pushes(out, written, p, v)
        PROVE  p \in Seq(Records) /\ Len(p) = Len(out) + 1
    BY <1>0, <2>1, PushFacts DEF Pushes
  <2>2. ASSUME NEW q \in Seq(Records), NEW r \in Records, Pushes(out, written, q, written')
        PROVE  Append(q, r) # out
    <3>1. Len(q) = Len(out) + 1 /\ Len(Append(q, r)) = Len(q) + 1
      BY <2>1, <2>2
    <3> QED BY <1>0, <3>1
  <2>3. ~Pushes(out, written, out, written')
    <3>1. Len(out) # Len(out) + 1
      BY <1>0
    <3> QED BY <2>1, <3>1
  <2> QED BY <1>1, <1>2, <2>2, <2>3, ZenonT(40) DEF Writes
<1>3. CASE out' # out
  <2>1. s.state = "CONNECTED"
    BY <1>3, StepShape DEF Silent, Seals, Ends, MaySeal
  <2>2. ~Fin(out)
    <3>1. Fin(out) => Len(out) \in 1..Len(out) /\ out[Len(out)].content.kind = "alert"
      BY <1>0, ContentKinds DEF Fin
    <3> QED BY <2>1, <3>1 DEF WriterInv, AlertEndsSession
  <2>3. CASE Pushes(out, written, out', written')
    <3>1. PICK r \in Records :
             /\ out' = Append(out, r)
             /\ \/ OwnContent(r.content) /\ written' = written
                \/ \E len \in 0..PlaintextMax : r.content = Data(written, len) /\ written' = written + len
      BY <2>3 DEF Pushes
    <3>2. CASE written' = written
      BY <2>2, <3>2
    <3>3. ASSUME NEW len \in 0..PlaintextMax, r.content = Data(written, len),
                 written' = written + len, written' # written
          PROVE  ~Fin(out') /\ written' \in Nat /\ written' > written
      <4>1. r.content # Alert("close_notify")
        BY <3>3, ContentKinds
      <4>2. ~Fin(out')
        BY <1>0, <3>1, <4>1, <1>FinPush
      <4>3. written' \in Nat /\ written' > written
        BY <1>0, <3>3, SessionAssumption
      <4> QED BY <4>2, <4>3
    <3> QED BY <2>2, <3>1, <3>2, <3>3
  <2>4. ASSUME NEW q \in Seq(Records), NEW r \in Records, Pushes(out, written, q, written'),
               r.content = Alert("internal_error"), out' = Append(q, r)
        PROVE  ~Fin(out') /\ (written' = written \/ (written' \in Nat /\ written' > written))
    <3>1. r.content # Alert("close_notify")
      BY <2>4, ContentKinds
    <3>2. ~Fin(out')
      BY <2>4, <3>1, <1>FinPush
    <3>3. written' = written \/ \E len \in 0..PlaintextMax : written' = written + len
      BY <2>4 DEF Pushes
    <3>4. written' = written \/ (written' \in Nat /\ written' > written)
      BY <1>0, <3>3, SessionAssumption
    <3> QED BY <3>2, <3>4
  <2> QED BY <1>1, <1>3, <2>2, <2>3, <2>4 DEF Writes
<1> QED BY <1>2, <1>3

-----------------------------------------------------------------------------
(* One side of a pair *)

SideInv == TypeOK /\ KeysDie /\ WriterInv /\ StreamInv

\* The reader of the records o, which carry w bytes, has its place in them.
AbreastOf(o, w) == Abreast(s.rd, opened, Received, o, w)

\* A record of the peer opens and is read.
Receives(r) ==
    /\ rec_open_ok(s.rd, r)
    /\ dispatch_one_record(r.content) \/ open_fragment(r.content)

\* What a step is to the reader of the session's own stream: nothing, bytes or
\* its end.
SendsOn ==
    \/ written' = written /\ (Fin(out') <=> Fin(out))
    \/ ~Fin(out) /\ ~Fin(out') /\ written' \in Nat /\ written' > written
    \/ ~Fin(out) /\ Fin(out') /\ written' = written

\* What a step is to the caller of ch_read: nothing, the next bytes of the
\* peer's stream or, after all of them, its end.
ReadsOn(o, w) ==
    \/ rx' = rx /\ s'.read_closed = s.read_closed
    \/ /\ s.read_closed = FALSE /\ s'.read_closed = FALSE
       /\ \E n \in 1..(w - Len(rx)) : rx' = rx \o [j \in 1..n |-> Len(rx) + (j - 1)]
    \/ /\ s.read_closed = FALSE /\ s'.read_closed = TRUE
       /\ rx' = rx /\ Len(rx) = w /\ Fin(o)

\* A session starts with the invariants, and its reader at the first record.
LEMMA SideInit ==
  ASSUME Init
  PROVE  /\ SideInv /\ Readable(out, written)
         /\ ~Fin(out) /\ written = 0 /\ rx = <<>> /\ s.read_closed = FALSE
         /\ \A o, w : Readable(o, w) => AbreastOf(o, w)
<1>1. SideInv
  BY TypeInit, InitKeys, InitWriter, InitInput DEF SideInv
<1>2. Readable(out, written)
  BY <1>1, WriterReadable DEF SideInv
<1>3. ~Fin(out)
  <2>1. out = <<>> \/ out = <<Sealed(rec_dir_init, NewSessionTicket)>>
    BY DEF Init
  <2>2. \A i \in 1..Len(out) : out[i].content = NewSessionTicket
    BY <2>1, SealedFields
  <2>3. NewSessionTicket # Alert("close_notify")
    BY ContentKinds DEF NewSessionTicket, Handshake
  <2>4. out # <<>> => Len(out) \in 1..Len(out)
    BY <1>1 DEF SideInv, TypeOK
  <2> QED BY <2>2, <2>3, <2>4 DEF Fin
<1>4. /\ s.rd.gen = 0 /\ s.rd.seq = 0 /\ opened = 0 /\ Received = 0
      /\ written = 0 /\ rx = <<>> /\ s.read_closed = FALSE
  BY DEF Init, rec_dir_init, Received, NoData
<1>5. ASSUME NEW o, NEW w, Readable(o, w) PROVE AbreastOf(o, w)
  <2>1. NextByte(o, 0, w, 0) /\ Len(o) \in Nat /\ w \in Nat
    BY <1>5 DEF Readable, Stream
  <2> QED BY <1>4, <2>1 DEF AbreastOf, Abreast
<1> QED BY <1>1, <1>2, <1>3, <1>4, <1>5

\* A step of a side whose peer wrote o keeps the side's invariants, writes on
\* its own stream and reads on the peer's.
LEMMA SideStep ==
  ASSUME PeerCovers, SideInv, NEW o, NEW w, Readable(o, w), AbreastOf(o, w),
         Local \/ \E i \in 1..Len(o) : Receives(o[i])
  PROVE  /\ SideInv' /\ Writes(out, written, out', written')
         /\ Abreast(s'.rd, opened', Received', o, w)
         /\ SendsOn /\ ReadsOn(o, w)
<1>0. TypeOK /\ KeysDie /\ WriterInv /\ StreamInv /\ Abreast(s.rd, opened, Received, o, w)
  BY Zenon DEF SideInv, AbreastOf
<1>1. ASSUME NEW i \in 1..Len(o), Receives(o[i])
      PROVE  /\ o[i].content \in PeerContents
             /\ Abreast(s'.rd, opened', Received', o, w)
             /\ ReadsOn(o, w)
  <2>1. o[i].content \in PeerContents
    BY <1>0, <1>1, PeerSends, ZenonT(40) DEF Receives
  <2>2. /\ Abreast(s'.rd, opened', Received', o, w)
        /\ rx' = rx
        /\ s'.read_closed # s.read_closed =>
              /\ s.read_closed = FALSE /\ s'.read_closed = TRUE /\ Len(rx) = w
              /\ o # <<>> /\ o[Len(o)].content = Alert("close_notify")
    BY <1>0, <1>1, ReaderTakes, ZenonT(40) DEF Receives
  <2> QED BY <2>1, <2>2, Zenon DEF Fin, ReadsOn
<1>2. [Next]_vars
  BY <1>1 DEF Local, Next, CallStep, Receives
<1>3. SideInv'
  BY <1>0, <1>2, TypeStep, KeysDieStep, WriterStep, StreamStep, Zenon DEF SideInv
<1>4. Writes(out, written, out', written') /\ SendsOn
  BY <1>0, <1>2, WriteShape, WriterMoves, ZenonT(40) DEF SendsOn
<1>5. CASE Local
  <2>1. /\ Abreast(s'.rd, opened', Received', o, w)
        /\ s'.read_closed = s.read_closed
        /\ \/ rx' = rx
           \/ /\ s.read_closed = FALSE
              /\ \E n \in 1..(w - Len(rx)) : rx' = rx \o [j \in 1..n |-> Len(rx) + (j - 1)]
    BY <1>0, <1>5, ReaderLocal, ZenonT(40)
  <2>2. ReadsOn(o, w)
    BY <2>1, Zenon DEF ReadsOn
  <2> QED BY <1>3, <1>4, <2>1, <2>2, Zenon
<1>6. CASE \E i \in 1..Len(o) : Receives(o[i])
  BY <1>1, <1>3, <1>4, <1>6, Zenon
<1> QED BY <1>5, <1>6

\* A side that does not move keeps its invariants, and stays abreast of a peer
\* that writes on.
LEMMA SideWaits ==
  ASSUME SideInv, UNCHANGED vars, NEW o, NEW w, Readable(o, w), AbreastOf(o, w),
         NEW p, NEW v, Writes(o, w, p, v)
  PROVE  SideInv' /\ Abreast(s'.rd, opened', Received', p, v)
<1>1. SideInv'
  BY TypeStep, KeysDieStep, WriterStep, StreamStep DEF SideInv
<1>2. opened \in Nat /\ Received \in Nat
  BY DEF SideInv, TypeOK, Sessions, Received
<1>3. Abreast(s.rd, opened, Received, p, v)
  BY <1>2, AbreastGrows DEF Readable, AbreastOf
<1>4. s' = s /\ opened' = opened /\ Received' = Received
  BY DEF vars, Received
<1> QED BY <1>1, <1>3, <1>4

-----------------------------------------------------------------------------
(* The limits of each key and the answers to KeyUpdates *)

\* KeyLimitInv is inductive.
LEMMA KeyLimitStep == TypeOK /\ KeysDie /\ KeyLimitInv /\ [Next]_vars => KeyLimitInv'
\* key_update_before_record leaves the last sequence number of an AES-GCM key to
\* the KeyUpdate, and hspost_send_key_update stops at the epoch cap.
<1>WithinKeyMaySeal.
  ASSUME TypeOK, KeyLimitInv, NEW c, MaySeal(c)
  PROVE  WithinKey(Sealed(s.wr, c))
  <2> USE <1>WithinKeyMaySeal
  <2>1. /\ s.wr.seq \in Nat /\ s.wr.gen = s.send_epochs /\ s.send_epochs \in 0..SendEpochsMax
        /\ rec_seal_ok(s.wr)
    BY DEF MaySeal, KeyLimitInv, TypeOK, Sessions
  <2>2. AesGcm => s.wr.seq < RecordsMax
    BY <2>1 DEF rec_seal_ok
  <2>3. AesGcm /\ s.wr.seq = RecordsMax - 1 => ~IsData(c)
    <3>1. CASE c = KeyUpdate
      BY <3>1, ContentKinds
    <3>2. CASE records_before_key_update(s) # 0
      BY <2>1, <3>2, RecordAssumption DEF records_before_key_update
    <3>3. QED
      BY <3>1, <3>2 DEF MaySeal
  <2>4. s.wr.gen <= SendEpochsMax
    BY <2>1, SessionAssumption
  <2>5. /\ Sealed(s.wr, c).gen = s.wr.gen /\ Sealed(s.wr, c).seq = s.wr.seq
        /\ Sealed(s.wr, c).content = c
    BY SealedFields, Zenon
  <2>6. QED
    BY <2>2, <2>3, <2>4, <2>5, Zenon DEF WithinKey
\* An alert that rec_seal takes is within the key's limits.
<1>WithinKeyAlert.
  ASSUME TypeOK, KeyLimitInv, s.keys = TRUE, NEW a, NEW d \in {s.wr, rec_seal(s.wr)}, rec_seal_ok(d)
  PROVE  WithinKey(Sealed(d, Alert(a)))
  <2> USE <1>WithinKeyAlert
  <2>1. s.wr \in Dir /\ s.wr.gen = s.send_epochs /\ s.send_epochs \in 0..SendEpochsMax
    BY DEF KeyLimitInv, TypeOK, Sessions
  <2>2. d.gen = s.wr.gen
    BY <2>1 DEF rec_seal
  <2>3. AesGcm => d.seq < RecordsMax
    BY DEF rec_seal_ok
  <2>4. /\ Sealed(d, Alert(a)).gen = d.gen /\ Sealed(d, Alert(a)).seq = d.seq
        /\ Sealed(d, Alert(a)).content = Alert(a)
    BY SealedFields, Zenon
  <2>5. ~IsData(Alert(a))
    BY ContentKinds, Zenon
  <2>6. d.gen <= SendEpochsMax
    BY <2>1, <2>2, SessionAssumption
  <2>7. QED
    BY <2>3, <2>4, <2>5, <2>6, Zenon DEF WithinKey
<1> SUFFICES ASSUME TypeOK, KeysDie, KeyLimitInv, [Next]_vars PROVE KeyLimitInv'
  OBVIOUS
<1>0. s \in Sessions /\ s.wr \in Dir /\ out \in Seq(Records)
  BY DEF TypeOK, Sessions
<1>1. CASE Silent
  BY <1>1 DEF Silent, KeyLimitInv
<1>2. ASSUME NEW o \in Seq(Records), NEW r \in Records, WithinKey(r),
             \A i \in 1..Len(o) : WithinKey(o[i])
      PROVE  \A i \in 1..Len(Append(o, r)) : WithinKey(Append(o, r)[i])
  BY <1>2, PushFacts, SMTT(30)
<1>3. CASE Seals
  <2>1. PICK c \in Contents :
           /\ MaySeal(c) /\ out' = Append(out, Sealed(s.wr, c))
           /\ s' = IF c = KeyUpdate THEN hspost_send_key_update(s)
                   ELSE [s EXCEPT !.wr = rec_seal(s.wr)]
    BY <1>3 DEF Seals
  <2>2. s.wr.gen = s.send_epochs
    BY <2>1 DEF MaySeal, KeyLimitInv
  <2>3. s'.wr.gen = s'.send_epochs
    <3>1. CASE c = KeyUpdate
      <4>1. s'.wr = rec_dir_update(s.wr) /\ s'.send_epochs = s.send_epochs + 1
        BY <1>0, <2>1, <3>1 DEF hspost_send_key_update, Sessions
      <4>2. QED
        BY <1>0, <2>2, <4>1 DEF rec_dir_update
    <3>2. CASE c # KeyUpdate
      <4>1. s'.wr = rec_seal(s.wr) /\ s'.send_epochs = s.send_epochs
        BY <1>0, <2>1, <3>2 DEF Sessions
      <4>2. QED
        BY <1>0, <2>2, <4>1 DEF rec_seal
    <3>3. QED
      BY <3>1, <3>2
  <2>4. Sealed(s.wr, c) \in Records /\ WithinKey(Sealed(s.wr, c))
    BY <1>0, <2>1, SealedType, <1>WithinKeyMaySeal
  <2>5. QED
    BY <1>0, <1>2, <2>1, <2>3, <2>4 DEF KeyLimitInv
<1>4. CASE Ends
  <2>0. s'.keys = FALSE
    BY <1>4 DEF Ends
  <2>1. CASE out' = out
    BY <2>0, <2>1 DEF KeyLimitInv
  <2>2. ASSUME NEW a \in Alerts \cup {"close_notify"}, s.keys = TRUE, rec_seal_ok(s.wr),
               out' = Append(out, Sealed(s.wr, Alert(a)))
        PROVE  KeyLimitInv'
    <3>1. Sealed(s.wr, Alert(a)) \in Records /\ WithinKey(Sealed(s.wr, Alert(a)))
      BY <1>0, <2>2, SealedType, ContentsType, <1>WithinKeyAlert, ZenonT(40)
    <3>2. QED
      BY <1>0, <1>2, <2>0, <2>2, <3>1 DEF KeyLimitInv
  <2>3. ASSUME NEW c \in Contents, MaySeal(c), out' = Append(out, Sealed(s.wr, c))
        PROVE  KeyLimitInv'
    <3>1. Sealed(s.wr, c) \in Records /\ WithinKey(Sealed(s.wr, c))
      BY <1>0, <2>3, SealedType, <1>WithinKeyMaySeal
    <3>2. QED
      BY <1>0, <1>2, <2>0, <2>3, <3>1 DEF KeyLimitInv
  <2>4. ASSUME NEW c \in Contents, MaySeal(c), rec_seal_ok(rec_seal(s.wr)),
               out' = Append(Append(out, Sealed(s.wr, c)),
                             Sealed(rec_seal(s.wr), Alert("internal_error")))
        PROVE  KeyLimitInv'
    <3> DEFINE o == Append(out, Sealed(s.wr, c))
               r == Sealed(rec_seal(s.wr), Alert("internal_error"))
    <3>1. Sealed(s.wr, c) \in Records /\ WithinKey(Sealed(s.wr, c))
      BY <1>0, <2>4, SealedType, <1>WithinKeyMaySeal
    <3>2. r \in Records /\ WithinKey(r)
      BY <1>0, <2>4, DirType, SealedType, ContentsType, <1>WithinKeyAlert, ZenonT(40) DEF MaySeal, Alerts
    <3>3. o \in Seq(Records) /\ \A i \in 1..Len(o) : WithinKey(o[i])
      BY <1>0, <1>2, <3>1 DEF KeyLimitInv
    <3> HIDE DEF o, r
    <3>4. \A i \in 1..Len(Append(o, r)) : WithinKey(Append(o, r)[i])
      BY <1>2, <3>2, <3>3
    <3>5. QED
      BY <2>0, <2>4, <3>4 DEF KeyLimitInv, o, r
  <2>5. QED
    BY <1>4, <2>1, <2>2, <2>3, <2>4, ZenonT(40) DEF Ends
<1>5. QED
  BY <1>1, <1>3, <1>4, StepShape

(***************************************************************************)
(* The answers to KeyUpdates.                                              *)
(***************************************************************************)

\* AnswerInv is inductive.
LEMMA AnswerStep == TypeOK /\ KeysDie /\ AnswerInv /\ [Next]_vars => AnswerInv'
\* One more record keeps the answers before the data when it is not data, or
\* when nothing is owed.
<1>AnswerPush.
  ASSUME NEW o \in Seq(Records), NEW r \in Records, NEW A \in SUBSET Nat,
         \A a \in A : a <= Len(o), AnsweredFirst(o, A),
         ~IsData(r.content) \/ \A a \in A : Answered(o, a)
  PROVE  /\ AnsweredFirst(Append(o, r), A)
         /\ \A a \in A : a <= Len(Append(o, r))
         /\ IsKeyUpdate(r.content) => \A a \in A : Answered(Append(o, r), a)
         /\ \A a \in A : Answered(o, a) => Answered(Append(o, r), a)
  <2> USE <1>AnswerPush
  <2> DEFINE p == Append(o, r)
  <2>1. /\ Len(o) \in Nat /\ Len(p) = Len(o) + 1 /\ p[Len(o) + 1] = r
        /\ \A i \in 1..Len(o) : p[i] = o[i]
    BY PushFacts
  <2> HIDE DEF p
  <2>2. AnsweredFirst(p, A)
    <3> SUFFICES ASSUME NEW a \in A, NEW i \in (a + 1)..Len(p), IsData(p[i].content)
                 PROVE  \E k \in (a + 1)..(i - 1) : IsKeyUpdate(p[k].content)
      BY ZenonT(40) DEF AnsweredFirst
    <3>1. CASE i \in (a + 1)..Len(o)
      <4>1. PICK k \in (a + 1)..(i - 1) : IsKeyUpdate(o[k].content)
        BY <2>1, <3>1 DEF AnsweredFirst
      <4>2. k \in 1..Len(o)
        BY <2>1, <3>1, SMTT(30)
      <4>3. QED
        BY <2>1, <4>1, <4>2, Zenon
    <3>2. CASE i = Len(o) + 1
      <4>1. PICK k \in (a + 1)..Len(o) : IsKeyUpdate(o[k].content)
        BY <2>1, <3>2, Zenon DEF Answered
      <4>2. k \in 1..Len(o) /\ k \in (a + 1)..(i - 1)
        BY <2>1, <3>2
      <4>3. QED
        BY <2>1, <4>1, <4>2
    <3>3. QED
      BY <2>1, <3>1, <3>2
  <2>3. \A a \in A : a <= Len(p)
    BY <2>1
  <2>4. ASSUME IsKeyUpdate(r.content), NEW a \in A PROVE Answered(p, a)
    <3>1. Len(p) \in (a + 1)..Len(p)
      BY <2>1, SMTT(30)
    <3>2. QED
      BY <2>1, <2>4, <3>1 DEF Answered
  <2>5. ASSUME NEW a \in A, Answered(o, a) PROVE Answered(p, a)
    <3>1. PICK k \in (a + 1)..Len(o) : IsKeyUpdate(o[k].content)
      BY <2>5 DEF Answered
    <3>2. k \in 1..Len(o) /\ k \in (a + 1)..Len(p)
      BY <2>1
    <3>3. QED
      BY <2>1, <3>1, <3>2 DEF Answered
  <2>6. QED
    BY <2>2, <2>3, <2>4, <2>5 DEF p
\* A data record goes out only when no answer is owed.
<1>MaySealAnswered.
  ASSUME TypeOK, AnswerInv, NEW c, MaySeal(c)
  PROVE  ~IsData(c) \/ \A a \in asked : Answered(out, a)
  <2> USE <1>MaySealAnswered
  <2>1. CASE c = KeyUpdate
    BY <2>1, ContentKinds
  <2>2. CASE records_before_key_update(s) # 0
    <3>1. s.key_update_owed = FALSE
      BY <2>2 DEF records_before_key_update, TypeOK, Sessions
    <3>2. QED
      BY <3>1 DEF AnswerInv, MaySeal
  <2>3. QED
    BY <2>1, <2>2 DEF MaySeal
<1> SUFFICES ASSUME TypeOK, KeysDie, AnswerInv, [Next]_vars PROVE AnswerInv'
  OBVIOUS
<1>0. /\ s \in Sessions /\ s' \in Sessions /\ s.wr \in Dir /\ out \in Seq(Records) /\ asked \in SUBSET Nat
      /\ \A a \in asked : a <= Len(out)
      /\ AnsweredFirst(out, asked)
  BY TypeStep, Zenon DEF TypeOK, Sessions, AnswerInv
<1>1. CASE Silent
  <2>1. CASE asked' = asked /\ s'.key_update_owed = s.key_update_owed
    BY <1>1, <2>1 DEF Silent, AnswerInv
  <2>2. CASE asked' = asked \cup {Len(out)} /\ s'.key_update_owed = TRUE
    <3>1. AnsweredFirst(out, asked')
      BY <1>0, <2>2 DEF AnsweredFirst
    <3>2. \A a \in asked' : a <= Len(out)
      BY <1>0, <2>2
    <3>3. QED
      BY <1>1, <2>2, <3>1, <3>2 DEF Silent, AnswerInv
  <2>3. QED
    BY <1>1, <2>1, <2>2, ZenonT(40) DEF Silent
<1>2. ASSUME NEW c \in Contents, MaySeal(c)
      PROVE  LET p == Append(out, Sealed(s.wr, c)) IN
             /\ p \in Seq(Records) /\ AnsweredFirst(p, asked) /\ \A a \in asked : a <= Len(p)
             /\ IsKeyUpdate(c) => \A a \in asked : Answered(p, a)
             /\ \A a \in asked : Answered(out, a) => Answered(p, a)
  <2>1. Sealed(s.wr, c) \in Records /\ Sealed(s.wr, c).content = c
    BY <1>0, SealedType, SealedFields
  <2>2. QED
    BY <1>0, <1>2, <2>1, <1>MaySealAnswered, <1>AnswerPush, PushFacts
<1>3. ASSUME NEW o \in Seq(Records), NEW d \in Dir, NEW a \in Alerts \cup {"close_notify"},
             AnsweredFirst(o, asked), \A b \in asked : b <= Len(o)
      PROVE  LET p == Append(o, Sealed(d, Alert(a))) IN
             AnsweredFirst(p, asked) /\ \A b \in asked : b <= Len(p)
  <2>1. /\ Sealed(d, Alert(a)) \in Records /\ Sealed(d, Alert(a)).content = Alert(a)
        /\ ~IsData(Alert(a))
    BY ContentsType, SealedType, SealedFields, ContentKinds
  <2>2. QED
    BY <1>0, <1>3, <2>1, <1>AnswerPush
<1>4. CASE Seals
  <2>1. PICK c \in Contents :
           /\ MaySeal(c) /\ out' = Append(out, Sealed(s.wr, c)) /\ asked' = asked
           /\ s' = IF c = KeyUpdate THEN hspost_send_key_update(s)
                   ELSE [s EXCEPT !.wr = rec_seal(s.wr)]
    BY <1>4 DEF Seals
  <2>2. CASE c = KeyUpdate
    BY <1>2, <2>1, <2>2, ContentKinds DEF AnswerInv
  <2>3. CASE c # KeyUpdate
    <3>1. s'.key_update_owed = s.key_update_owed /\ s.state = "CONNECTED"
      BY <1>0, <2>1, <2>3 DEF Sessions, MaySeal
    <3>2. QED
      BY <1>2, <2>1, <3>1 DEF AnswerInv
  <2>4. QED
    BY <2>2, <2>3
<1>5. CASE Ends
  <2>0. s'.state # "CONNECTED" /\ asked' = asked
    BY <1>5 DEF Ends
  <2>1. CASE out' = out
    BY <2>0, <2>1 DEF AnswerInv
  <2>2. ASSUME NEW a \in Alerts \cup {"close_notify"}, out' = Append(out, Sealed(s.wr, Alert(a)))
        PROVE  AnswerInv'
    BY <1>0, <1>3, <2>0, <2>2 DEF AnswerInv
  <2>3. ASSUME NEW c \in Contents, MaySeal(c), out' = Append(out, Sealed(s.wr, c))
        PROVE  AnswerInv'
    BY <1>2, <2>0, <2>3 DEF AnswerInv
  <2>4. ASSUME NEW c \in Contents, MaySeal(c),
               out' = Append(Append(out, Sealed(s.wr, c)),
                             Sealed(rec_seal(s.wr), Alert("internal_error")))
        PROVE  AnswerInv'
    <3> DEFINE o == Append(out, Sealed(s.wr, c))
    <3>1. o \in Seq(Records) /\ AnsweredFirst(o, asked) /\ \A b \in asked : b <= Len(o)
      BY <1>2, <2>4
    <3>2. rec_seal(s.wr) \in Dir /\ "internal_error" \in Alerts \cup {"close_notify"}
      BY <1>0, DirType DEF Alerts
    <3>3. out' = Append(o, Sealed(rec_seal(s.wr), Alert("internal_error")))
      BY <2>4
    <3> HIDE DEF o
    <3>4. AnsweredFirst(out', asked) /\ \A b \in asked : b <= Len(out')
      BY <1>3, <3>1, <3>2, <3>3
    <3>5. QED
      BY <2>0, <3>4 DEF AnswerInv
  <2>5. QED
    BY <1>5, <2>1, <2>2, <2>3, <2>4 DEF Ends
<1>6. QED
  BY <1>1, <1>4, <1>5, StepShape

(***************************************************************************)
(* The theorems about what leaves the session.                             *)
(***************************************************************************)

\* The last sequence number of an AES-GCM key never goes to data
\* (key_update_before_record).
THEOREM LastSequenceNumberAlways == Spec => []LastSequenceNumber
<1> DEFINE Inv == TypeOK /\ KeysDie /\ KeyLimitInv
<1>1. Init => Inv
  BY TypeInit, InitKeys, InitOutput
<1>2. Inv /\ [Next]_vars => Inv'
  BY TypeStep, KeysDieStep, KeyLimitStep
<1>3. Inv => LastSequenceNumber
  BY DEF KeyLimitInv, WithinKey, LastSequenceNumber
<1>4. QED
  BY <1>1, <1>2, <1>3, PTL DEF Spec

\* No record leaves past the epoch cap (hspost_send_key_update).
THEOREM EpochsCappedAlways == Spec => []EpochsCapped
<1> DEFINE Inv == TypeOK /\ KeysDie /\ KeyLimitInv
<1>1. Init => Inv
  BY TypeInit, InitKeys, InitOutput
<1>2. Inv /\ [Next]_vars => Inv'
  BY TypeStep, KeysDieStep, KeyLimitStep
<1>3. Inv => EpochsCapped
  BY DEF KeyLimitInv, WithinKey, EpochsCapped
<1>4. QED
  BY <1>1, <1>2, <1>3, PTL DEF Spec

\* A request_update is answered before the next data record
\* (key_update_before_record, handle_key_update).
THEOREM AnswerBeforeDataAlways == Spec => []AnswerBeforeData
<1> DEFINE Inv == TypeOK /\ KeysDie /\ AnswerInv
<1>1. Init => Inv
  BY TypeInit, InitKeys, InitOutput
<1>2. Inv /\ [Next]_vars => Inv'
  BY TypeStep, KeysDieStep, AnswerStep
<1>3. Inv => AnswerBeforeData
  BY DEF AnswerInv, AnsweredFirst, AnswerBeforeData
<1>4. QED
  BY <1>1, <1>2, <1>3, PTL DEF Spec

\* An alert ends the session and is the one it reports (tlsi_fail, tls_close).
THEOREM AlertEndsSessionAlways == Spec => []AlertEndsSession
<1> DEFINE Inv == TypeOK /\ KeysDie /\ AlertEndsSession
<1>1. Init => Inv
  BY TypeInit, InitKeys, InitOutput
<1>2. Inv /\ [Next]_vars => Inv'
  BY TypeStep, KeysDieStep, AlertStep
<1>3. QED
  BY <1>1, <1>2, PTL DEF Spec

\* A peer that opens the records in order stands at every next one (rec_seal,
\* hspost_send_key_update).
THEOREM PeerFollowsAlways == Spec => []PeerFollows
<1> DEFINE Inv == TypeOK /\ KeysDie /\ FollowInv
<1>1. Init => Inv
  BY TypeInit, InitKeys, InitOutput
<1>2. Inv /\ [Next]_vars => Inv'
  BY TypeStep, KeysDieStep, FollowStep
<1>3. Inv => PeerFollows
  BY DEF FollowInv, Follows, PeerFollows
<1>4. QED
  BY <1>1, <1>2, <1>3, PTL DEF Spec

-----------------------------------------------------------------------------
(* The cause of a KeyUpdate *)

\* A request before record k that no KeyUpdate before k answered.
Waiting(o, A, k) ==
    \E a \in A : a < k /\ \A j \in (a + 1)..(k - 1) : ~IsKeyUpdate(o[j].content)

Caused(o, A) ==
    \A k \in 1..Len(o) :
        IsKeyUpdate(o[k].content) =>
            (AesGcm /\ o[k].seq = RecordsMax - 1) \/ Waiting(o, A, k)

\* While an answer is owed, a request waits for it.
CauseInv ==
    /\ Caused(out, asked)
    /\ s.keys = TRUE /\ s.key_update_owed = TRUE => Waiting(out, asked, Len(out) + 1)

\* Every step keeps the causes.
LEMMA CauseStep == TypeOK /\ KeysDie /\ CauseInv /\ [Next]_vars => CauseInv'
\* One more record keeps the causes when it has its own.
<1>CausePush.
  ASSUME NEW o \in Seq(Records), NEW r \in Records, NEW A \in SUBSET Nat, Caused(o, A),
         IsKeyUpdate(r.content) =>
            (AesGcm /\ r.seq = RecordsMax - 1) \/ Waiting(o, A, Len(o) + 1)
  PROVE  Caused(Append(o, r), A)
  <2> USE <1>CausePush
  <2> DEFINE p == Append(o, r)
  <2>1. /\ Len(o) \in Nat /\ Len(p) = Len(o) + 1 /\ p[Len(o) + 1] = r
        /\ \A i \in 1..Len(o) : p[i] = o[i]
    BY PushFacts
  <2> HIDE DEF p
  <2>2. ASSUME NEW k \in 1..(Len(o) + 1), Waiting(o, A, k) PROVE Waiting(p, A, k)
    <3>1. PICK a \in A : a < k /\ \A j \in (a + 1)..(k - 1) : ~IsKeyUpdate(o[j].content)
      BY <2>2 DEF Waiting
    <3>2. ASSUME NEW j \in (a + 1)..(k - 1) PROVE ~IsKeyUpdate(p[j].content)
      <4>1. a \in Nat
        OBVIOUS
      <4>2. j \in 1..Len(o)
        BY <2>1, <4>1
      <4> QED BY <2>1, <3>1, <4>2
    <3> QED BY <3>1, <3>2 DEF Waiting
  <2>3. ASSUME NEW k \in 1..Len(p), IsKeyUpdate(p[k].content)
        PROVE  (AesGcm /\ p[k].seq = RecordsMax - 1) \/ Waiting(p, A, k)
    <3>1. k \in 1..(Len(o) + 1)
      BY <2>1
    <3>2. CASE k = Len(o) + 1
      BY <2>1, <2>2, <2>3, <3>1, <3>2
    <3>3. CASE k \in 1..Len(o)
      BY <2>1, <2>2, <2>3, <3>1, <3>3 DEF Caused
    <3> QED BY <2>1, <3>1, <3>2, <3>3
  <2> QED BY <2>3 DEF Caused, p
\* key_update_before_record: the KeyUpdate is owed or takes the key's last
\* sequence number, and data goes out only while none is owed.
<1>MaySealCause.
  ASSUME TypeOK, CauseInv, NEW c \in Contents, MaySeal(c)
  PROVE  /\ Caused(Append(out, Sealed(s.wr, c)), asked)
         /\ c # KeyUpdate => s.key_update_owed = FALSE
  <2> USE <1>MaySealCause
  <2>1. /\ s.wr \in Dir /\ s.wr.seq \in Nat /\ s.key_update_owed \in BOOLEAN /\ s.keys = TRUE
        /\ out \in Seq(Records) /\ asked \in SUBSET Nat /\ Caused(out, asked)
        /\ rec_seal_ok(s.wr)
    BY DEF TypeOK, Sessions, MaySeal, CauseInv
  <2>2. c # KeyUpdate => s.key_update_owed = FALSE /\ ~IsKeyUpdate(c)
    <3>1. ASSUME c # KeyUpdate
          PROVE  records_before_key_update(s) # 0 /\ \E f, l \in Nat : c = Data(f, l)
      BY <3>1 DEF MaySeal
    <3>2. ASSUME records_before_key_update(s) # 0 PROVE s.key_update_owed = FALSE
      BY <2>1, <3>2 DEF records_before_key_update
    <3> QED BY <3>1, <3>2, ContentKinds, Zenon
  <2>3. ASSUME c = KeyUpdate
        PROVE  (AesGcm /\ s.wr.seq = RecordsMax - 1) \/ Waiting(out, asked, Len(out) + 1)
    <3>1. records_before_key_update(s) = 0
      <4>1. \A f, l : KeyUpdate # Data(f, l)
        BY ContentKinds
      <4> QED BY <2>3, <4>1 DEF MaySeal
    <3>2. s.key_update_owed = TRUE \/ (AesGcm /\ ~(s.wr.seq < RecordsMax - 1))
      BY <2>1, <3>1, RecordAssumption DEF records_before_key_update
    <3>3. AesGcm => s.wr.seq < RecordsMax
      BY <2>1 DEF rec_seal_ok
    <3>4. s.key_update_owed = TRUE => Waiting(out, asked, Len(out) + 1)
      BY <2>1 DEF CauseInv
    <3> QED BY <2>1, <3>2, <3>3, <3>4, RecordAssumption
  <2>4. Sealed(s.wr, c) \in Records /\ Sealed(s.wr, c).content = c /\ Sealed(s.wr, c).seq = s.wr.seq
    BY <2>1, SealedType, SealedFields
  <2>5. IsKeyUpdate(c) => c = KeyUpdate
    BY <2>2
  <2> HIDE DEF Caused
  <2> QED BY <2>1, <2>2, <2>3, <2>4, <2>5, <1>CausePush
\* An alert has no cause to look for.
<1>AlertCause.
  ASSUME NEW o \in Seq(Records), NEW d \in Dir, NEW a \in Alerts \cup {"close_notify"},
         NEW A \in SUBSET Nat, Caused(o, A)
  PROVE  Caused(Append(o, Sealed(d, Alert(a))), A)
  <2> USE <1>AlertCause
  <2>1. Alert(a) \in Contents
    BY ContentsType
  <2>2. Sealed(d, Alert(a)) \in Records /\ ~IsKeyUpdate(Sealed(d, Alert(a)).content)
    BY <2>1, SealedType, SealedFields, ContentKinds
  <2> QED BY <2>2, <1>CausePush
<1> SUFFICES ASSUME TypeOK, KeysDie, CauseInv, [Next]_vars PROVE CauseInv'
  OBVIOUS
<1>0. /\ s \in Sessions /\ s.wr \in Dir /\ out \in Seq(Records) /\ Len(out) \in Nat
      /\ asked \in SUBSET Nat /\ Caused(out, asked)
  BY DEF TypeOK, Sessions, CauseInv
<1>1. CASE Silent
  <2>1. out' = out /\ s'.keys = s.keys
    BY <1>1 DEF Silent
  <2>2. CASE asked' = asked /\ s'.key_update_owed = s.key_update_owed
    BY <2>1, <2>2 DEF CauseInv
  <2>3. CASE asked' = asked \cup {Len(out)}
    <3>1. \A k : Waiting(out, asked, k) => Waiting(out, asked', k)
      BY <2>3 DEF Waiting
    <3>2. Caused(out, asked')
      BY <1>0, <3>1 DEF Caused
    <3>3. Waiting(out, asked', Len(out) + 1)
      BY <1>0, <2>3 DEF Waiting
    <3> QED BY <2>1, <3>2, <3>3 DEF CauseInv
  <2> QED BY <1>1, <2>2, <2>3 DEF Silent
<1>2. CASE Seals
  <2>1. PICK c \in Contents :
            /\ MaySeal(c)
            /\ out' = Append(out, Sealed(s.wr, c))
            /\ s' = IF c = KeyUpdate THEN hspost_send_key_update(s)
                    ELSE [s EXCEPT !.wr = rec_seal(s.wr)]
            /\ asked' = asked
    BY <1>2 DEF Seals
  <2>2. Caused(out', asked') /\ (c # KeyUpdate => s.key_update_owed = FALSE)
    BY <2>1, <1>MaySealCause, Zenon
  <2>3. s'.key_update_owed = FALSE
    <3>1. CASE c = KeyUpdate
      BY <1>0, <2>1, <3>1 DEF hspost_send_key_update, Sessions
    <3>2. CASE c # KeyUpdate
      BY <1>0, <2>1, <2>2, <3>2 DEF Sessions
    <3> QED BY <3>1, <3>2, Zenon
  <2> QED BY <2>2, <2>3 DEF CauseInv
<1>3. CASE Ends
  <2>1. s'.keys = FALSE /\ asked' = asked
    BY <1>3 DEF Ends
  <2>2. Caused(out', asked)
    <3>1. CASE out' = out
      BY <1>0, <3>1
    <3>2. ASSUME NEW a \in Alerts \cup {"close_notify"}, out' = Append(out, Sealed(s.wr, Alert(a)))
          PROVE  Caused(out', asked)
      BY <1>0, <3>2, <1>AlertCause, Zenon
    <3>3. ASSUME NEW c \in Contents, MaySeal(c)
          PROVE  LET p == Append(out, Sealed(s.wr, c)) IN
                 /\ Caused(p, asked)
                 /\ Caused(Append(p, Sealed(rec_seal(s.wr), Alert("internal_error"))), asked)
      <4> DEFINE p == Append(out, Sealed(s.wr, c))
      <4>1. Caused(p, asked)
        BY <3>3, <1>MaySealCause, ZenonT(40)
      <4>2. p \in Seq(Records) /\ rec_seal(s.wr) \in Dir
        BY <1>0, SealedType, PushFacts, DirType
      <4> HIDE DEF p
      <4>3. Caused(Append(p, Sealed(rec_seal(s.wr), Alert("internal_error"))), asked)
        BY <1>0, <4>1, <4>2, <1>AlertCause DEF Alerts
      <4> QED BY <4>1, <4>3 DEF p
    <3> QED BY <1>3, <3>1, <3>2, <3>3, Zenon DEF Ends
  <2> QED BY <2>1, <2>2 DEF CauseInv
<1> QED BY <1>1, <1>2, <1>3, StepShape

\* handle_key_update and hspost_send_key_update: a KeyUpdate answers a request
\* no earlier one answered, or takes an AES-GCM key's last sequence number.
THEOREM KeyUpdateHasCauseAlways == Spec => []KeyUpdateHasCause
<1> DEFINE Inv == TypeOK /\ KeysDie /\ CauseInv
<1>1. Init => Inv
  <2>1. Init => CauseInv
    <3> SUFFICES ASSUME Init PROVE CauseInv
      OBVIOUS
    <3>1. /\ out = <<>> \/ out = <<Sealed(rec_dir_init, NewSessionTicket)>>
          /\ s.key_update_owed = FALSE
      BY DEF Init
    <3>2. ~IsKeyUpdate(NewSessionTicket)
      BY DEF IsKeyUpdate, NewSessionTicket, Handshake
    <3>3. \A k \in 1..Len(out) : ~IsKeyUpdate(out[k].content)
      BY <3>1, <3>2, SealedFields, SMTT(30)
    <3> QED BY <3>1, <3>3, SMTT(30) DEF CauseInv, Caused
  <2> QED BY <2>1, TypeInit, InitKeys
<1>2. Inv /\ [Next]_vars => Inv'
  BY TypeStep, KeysDieStep, CauseStep
<1>3. Inv => KeyUpdateHasCause
  BY DEF CauseInv, Caused, Waiting, KeyUpdateHasCause
<1> QED BY <1>1, <1>2, <1>3, PTL DEF Spec

-----------------------------------------------------------------------------
(* The price of a run of KeyUpdates *)

\* One byte more pays for a run.
LEMMA RunPaid ==
  ASSUME NEW n \in Nat, NEW k \in Nat \ {0}
  PROVE  RunMax * (n + k) >= RunMax * n + RunMax /\ RunMax * n \in Nat
<1>1. RunMax \in Nat
  BY SessionAssumption
<1>2. PICK j \in Nat : k = j + 1
  <2>1. k - 1 \in Nat /\ k = (k - 1) + 1
    OBVIOUS
  <2> QED BY <2>1
<1>3. RunMax * (n + k) = RunMax * n + RunMax * j + RunMax
  BY <1>1, <1>2
<1>4. RunMax * n \in Nat /\ RunMax * j \in Nat
  BY <1>1, <1>2
<1> QED BY <1>1, <1>3, <1>4

\* Every step keeps the price.
LEMMA RunStep == TypeOK /\ KeysDie /\ RunInv /\ [Next]_vars => RunInv'
<1> SUFFICES ASSUME TypeOK, KeysDie, RunInv, [Next]_vars PROVE RunInv'
  OBVIOUS
<1>0. /\ s \in Sessions /\ s.pt.len \in Nat /\ s.pt.from \in Nat /\ rx \in Seq(Nat)
      /\ Len(rx) \in Nat /\ s.rd \in Dir /\ s.rd.gen \in Nat /\ s.key_update_run \in 0..RunMax
  BY DEF TypeOK, Sessions
<1>1. /\ s' \in Sessions /\ s'.key_update_run \in 0..RunMax /\ Len(rx') \in Nat
      /\ s'.pt.len \in Nat
  <2>1. s' \in Sessions /\ rx' \in Seq(Nat)
    BY TypeStep DEF TypeOK
  <2> QED BY <2>1 DEF Sessions
<1>2. RunMax \in Nat /\ Received \in Nat /\ Received' \in Nat
  <2>1. Len(rx) \in Nat /\ s.pt.len \in Nat
    BY <1>0
  <2>2. Received \in Nat
    BY <2>1 DEF Received
  <2>3. Received' \in Nat
    BY <1>1 DEF Received
  <2> QED BY <2>2, <2>3, SessionAssumption
<1> DEFINE paid == RunMax * Received
<1>3. paid \in Nat /\ paid' \in Nat
  <2>1. \A n \in Nat : RunMax * n \in Nat
    BY <1>2
  <2> QED BY <1>2, <2>1, Zenon
<1>4. CASE s'.rd = s.rd /\ Received' = Received /\ s'.key_update_run = s.key_update_run
  BY <1>4 DEF RunInv
<1>5. CASE s'.rd = Wiped
  <2>1. s'.rd.gen = 0
    BY <1>5 DEF Wiped
  <2>2. s'.key_update_run \in Nat
    BY <1>1
  <2>3. paid' + s'.key_update_run \in Nat
    <3> HIDE DEF paid
    <3> QED BY <1>3, <2>2
  <2> QED BY <2>1, <2>3 DEF RunInv
<1>6. CASE ReadSame
  BY <1>4, <1>6 DEF ReadSame, Received
<1>7. CASE Returns
  <2>1. PICK take \in 0..s.pt.len :
            /\ rx' = rx \o [i \in 1..take |-> s.pt.from + (i - 1)]
            /\ s'.pt = [from |-> s.pt.from + take, len |-> s.pt.len - take]
    BY <1>7 DEF Returns
  <2>2. Len(rx') = Len(rx) + take
    <3> DEFINE e == [i \in 1..take |-> s.pt.from + (i - 1)]
    <3>1. take \in Nat
      BY <1>0
    <3>2. e \in [1..take -> Nat]
      BY <1>0, <3>1
    <3> HIDE DEF e
    <3>3. e \in Seq(Nat) /\ Len(e) = take
      BY <3>1, <3>2
    <3>4. rx' = rx \o e
      BY <2>1 DEF e
    <3>5. Len(rx \o e) = Len(rx) + Len(e)
      <4>1. rx \in Seq(Nat) /\ e \in Seq(Nat)
        BY <1>0, <3>3
      <4> QED BY <4>1
    <3> QED BY <3>3, <3>4, <3>5
  <2>3. s'.pt.len = s.pt.len - take
    BY <2>1
  <2>4. Received' = Received
    BY <1>0, <2>2, <2>3 DEF Received
  <2> QED BY <1>4, <1>7, <2>4 DEF Returns
<1>8. ASSUME NEW c \in PeerContents, Takes(c) PROVE RunInv'
  <2>1. s.pt.len = 0 /\ rx' = rx
    BY <1>8 DEF Takes
  <2>2. rec_open(s.rd).gen = s.rd.gen /\ rec_dir_update(rec_open(s.rd)).gen = s.rd.gen + 1
    BY <1>0 DEF rec_open, rec_dir_update
  <2>3. CASE /\ c.kind = "data" /\ s'.pt = [from |-> c.from, len |-> c.len]
             /\ s'.rd = rec_open(s.rd)
             /\ s'.key_update_run = IF c.len > 0 THEN 0 ELSE s.key_update_run
    <3>1. c.len \in Nat /\ Received' = Received + c.len
      <4>1. c.len \in Nat
        BY <2>3, PeerLenNat, Zenon
      <4>2. Received = Len(rx)
        BY <1>0, <2>1, AllReturned, Zenon
      <4>3. s'.pt.len = c.len
        BY <2>3
      <4>4. Received' = Len(rx) + c.len
        BY <2>1, <4>3, Zenon DEF Received
      <4> QED BY <4>1, <4>2, <4>4, Zenon
    <3>2. CASE c.len = 0
      <4>1. Received' = Received
        BY <1>2, <3>1, <3>2
      <4>2. s'.rd.gen = s.rd.gen /\ s'.key_update_run = s.key_update_run
        BY <2>2, <2>3, <3>2
      <4> QED BY <4>1, <4>2, Zenon DEF RunInv
    <3>3. CASE c.len > 0
      <4>1. paid' >= paid + RunMax
        BY <1>2, <3>1, <3>3, RunPaid
      <4>2. s'.rd.gen <= paid + RunMax
        <5>1. s'.rd.gen = s.rd.gen
          BY <2>2, <2>3, Zenon
        <5>2. s.rd.gen <= paid + s.key_update_run
          BY Zenon DEF RunInv
        <5> HIDE DEF paid
        <5> QED BY <1>0, <1>2, <1>3, <5>1, <5>2
      <4>3. s'.key_update_run = 0 /\ s'.rd.gen \in Nat
        BY <1>0, <2>2, <2>3, <3>3, Zenon
      <4>4. s'.rd.gen <= paid' + s'.key_update_run
        <5> HIDE DEF paid
        <5> QED BY <1>2, <1>3, <4>1, <4>2, <4>3
      <4> QED BY <4>4 DEF RunInv
    <3> QED BY <3>1, <3>2, <3>3
  <2>4. CASE /\ s'.rd = rec_dir_update(rec_open(s.rd)) /\ s'.pt = s.pt
             /\ s'.key_update_run = s.key_update_run + 1
    <3>1. Received' = Received
      BY <2>1, <2>4 DEF Received
    <3>2. s'.rd.gen = s.rd.gen + 1 /\ s'.key_update_run = s.key_update_run + 1
      BY <2>2, <2>4, Zenon
    <3>3. s.rd.gen <= paid + s.key_update_run /\ paid' = paid
      BY <3>1, Zenon DEF RunInv
    <3>4. s'.rd.gen <= paid' + s'.key_update_run
      <4> HIDE DEF paid
      <4> QED BY <1>0, <1>3, <3>2, <3>3
    <3> QED BY <3>4, Zenon DEF RunInv
  <2>5. CASE /\ s'.rd = rec_open(s.rd) /\ s'.pt = s.pt
             /\ s'.key_update_run = s.key_update_run
    <3>1. Received' = Received
      BY <2>1, <2>5 DEF Received
    <3> QED BY <2>2, <2>5, <3>1 DEF RunInv
  <2> QED BY <1>5, <1>8, <2>3, <2>4, <2>5, Zenon DEF Takes
<1> QED BY <1>5, <1>6, <1>7, <1>8, ReadShape, Zenon DEF ReadEnds

\* The comment above dispatch_one_record: the caller receives a byte of data for
\* each CH_KEY_UPDATE_RUN_MAX KeyUpdates.
THEOREM RunsCostDataAlways == Spec => []RunsCostData
<1> DEFINE Inv == TypeOK /\ KeysDie /\ RunInv
<1>1. Init => Inv
  BY TypeInit, InitKeys, InitInput
<1>2. Inv /\ [Next]_vars => Inv'
  BY TypeStep, KeysDieStep, RunStep
<1>3. Inv => RunsCostData
  <2> SUFFICES ASSUME TypeOK, RunInv PROVE RunsCostData
    OBVIOUS
  <2>1. /\ Received \in Nat /\ s.key_update_run \in 0..RunMax /\ RunMax \in Nat
        /\ s.rd \in Dir /\ s.rd.gen \in Nat
    BY SessionAssumption DEF TypeOK, Sessions, Received
  <2>2. RunMax * (Received + 1) >= RunMax * Received + RunMax /\ RunMax * Received \in Nat
    BY <2>1, RunPaid
  <2>3. RunMax * (Received + 1) \in Nat
    BY <2>1
  <2> QED BY <2>1, <2>2, <2>3 DEF RunInv, RunsCostData
<1> QED BY <1>1, <1>2, <1>3, PTL DEF Spec

=============================================================================
