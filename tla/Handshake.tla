----------------------------- MODULE Handshake -----------------------------
(***************************************************************************)
(* The parts of a handshake both roles and every transport share: secrets, *)
(* the session and its handshake state, the answer of a handler, and the   *)
(* transcript (session.h, handshake_record.h, keysched.c).                 *)
(*                                                                         *)
(* A handler takes the session h and the message m read for it and returns *)
(* [ok, h]: the session it leaves, and whether it answered CH_OK.  A       *)
(* refusal leaves the alert it names in h.hs.alert, which is what the      *)
(* driver's failure path sends.  Which of the negative codes a refusal     *)
(* returns is not kept.                                                    *)
(*                                                                         *)
(* h.t is the part of the session that outlives the handshake (ch_tls) and *)
(* h.hs the part that dies with it (handshake_state).                      *)
(*                                                                         *)
(* Cryptography is ideal.  The transcript hash is the sequence of messages *)
(* it covers; a secret is the label, the early secret, the group and the   *)
(* transcript it was derived from; a MAC or a signature verifies exactly   *)
(* when it was made with the right key over the right transcript.          *)
(***************************************************************************)
EXTENDS Naturals, Sequences, FiniteSets

suite_runs_aes_gcm(suite) == suite \in {"aes128", "aes256"}
HashOf(suite) == IF suite = "aes256" THEN "sha384" ELSE "sha256"

-----------------------------------------------------------------------------
(* Secrets and the parts of a session *)

\* ku counts the "quic ku" updates since
NoSecret == [label |-> "none", early |-> "zero", group |-> "none", over |-> << >>, ku |-> 0]
NoDir    == [key |-> NoSecret, seq |-> 0]
NoLeaf   == [set |-> FALSE, epoch |-> 0, epoch_ok |-> FALSE]

\* a zeroed handshake_state; a cookie is a sequence, empty for none
NoHs == [alert |-> "none", kex |-> {}, early |-> "zero", cookie |-> << >>,
         retry_group |-> "none", suite |-> "none", handshake_secret |-> NoSecret,
         c_hs |-> NoSecret, s_hs |-> NoSecret, master |-> NoSecret,
         server_finished_ok |-> FALSE, encrypted |-> FALSE, leaf |-> NoLeaf,
         ticket_auth |-> 0, level |-> 0]

\* a zeroed ch_tls holding the caller's configuration
NoTls(cfg) ==
    [cfg |-> cfg, state |-> "START", keys |-> FALSE, rd |-> NoDir, wr |-> NoDir,
     rd_secret |-> NoSecret, wr_secret |-> NoSecret, res_master |-> NoSecret,
     transcript |-> << >>, suite |-> "none", group |-> "none", sigalg |-> "none",
     psk_selected |-> FALSE, alpn_selected |-> "none", sni |-> FALSE, hrr_sent |-> FALSE,
     peer_limit |-> 0, alert_sent |-> "none", alert_received |-> "none",
     epoch |-> 0, epoch_seen |-> 0, epoch_status |-> "none",
     epoch_store_failed |-> FALSE, quic_negotiated_version |-> 0, buf |-> << >>]

Ok(h)        == [ok |-> TRUE,  h |-> h]
No(h, alert) == [ok |-> FALSE, h |-> [h EXCEPT !.hs.alert = alert]]

\* `rc = step(h); if (rc != CH_OK) return rc;`
Then(result, Step(_)) == IF result.ok THEN Step(result.h) ELSE result

Secret(h, label) ==
    [label |-> label, early |-> h.hs.early, group |-> h.t.group, over |-> h.t.transcript,
     ku |-> 0]

\* the secrets that follow from the handshake secret keep its inputs and cover more
Derived(h, label) ==
    [h.hs.handshake_secret EXCEPT !.label = label, !.over = h.t.transcript]

Hear(h, m) == [h EXCEPT !.t.transcript = Append(@, m)]

\* hsr_restart_transcript: what was heard so far shrinks to its hash
restart_transcript(h, m) ==
    [h EXCEPT !.t.transcript = << [type |-> "message_hash", of |-> @], m >>]

FinishedMessage(hash, key, over) ==
    [type |-> "finished", size |-> 1, hash |-> hash, key |-> key, over |-> over]

=============================================================================
