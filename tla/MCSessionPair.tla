--------------------------- MODULE MCSessionPair ---------------------------
(***************************************************************************)
(* Small instances of SessionPair for TLC.                                 *)
(***************************************************************************)
EXTENDS SessionPair

\* What a chapulin peer sends in a handshake record, and its alerts.
OwnRuns == {<<"ku0">>, <<"ticket">>}
OwnAlerts == {"unexpected_message", "bad_record_mac", "record_overflow", "decode_error",
              "illegal_parameter", "internal_error"}
=============================================================================
