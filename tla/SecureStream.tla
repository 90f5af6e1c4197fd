---------------------------- MODULE SecureStream ----------------------------
(***************************************************************************)
(* What one direction of a connected session promises its reader: the      *)
(* bytes ch_read returns are the bytes ch_write took, from the first one,  *)
(* each once and in order, and ch_read reports the end of the stream only  *)
(* after all of them, once the writer closed it.  The stream may break at  *)
(* any point, and then it ends for good.                                   *)
(***************************************************************************)
EXTENDS Naturals, Sequences

VARIABLES
    sent,  \* the number of bytes the writer's calls took
    got,   \* the bytes the reader's calls returned
    fin,   \* the writer closed its direction
    eof    \* a read reported the end of the stream

vars == <<sent, got, fin, eof>>

Init == sent = 0 /\ got = <<>> /\ fin = FALSE /\ eof = FALSE

Write ==
    /\ ~fin
    /\ sent' \in Nat /\ sent' > sent
    /\ UNCHANGED <<got, fin, eof>>

Read ==
    /\ ~eof
    /\ \E n \in 1..(sent - Len(got)) :
          got' = got \o [i \in 1..n |-> Len(got) + (i - 1)]
    /\ UNCHANGED <<sent, fin, eof>>

Close ==
    /\ ~fin /\ fin' = TRUE
    /\ UNCHANGED <<sent, got, eof>>

End ==
    /\ fin /\ Len(got) = sent
    /\ ~eof /\ eof' = TRUE
    /\ UNCHANGED <<sent, got, fin>>

Next == Write \/ Read \/ Close \/ End

Spec == Init /\ [][Next]_vars
=============================================================================
