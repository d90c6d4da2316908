----------------------------- MODULE ByteChannel -----------------------------
(***************************************************************************)
(* What a program expects to read from a stream: the bytes its peer sent,  *)
(* each once and in the order they were sent, until the stream hangs up.   *)
(***************************************************************************)
EXTENDS Naturals, Sequences

CONSTANT Bytes

VARIABLES
    sent,           \* the peer's bytes
    received,       \* those the program has read
    hup             \* the stream has hung up

vars == <<sent, received, hup>>

Init == sent = <<>> /\ received = <<>> /\ hup = FALSE

Send(b) ==
    /\ sent' = Append(sent, b)
    /\ UNCHANGED <<received, hup>>

Receive ==
    /\ ~hup
    /\ Len(received) < Len(sent)
    /\ received' = Append(received, sent[Len(received) + 1])
    /\ UNCHANGED <<sent, hup>>

HangUp ==
    /\ ~hup
    /\ hup' = TRUE
    /\ UNCHANGED <<sent, received>>

Next == (\E b \in Bytes : Send(b)) \/ Receive \/ HangUp

Spec == Init /\ [][Next]_vars
=============================================================================
