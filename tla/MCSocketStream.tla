--------------------------- MODULE MCSocketStream ---------------------------
(* SocketStream on a small instance. *)
EXTENDS SocketStream

\* A timeout, no wait, and an argument that set_timeout corrects.
MCTimeouts == {-5, 0, 1}

\* The two directions share only flags: a behaviour writes or is sent to.
MCNext == Next /\ (written' = 0 \/ sent' = <<>>)

MCFairSpec == Init /\ [][MCNext]_vars /\ Fairness
=============================================================================
