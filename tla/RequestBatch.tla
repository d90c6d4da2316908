---------------------------- MODULE RequestBatch ----------------------------
(***************************************************************************)
(* The effect of one batch of queued requests on a registry of callback    *)
(* objects, a function from sockets to objects: additions in their order,  *)
(* then removals.                                                          *)
(***************************************************************************)
EXTENDS Naturals, Sequences, Functions

\* The object the last add request for s names.
LastAdded(batch, s) ==
    batch[CHOOSE k \in DOMAIN batch :
            /\ batch[k][1] = s
            /\ \A j \in DOMAIN batch : batch[j][1] = s => j <= k][2]

\* The registry after one batch of requests: additions, then removals.
AfterBatch(reg, batch, gone) ==
    LET added == {r[1] : r \in Range(batch)}
    IN  [s \in (DOMAIN reg \union added) \ Range(gone) |->
            IF s \in added THEN LastAdded(batch, s) ELSE reg[s]]
=============================================================================
