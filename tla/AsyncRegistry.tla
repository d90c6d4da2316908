---------------------------- MODULE AsyncRegistry ----------------------------
(***************************************************************************)
(* What async_pipeline promises its users, with its threads, counters and  *)
(* flags hidden: a registry of callback objects, one per socket.           *)
(*   - Calls to add_object and remove_object are queued, never refused.    *)
(*   - All the queued requests take effect together, between two callbacks *)
(*     and never during one; within one batch the last add of a socket     *)
(*     wins over the earlier ones, and a remove of it over every add.      *)
(*   - A callback goes to the object the registry holds for its socket; a  *)
(*     socket leaves the registry by a batch or by its own answer QUIT.    *)
(***************************************************************************)
EXTENDS Naturals, Sequences, Functions, RequestBatch

CONSTANTS Sockets, Objects, NoCall

VARIABLES
    registry,   \* socket -> object, a function on the registered sockets
    adds,       \* add requests <<socket, object>> not yet in effect, in order
    removes,    \* remove requests not yet in effect, in order
    current     \* <<socket, object>> of the callback that is running, or NoCall

vars == <<registry, adds, removes, current>>

Requests == Sockets \X Objects

Init ==
    /\ registry = <<>>
    /\ adds = <<>>
    /\ removes = <<>>
    /\ current = NoCall

RequestAdd ==
    /\ \E r \in Requests : adds' = Append(adds, r)
    /\ UNCHANGED <<registry, removes, current>>

RequestRemove ==
    /\ \E s \in Sockets : removes' = Append(removes, s)
    /\ UNCHANGED <<registry, adds, current>>

ApplyBatch ==
    /\ current = NoCall
    /\ registry' = AfterBatch(registry, adds, removes)
    /\ adds' = <<>>
    /\ removes' = <<>>
    /\ UNCHANGED current

Call ==
    /\ current = NoCall
    /\ \E s \in DOMAIN registry : current' = <<s, registry[s]>>
    /\ UNCHANGED <<registry, adds, removes>>

\* The callback answers CONTINUE or IGNORE: it stays registered.
Return ==
    /\ current # NoCall
    /\ current' = NoCall
    /\ UNCHANGED <<registry, adds, removes>>

\* The callback answers QUIT: its socket, and no other, leaves the registry.
Quit ==
    /\ current # NoCall
    /\ registry' = Restrict(registry, DOMAIN registry \ {current[1]})
    /\ current' = NoCall
    /\ UNCHANGED <<adds, removes>>

Next == RequestAdd \/ RequestRemove \/ ApplyBatch \/ Call \/ Return \/ Quit

Spec == Init /\ [][Next]_vars
=============================================================================
