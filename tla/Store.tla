------------------------------- MODULE Store -------------------------------
(***************************************************************************)
(* What a persistent cache promises to the handlers that write into it.    *)
(* A handler takes effect as a whole; what a crash leaves is a state that  *)
(* the content had between two handlers, never one from the middle of a    *)
(* handler.  The value of a row is the number of the handler that wrote    *)
(* it, 0: there is no such row.  The promise ends when a write is refused. *)
(***************************************************************************)
EXTENDS Naturals

CONSTANT Row

VARIABLES
    content,    \* what the handlers have written
    saved,      \* what would be there after a crash
    whole       \* no write has been refused

Contents == [Row -> Nat]

Init ==
    /\ content \in [Row -> {0, 1}]
    /\ saved = content
    /\ whole = TRUE

Fresh(v) == \A r \in Row : content[r] < v /\ saved[r] < v

\* A handler sets some rows to a number of its own and removes others.
Handle ==
    /\ content' \in Contents
    /\ \A r \in Row : content'[r] \in {content[r], 0} \/ Fresh(content'[r])
    /\ \A q, r \in Row : Fresh(content'[q]) /\ Fresh(content'[r]) => content'[q] = content'[r]
    /\ UNCHANGED <<saved, whole>>

Save == saved' = content /\ UNCHANGED <<content, whole>>

\* The program or the transaction is lost: back to what was saved.
Lose == content' = saved /\ UNCHANGED <<saved, whole>>

\* A write is refused: from then on anything may be found.
Break == whole' = FALSE /\ content' \in Contents /\ saved' \in Contents

Next == Handle \/ Save \/ Lose \/ Break

Spec == Init /\ [][Next]_<<content, saved, whole>>
=============================================================================
