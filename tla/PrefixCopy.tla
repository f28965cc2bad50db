------------------------------ MODULE PrefixCopy ------------------------------
(***************************************************************************)
(* What a direct-copy materializer promises while the chain only grows:    *)
(* its table is an at-least-once copy of an event log that is published in *)
(* (block, log) order, it holds nothing else, and its cursor only ever     *)
(* moves forward, over events that are already in the table.               *)
(***************************************************************************)
EXTENDS EventOrder

CONSTANT Streams     \* the event streams being copied

VARIABLES source,    \* the events published so far, per stream
          copied,    \* the rows of the copy
          position   \* up to where the copy is complete

copyVars == <<source, copied, position>>

AbstractInit ==
    /\ source = [s \in Streams |-> {}]
    /\ copied = [s \in Streams |-> {}]
    /\ position = [s \in Streams |-> [block |-> 0, log |-> 0]]

(* A block is published: its events come after every position.             *)
Publish ==
    /\ \A s \in Streams :
        /\ source[s] \subseteq source'[s]
        /\ \A e \in source'[s] \ source[s] : Before(position[s], e)
    /\ UNCHANGED <<copied, position>>

Copy(s) ==
    /\ \E e \in source[s] : copied' = [copied EXCEPT ![s] = @ \cup {e}]
    /\ UNCHANGED <<source, position>>

Commit(s) ==
    /\ \E e \in source[s] :
        /\ Before(position[s], e)
        /\ \A d \in source[s] : Covers(e, d) => d \in copied[s]
        /\ position' = [position EXCEPT ![s] = PositionOf(e)]
    /\ UNCHANGED <<source, copied>>

AbstractNext == Publish \/ \E s \in Streams : Copy(s) \/ Commit(s)

AbstractSpec == AbstractInit /\ [][AbstractNext]_copyVars

=============================================================================
