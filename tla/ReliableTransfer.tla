-------------------------- MODULE ReliableTransfer --------------------------
(***************************************************************************)
(* What a reliable data transfer promises to the layer above it: the       *)
(* messages layer 5 hands to the sender come out at the receiver once      *)
(* each, unaltered and in the order they were handed over.  Message k is   *)
(* the k-th one submitted, counting from 0.  The two protocols of          *)
(* original-labs, GoBackN (gbn.c) and SelectiveRepeat (stable.c), are      *)
(* shown to implement this specification.                                  *)
(***************************************************************************)
EXTENDS Integers, Sequences

CONSTANT NSimMax      \* number of messages the user asks to be simulated

VARIABLES submitted,  \* messages handed to the sender so far
          delivered   \* payloads passed up at the receiver, oldest first

Init == /\ submitted = 0
        /\ delivered = << >>

Submit == /\ submitted < NSimMax
          /\ submitted' = submitted + 1
          /\ UNCHANGED delivered

\* One arrival may release several messages that waited for a gap to close.
Deliver == /\ \E n \in (Len(delivered) + 1)..submitted :
                 delivered' = [i \in 1..n |-> i - 1]
           /\ UNCHANGED submitted

Next == Submit \/ Deliver

Spec == Init /\ [][Next]_<<submitted, delivered>>
=============================================================================
