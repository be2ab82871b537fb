------------------------------ MODULE Mailbox -------------------------------
(***************************************************************************)
(* What the request handlers and the actor rely on when they share the     *)
(* command queue, without permits, waiters or cancellation: commands wait  *)
(* in the order in which they were accepted, never more than the queue has *)
(* slots; the actor has one at a time and finishes it before it takes the  *)
(* next; and only a handler that breaks down loses any.                    *)
(***************************************************************************)
EXTENDS Integers, Sequences

CONSTANTS Message,  \* commands
          Capacity  \* slots

VARIABLES accepted, \* every command there was, in order
          inbox,    \* those that wait
          busy,     \* is the actor handling one?
          finished, \* how many it has handled
          broken    \* did a handler break down?

vars == <<accepted, inbox, busy, finished, broken>>

Init ==
    /\ accepted = <<>> /\ inbox = <<>>
    /\ busy = FALSE /\ finished = 0 /\ broken = FALSE

Accept ==
    /\ ~broken /\ Len(inbox) < Capacity
    /\ \E m \in Message : /\ accepted' = Append(accepted, m)
                          /\ inbox' = Append(inbox, m)
    /\ UNCHANGED <<busy, finished, broken>>

Take ==
    /\ ~broken /\ ~busy /\ inbox # <<>>
    /\ inbox' = Tail(inbox)
    /\ busy' = TRUE
    /\ UNCHANGED <<accepted, finished, broken>>

Finish ==
    /\ ~broken /\ busy
    /\ busy' = FALSE
    /\ finished' = finished + 1
    /\ UNCHANGED <<accepted, inbox, broken>>

Break ==
    /\ ~broken /\ busy
    /\ broken' = TRUE /\ busy' = FALSE /\ inbox' = <<>>
    /\ UNCHANGED <<accepted, finished>>

Next == Accept \/ Take \/ Finish \/ Break

Spec == Init /\ [][Next]_vars
=============================================================================
