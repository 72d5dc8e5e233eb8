------------------------------- MODULE Broadcast -------------------------------
(***************************************************************************)
(* util/broadcast.go: one goroutine that registers and unregisters         *)
(* listeners and hands every item to each of them, one after the other.    *)
(* Everything is a rendezvous: the goroutine takes a registration or an    *)
(* item only between two items, and while it hands one over it waits for   *)
(* the listener at the head of pending, whatever that one is doing.        *)
(* Each action is joined with a step of the goroutine at the other end.    *)
(***************************************************************************)
EXTENDS Sequences, SequencesExt

CONSTANTS Listeners, Items

VARIABLES listeners, \* in the order of their registration
          pending    \* what is still to be sent, as <<listener, item>>

TypeOK ==
    /\ listeners \in Seq(Listeners)
    /\ pending \in Seq(Listeners \X Items)

Init == listeners = <<>> /\ pending = <<>>

Idle == pending = <<>>

Reg(l) ==
    /\ Idle
    /\ listeners' = Append(listeners, l)
    /\ UNCHANGED pending

\* l has registered; it is listed once, as Reg makes a channel of its own.
UnReg(l) ==
    /\ Idle
    /\ \E n \in DOMAIN listeners :
        listeners[n] = l /\ listeners' = RemoveAt(listeners, n)
    /\ UNCHANGED pending

\* Mutant: an item is taken before everybody has had the last one.
InBuffered(item) ==
    /\ pending' = pending \o [n \in DOMAIN listeners |-> <<listeners[n], item>>]
    /\ UNCHANGED listeners

In(item) ==
    /\ Idle
    /\ pending' = [n \in DOMAIN listeners |-> <<listeners[n], item>>]
    /\ UNCHANGED listeners

\* l, which is receiving, is handed item.
Send(l, item) ==
    /\ ~Idle /\ Head(pending) = <<l, item>>
    /\ pending' = Tail(pending)
    /\ UNCHANGED listeners

\* The goroutine is held by l.
HeldBy(l) == ~Idle /\ Head(pending)[1] = l
================================================================================
