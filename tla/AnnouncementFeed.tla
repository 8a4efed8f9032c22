--------------------------- MODULE AnnouncementFeed ---------------------------
(***************************************************************************)
(* What the announcement walk relies on: the publisher's transactions come *)
(* in order, at least once, and none is passed over unless the node no     *)
(* longer had it.                                                          *)
(***************************************************************************)
EXTENDS Naturals, Sequences

VARIABLES
    log,        \* the account's transactions: [ledger, trusted]
    lost,       \* indices of those the node has pruned
    handled,    \* indices of those handled
    position    \* index up to which the feed is consumed

vars == <<log, lost, handled, position>>

Init == log = <<>> /\ lost = {} /\ handled = {} /\ position = 0

\* The next transaction to be handled; pruned ones may be missing before it.
Due(i) == /\ i \in position + 1 .. Len(log)
          /\ log[i].trusted
          /\ \A j \in position + 1 .. i - 1 : log[j].trusted => j \in lost

Publish == /\ Len(log) <= Len(log')
           /\ \A i \in 1 .. Len(log) : log'[i] = log[i]
           /\ UNCHANGED <<lost, handled, position>>

Prune == lost \subseteq lost' /\ UNCHANGED <<log, handled, position>>

Deliver(i) == /\ Due(i)
              /\ handled' = handled \cup {i}
              /\ UNCHANGED <<log, lost, position>>

Consume(i) == /\ Due(i)
              /\ i \in handled
              /\ position' = i
              /\ UNCHANGED <<log, lost, handled>>

Next == \/ Publish
        \/ Prune
        \/ \E i \in 1 .. Len(log) : Deliver(i) \/ Consume(i)

Spec == Init /\ [][Next]_vars
=============================================================================
