----------------------------- MODULE WriteQueue -----------------------------
(***************************************************************************)
(* What the SDK's write path promises for the batches of one device, which *)
(* every account numbers 1, 2, ...: the backend applies them in the order  *)
(* in which they were written, and after a lost stream again from the      *)
(* first that has not left the queue, never one that has.  A batch leaves  *)
(* the queue at the front, as acknowledged only if the backend has applied *)
(* it over the stream that told of it, and as rejected only because the    *)
(* backend has refused a batch of the queue: that one, or a later one if   *)
(* results were lost.                                                      *)
(***************************************************************************)
EXTENDS Naturals

CONSTANT Users

VARIABLES written,   \* written[u]: batches that u has written
          decided,   \* decided[u]: how far the backend has come in u's queue
          settled    \* settled[u]: how many have left the device's queue

Zero == [u \in Users |-> 0]

Init == written = Zero /\ decided = Zero /\ settled = Zero

Write(u) == /\ written' = [written EXCEPT ![u] = @ + 1]
            /\ UNCHANGED <<decided, settled>>

Apply(u) == /\ decided[u] < written[u]
            /\ decided' = [decided EXCEPT ![u] = @ + 1]
            /\ UNCHANGED <<written, settled>>

Acknowledge(u) == /\ settled[u] < decided[u]
                  /\ settled' = [settled EXCEPT ![u] = @ + 1]
                  /\ UNCHANGED <<written, decided>>

Refuse(u) == /\ decided[u] < written[u]
             /\ settled' = [settled EXCEPT ![u] = @ + 1]
             /\ decided' = [decided EXCEPT ![u] = settled[u] + 1]
             /\ UNCHANGED written

\* A stream is lost with the results that it carried.
Forget(u) == /\ decided' = [decided EXCEPT ![u] = settled[u]]
             /\ UNCHANGED <<written, settled>>

Next == \E u \in Users :
            Write(u) \/ Apply(u) \/ Acknowledge(u) \/ Refuse(u) \/ Forget(u)

QueueSpec == Init /\ [][Next]_<<written, decided, settled>>
=============================================================================
