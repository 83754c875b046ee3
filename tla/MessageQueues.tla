---------------------------- MODULE MessageQueues ----------------------------
(***************************************************************************)
(* What the storage server promises its callers about personal messages:   *)
(* one queue of message ids per user that only grows at its end, ids that  *)
(* grow over the whole store, and queues that survive every restart as     *)
(* they were (design.md: each message is stored in the queue of each user, *)
(* in order and without loss).                                             *)
(***************************************************************************)
EXTENDS Integers, Sequences

CONSTANTS Users, Ids

VARIABLES
  queue,    \* the message ids of every user, oldest first
  serving   \* the server accepts requests

qvars == <<queue, serving>>

Init == queue = [u \in Users |-> << >>] /\ serving = FALSE

\* SavePeerMessage returns id: larger than every id of the store.
Save(u, id) ==
  /\ serving /\ serving' = serving
  /\ \A v \in Users : \A i \in DOMAIN queue[v] : queue[v][i] < id
  /\ queue' = [queue EXCEPT ![u] = Append(@, id)]

Start == ~serving /\ serving' = TRUE /\ UNCHANGED queue
End   == serving /\ serving' = FALSE /\ UNCHANGED queue

Next == (\E u \in Users, id \in Ids : Save(u, id)) \/ Start \/ End

Spec == Init /\ [][Next]_qvars
=============================================================================
