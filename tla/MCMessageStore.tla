--------------------------- MODULE MCMessageStore ---------------------------
(***************************************************************************)
(* Instances of MessageStore for TLC, and the refinement of MessageQueues. *)
(***************************************************************************)
EXTENDS MessageStore, TLC

\* No user is special: neither the actions nor the properties tell them apart.
Symmetry == Permutations(Users)

\* The message ids met when the back links are followed from position i,
\* oldest first.
QueueTo(i) ==
  LET to[j \in 0..Len(log)] ==
        IF j = 0 THEN << >> ELSE Append(to[log[j].prev], log[j].msgid)
  IN to[i]

\* While the store serves, a user's queue is what its index gives access to;
\* otherwise what the log holds.
queue == [u \in Users |->
            IF phase = "up" THEN QueueTo(peer[u].last_id)
            ELSE QueueTo(CHOOSE i \in 0..Len(log) : IsNewest(i, PeerEntries(u, Len(log))))]

Queues == INSTANCE MessageQueues WITH Ids <- 1..MaxLog, serving <- (phase = "up")

\* The store implements MessageQueues: following the back links that
\* SavePeerMessage writes yields every message of the user in order, before
\* and after any crash and restart.
ImplementsQueues == Queues!Spec
=============================================================================
