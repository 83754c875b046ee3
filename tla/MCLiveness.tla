----------------------------- MODULE MCLiveness -----------------------------
(***************************************************************************)
(* What must happen in the end, in one instance for TLC: between an access *)
(* server and a route server (Routing), a master and a slave (Replication),*)
(* from a sender to a device (PeerDelivery) and to the members of a group  *)
(* (GroupDeliver).  They share no state, so a behaviour is one of one of   *)
(* them and leaves the others in their initial state, where none of their  *)
(* fair actions is enabled.                                                *)
(***************************************************************************)
EXTENDS Integers, Sequences, FiniteSets

CONSTANTS
  Clients, Keys, Rooms, Online, p1, d1, v1, user, room, RoutingChanSize, WireSize, RoutingConns,
  BlockSize, ChanSize, CacheSize, LiveRollover, MaxMsgs, MaxBlock, MaxConns,
  sender, receiver, s1, phone, Logins, PeerMsgs, PeerFailures, SyncLimit, MESSAGE_QUEUE_LIMIT,
  PwtSize, StorageServers, GroupMsgs, TruncateAt, MaxFails, MaxCrashes, None

\* A user with a phone and a desktop client, and a visitor of a room.
MCKeyOf == [c \in Clients |-> IF c = v1 THEN room ELSE user]

VARIABLES
  which,  \* the component that runs
  subscribers, state, msg, wt, link, rconn, rwire, rclients, route, raced,
  mlog, block_NO, pending, ewt, cache, sendTo, busy, clients, phase, cursor, loading,
  cewt, taken, wire, conn, slog, send, inbox, atRisk,
  queue, sending, sent, failures, acked, net, subscribed, subscribing, pconn, logins,
  messages, wtch, pwt, tc, req, sync_key, got, excused,
  file, gcursor, latest_msgid, latest_sended_msgid, wakeups, writing, callbacks,
  callbackid_to_msgid, ch, waiting, gacked, pc, current, rest, saved, ims, cut, fails, crashes

rtVars == <<subscribers, state, msg, wt, link, rconn, rwire, rclients, route, raced>>
rpVars == <<mlog, block_NO, pending, ewt, cache, sendTo, busy, clients, phase, cursor, loading,
            cewt, taken, wire, conn, slog, send, inbox, atRisk>>
peerVars == <<queue, sending, sent, failures, acked, net, subscribed, subscribing, pconn, logins,
              messages, wtch, pwt, tc, req, sync_key, got, excused>>
groupVars == <<file, gcursor, latest_msgid, latest_sended_msgid, wakeups, writing, callbacks,
               callbackid_to_msgid, ch, waiting, gacked, pc, current, rest, saved, ims, cut, fails,
               crashes>>

Rt == INSTANCE Routing WITH KeyOf <- MCKeyOf, ChanSize <- RoutingChanSize, Conns <- RoutingConns,
        conn <- rconn, wire <- rwire, clients <- rclients
Rp == INSTANCE Replication

\* One device of the receiver, on another server than the sender.
Pd == INSTANCE PeerDelivery WITH
        Users <- {sender, receiver}, Sender <- sender, Receiver <- receiver,
        Senders <- {s1}, Kinds <- [n \in 1..PeerMsgs |-> {"im"}], Devices <- {phone}, Remote <- {phone},
        UserOf <- [d \in {phone} |-> receiver], StoreOf <- [u \in {sender, receiver} |-> u],
        LoginPlans <- {[d \in {phone} |-> Logins]},
        MaxMsgs <- PeerMsgs, MaxFailures <- PeerFailures,
        conn <- pconn, wt <- wtch

\* No crash between Truncate and saveCursor: it loses messages for ever.
Gd == INSTANCE GroupDeliver WITH
        Servers <- StorageServers, WtSize <- 1, TruncateCrash <- FALSE, MaxMsgs <- GroupMsgs,
        cursor <- gcursor, wt <- wakeups, acked <- gacked

-----------------------------------------------------------------------------
Init ==
  /\ which \in {"routing", "replication", "peer", "group"}
  /\ Rt!Init /\ Rp!Init /\ Pd!Init /\ Gd!Init

Next ==
  \/ which = "routing" /\ Rt!Next /\ UNCHANGED <<which, rpVars, peerVars, groupVars>>
  \/ which = "replication" /\ Rp!Next /\ UNCHANGED <<which, rtVars, peerVars, groupVars>>
  \/ which = "peer" /\ Pd!Next /\ UNCHANGED <<which, rtVars, rpVars, groupVars>>
  \/ which = "group" /\ Gd!Next /\ UNCHANGED <<which, rtVars, rpVars, peerVars>>

Spec == Init /\ [][Next]_<<which, rtVars, rpVars, peerVars, groupVars>>
        /\ Rt!Fairness /\ Rp!Fairness /\ Pd!Fairness /\ Gd!Fairness

-----------------------------------------------------------------------------
\* No client waits for ever in Channel.Subscribe or Unsubscribe.
NoClientStuck == Rt!NoClientStuck

\* A client that stays logged in is found by the route server in the end.
ClientIsFound == Rt!ClientIsFound

\* saveMessage does not wait for ever for the channel ewt of the master.
SaveReturns == Rp!SaveReturns

\* A message that Master.Run takes reaches a connected slave in the end.
LiveDelivered == Rp!LiveDelivered

\* HandleSync and the notifications bring a connected device every message in
\* the end, but for the exceptions of LearnsAll.
EventuallySynced == Pd!EventuallySynced

\* Every saved message of a normal group is dispatched to every member.
AllDispatched == Gd!AllDispatched
=============================================================================
