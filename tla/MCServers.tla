------------------------------ MODULE MCServers ------------------------------
(***************************************************************************)
(* An access server and the servers it depends on, in one instance for     *)
(* TLC: it saves group messages on the storage servers (GroupDeliver) and  *)
(* loads what is new from them (HistoryLoad), tells the route server who   *)
(* is connected (Routing) and reads log-ins from redis (Sessions).  They   *)
(* share no state here, so a behaviour is one of one of them; the others   *)
(* stay in their initial state.                                            *)
(***************************************************************************)
EXTENDS GroupDeliver, TLC

CONSTANTS
  Components,  \* what is explored: one, or all, of the modules below
  Users, Groups, BatchSize, MaxLog, MaxBlock, MaxStarts, EmptyStop, NoFile, Limits, HardLimits,
  p1, d1, v1, user, room, ChanSize, WireSize, Conns,
  c1, c2, c3, phone, pad, MaxLogins, MaxChanges, SessionFailures, None

VARIABLES
  which,  \* the module that runs
  log, block_NO, saving, peer, group, last_id, last_saved_id, diskPeer, diskGroup, flush, phase,
  scan, starts,
  subscribers, state, msg, route_wt, link, conn, wire, clients, route, raced,
  flag, publishing, changes, redis_failures, connected, events, device_key, devices_id,
  step, logins, forbidden, device_ID, missed, doubted

storeVars == <<log, block_NO, saving, peer, group, last_id, last_saved_id, diskPeer, diskGroup,
               flush, phase, scan, starts>>
routeVars == <<subscribers, state, msg, route_wt, link, conn, wire, clients, route, raced>>
sessionVars == <<flag, publishing, changes, redis_failures, connected, events, device_key,
                 devices_id, step, logins, forbidden, device_ID, missed, doubted>>

-----------------------------------------------------------------------------
Hl == INSTANCE HistoryLoad

\* A user with a phone and a desktop client, and a visitor of a room.
Rt == INSTANCE Routing WITH
        Clients <- {p1, d1, v1}, Keys <- {user, room}, Rooms <- {room}, Online <- {p1},
        KeyOf <- [c \in {p1, d1, v1} |-> IF c = v1 THEN room ELSE user], wt <- route_wt

\* Two connections of one phone, on two servers, and one of a tablet.
Se == INSTANCE Sessions WITH
        Conns <- {c1, c2, c3}, Servers <- {1, 2},
        ServerOf <- [c \in {c1, c2, c3} |-> IF c = c1 THEN 1 ELSE 2],
        Users <- {user}, UserOf <- [c \in {c1, c2, c3} |-> user], Devices <- {phone, pad},
        DeviceOf <- [c \in {c1, c2, c3} |-> IF c = c3 THEN pad ELSE phone],
        MaxFailures <- SessionFailures, failures <- redis_failures, subscribed <- connected

ASSUME ConstantsAreBounds ==
  /\ Hl!StoreAssumption /\ Hl!LimitsAssumption
  /\ Rt!RoutingAssumption /\ Se!SessionsAssumption

\* Sound: nothing chooses a connection, and no property is a liveness property.
Symmetry == Permutations(Conns)

-----------------------------------------------------------------------------
MCInit == which \in Components /\ Init /\ Hl!Init /\ Se!Init /\ Rt!Init

MCNext ==
  \/ which = "groups" /\ Next /\ UNCHANGED <<which, storeVars, routeVars, sessionVars>>
  \/ which = "queries" /\ Hl!Next /\ UNCHANGED <<which, vars, routeVars, sessionVars>>
  \/ which = "routes" /\ Rt!Next /\ UNCHANGED <<which, vars, storeVars, sessionVars>>
  \/ which = "sessions" /\ Se!Next /\ UNCHANGED <<which, vars, storeVars, routeVars>>

MCSpec == MCInit /\ [][MCNext]_<<which, vars, storeVars, routeVars, sessionVars>>

-----------------------------------------------------------------------------
\* Types of the variables of GroupMessageDeliver, Channel and Route.
ServersTypeOK == TypeOK /\ Rt!TypeOK

\* LoadHistoryMessagesV3 leaves no gap between an answer and the next.
SyncLeavesNoGap == Hl!SyncLeavesNoGap

\* LoadHistoryMessagesV3 keeps the newest direct messages above the hard limit.
HardLimitKeepsDirect == Hl!HardLimitKeepsDirect

\* LoadLatestMessages returns exactly the newest messages.
LatestExact == Hl!LatestExact

\* LoadGroupHistoryMessages returns the newest messages since the member joined.
GroupHistoryExact == Hl!GroupHistoryExact

\* Once Channel has told everything, the route server knows who is connected.
RouteAgrees == Rt!RouteAgrees

\* The same, when log-ins and log-outs of one user race.
RouteAlwaysAgrees == Rt!RouteAlwaysAgrees

\* Client.forbidden is what redis holds, but for events that were lost or came
\* between GetUserPreferences and AddClient.
ForbiddenAgrees == Se!ForbiddenAgrees

\* GetDeviceID gives no two devices one id.
DeviceIDsDiffer == Se!DeviceIDsDiffer

\* GetDeviceID gives a device its id again.
DeviceKeepsID == Se!DeviceKeepsID
=============================================================================
