------------------------------ MODULE MCAccess ------------------------------
(***************************************************************************)
(* What an access server shares with others, in one instance for TLC: its  *)
(* caches of groups and of relationships, sync keys, and the messages      *)
(* from user to user and to super groups.  Each behaviour is one of one of *)
(* these modules: they share no state, the caches only the form of theirs  *)
(* (EventStream).  The others stay in their initial state.                 *)
(***************************************************************************)
EXTENDS Integers, Sequences, FiniteSets, TLC

CONSTANTS
  Components,  \* what is explored: one, or all, of the modules below
  Deliverers, Connections, Manager, MaxWrites, MaxLost, None, Uids,
  Servers, c1, c2, c3, ChanSize, MaxKey, SyncKeyFailures,
  sender, receiver, Senders, FirstKinds, SecondKinds, phone, desktop, MaxFailures, SyncLimit,
  MESSAGE_QUEUE_LIMIT, PwtSize,
  Members, Away, GroupMsgs, GroupKinds, Delivers, DtSize, MaxForgets

VARIABLES
  which,  \* the module that runs
  db, writes, lost, writing, actions, stream, pc, action_id, last_entry_id, dirty, upto,
  cache, target, load, suspect,
  user_key, key, told, sync_c, service, key_failures, doubt,
  queue, sending, sent, failures, acked, net, subscribed, subscribing, conn, logins,
  messages, wt, pwt, tc, req, sync_key, got, excused,
  gqueue, handler, gsent, gfailures, forgets, gacked, cached, gnet, dt, gconn, glogins,
  gmessages, gwt, greq, gkey, ggot, gexcused

cacheVars == <<db, writes, lost, writing, actions, stream, pc, action_id, last_entry_id, dirty,
               upto, cache, target, load, suspect>>
keyVars == <<user_key, key, told, sync_c, service, key_failures, doubt>>
peerVars == <<queue, sending, sent, failures, acked, net, subscribed, subscribing, conn, logins,
              messages, wt, pwt, tc, req, sync_key, got, excused>>
groupVars == <<gqueue, handler, gsent, gfailures, forgets, gacked, cached, gnet, dt, gconn, glogins,
               gmessages, gwt, greq, gkey, ggot, gexcused>>

-----------------------------------------------------------------------------
Gc == INSTANCE GroupCache WITH Loaders <- Deliverers
Rc == INSTANCE RelationshipCache WITH Loaders <- Connections

\* Three devices of one user, two of them on one server.
Sk == INSTANCE SyncKeys WITH
        Devices <- {c1, c2, c3}, ServerOf <- [c \in {c1, c2, c3} |-> IF c = c1 THEN 1 ELSE 2],
        MaxFailures <- SyncKeyFailures, sync_key <- user_key, failures <- key_failures

\* Two messages.  phone is the receiver's, desktop a second device of the sender; the
\* users are on different storage servers.  One of the devices logs in, and again
\* after a broken connection.
Pd == INSTANCE PeerDelivery WITH
        Users <- {sender, receiver}, Sender <- sender, Receiver <- receiver,
        Devices <- {phone, desktop}, Remote <- {phone},
        UserOf <- [d \in {phone, desktop} |-> IF d = phone THEN receiver ELSE sender],
        StoreOf <- [u \in {sender, receiver} |-> u],
        Kinds <- <<FirstKinds, SecondKinds>>, MaxMsgs <- 2,
        LoginPlans <- {[d \in {phone, desktop} |-> IF d = watched THEN 2 ELSE 0] :
                         watched \in {phone, desktop}}

\* The senders are on one server with some of the members' devices, and the others
\* are on another.  One of the devices logs in, one of the others again.
GroupHomes == [x \in Senders \cup Members |-> IF x \in Away THEN 2 ELSE 1]
GroupPlans ==
  {[d \in Members |-> IF d # watched THEN 0 ELSE IF d \in Away THEN 2 ELSE 1] : watched \in Members}

\* Only the first message may be one of an HTTP request.
KindsInGroup == [m \in 1..GroupMsgs |-> IF m = 1 THEN GroupKinds ELSE {"client"}]

Sg == INSTANCE SuperGroup WITH
        Devices <- Members, HomeOf <- GroupHomes, Kinds <- KindsInGroup, MaxMsgs <- GroupMsgs,
        LoginPlans <- GroupPlans,
        queue <- gqueue, sent <- gsent, failures <- gfailures, acked <- gacked, net <- gnet,
        conn <- gconn, logins <- glogins, messages <- gmessages, wt <- gwt, req <- greq,
        key <- gkey, got <- ggot, excused <- gexcused

ASSUME ConstantsAreBounds ==
  /\ Gc!GroupAssumption /\ Rc!RelationshipAssumption /\ Sk!SyncKeysAssumption
  /\ Pd!DeliveryAssumption /\ Sg!SuperGroupAssumption

\* Sound: nothing chooses one of them, and no property is a liveness property.
Symmetry == Permutations(Deliverers) \cup Permutations(Senders)

-----------------------------------------------------------------------------
\* Where a component has several initial states, it has one while it is idle.
Init ==
  /\ which \in Components
  /\ IF which = "relationship" THEN Rc!RelationshipInit
     ELSE Gc!GroupInit /\ (which = "group" \/ db.state = "new")
  /\ Sk!Init
  /\ Pd!Init /\ (which = "peer" \/ logins[phone] = 0)
  /\ Sg!Init /\ (which = "super" \/ \A d \in Away : glogins[d] = 0)

Next ==
  \/ which = "group" /\ Gc!GroupNext /\ UNCHANGED <<which, keyVars, peerVars, groupVars>>
  \/ which = "relationship" /\ Rc!RelationshipNext /\ UNCHANGED <<which, keyVars, peerVars, groupVars>>
  \/ which = "key" /\ Sk!Next /\ UNCHANGED <<which, cacheVars, peerVars, groupVars>>
  \/ which = "peer" /\ Pd!Next /\ UNCHANGED <<which, cacheVars, keyVars, groupVars>>
  \/ which = "super" /\ Sg!Next /\ UNCHANGED <<which, cacheVars, keyVars, peerVars>>

Spec == Init /\ [][Next]_<<which, cacheVars, keyVars, peerVars, groupVars>>

-----------------------------------------------------------------------------
\* Types of the variables of GroupManager, RelationshipPool and Connection.
TypeOK ==
  /\ which = "group" => Gc!GroupTypeOK
  /\ which = "relationship" => Rc!RelationshipTypeOK
  /\ Pd!TypeOK

\* Once GroupManager has handled every event, a cached group is the database's.
GroupExact == which = "group" => Gc!GroupExact

\* A failed query of LoadGroupMember makes nobody a member.
NoStrangers == which = "group" => Gc!NoStrangers

\* Once RelationshipPool has handled every event, a cached item is the database's.
RelationshipExact == which = "relationship" => Rc!RelationshipExact

\* A failed query of GetRelationship makes no friends and blocks nobody.
FailsOpen == which = "relationship" => Rc!FailsOpen

\* SyncKeyService leaves the largest key in redis, but for races of two servers.
KeyIsNewest == Sk!KeyIsNewest

\* SyncKeyService puts a smaller key in the place of a larger one only in a race.
KeyGoesBackByRaceOnly == Sk!KeyGoesBackByRaceOnly

\* HandleSync never makes a client skip a message.
KeyLeavesNoGap == Pd!KeyLeavesNoGap

\* A connected device learns of every message that HandleIMMessage, the customer
\* messages and SendIMMessage save, but for the exceptions that LearnsAll lists.
LearnsAll == Pd!LearnsAll

\* HandleIMMessage acknowledges what both users have and were told of.
AckedIsTold == Pd!AckedIsTold

\* HandleIMMessage tells the sender's other log-ins of a message.
OwnDevicesLearn == Pd!OwnDevicesLearn

\* A connected member learns of every message that HandleSuperGroupMessage and
\* SendGroupIMMessage save, but for the exceptions that GroupSynced lists.
GroupSynced == Sg!GroupSynced

\* The key in an acknowledgement of HandleGroupIMMessage is that of the message.
AckTellsKey == Sg!AckTellsKey

\* HandleGroupSync serves a member who was away.
AwayMemberServed == Sg!AwayMemberServed
=============================================================================
