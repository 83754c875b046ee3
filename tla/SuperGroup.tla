----------------------------- MODULE SuperGroup -----------------------------
(***************************************************************************)
(* Messages to a super group: group_client.go, rpc.go, im.go and the group *)
(* loading of group_message_deliver.go.  A message is saved once, on the   *)
(* storage server of the group, and published to every access server; each *)
(* server looks the group up in its cache (GroupCache) and tells the       *)
(* members that are connected to it, who synchronise the group.  One       *)
(* group, whose members own all of the devices.  The connection is that of *)
(* PeerDelivery in fewer steps, and so is the client.                      *)
(***************************************************************************)
EXTENDS Integers, Sequences, FiniteSets, SequencesExt

CONSTANTS
  Servers,      \* access servers
  Senders,      \* connections of a member, and HTTP requests
  Devices,      \* the other connections of members
  HomeOf,       \* [Senders \cup Devices -> Servers]
  Kinds,        \* of each message: a set of "client" and "http"
  Delivers,     \* the GroupMessageDelivers of a server
  DtSize,       \* capacity of their channel dt
  LoginPlans,   \* how often each device logs in: a set of [Devices -> Nat]
  MaxMsgs, MaxFailures, MaxForgets,
  SyncLimit,    \* GROUP_OFFLINE_LIMIT of the storage server
  MESSAGE_QUEUE_LIMIT,
  None

SuperGroupAssumption ==
  /\ HomeOf \in [Senders \cup Devices -> Servers] /\ Kinds \in [1..MaxMsgs -> SUBSET {"client", "http"}]
  /\ LoginPlans \subseteq [Devices -> Nat] /\ {MaxMsgs, MaxFailures, MaxForgets} \subseteq Nat
  /\ {DtSize, SyncLimit, MESSAGE_QUEUE_LIMIT} \subseteq Nat \ {0}
  /\ None \notin [step : {"save", "publish"}, kind : {"client", "http"}, msg : Nat, id : Nat]

VARIABLES
  queue,     \* the messages the storage server holds; the place of one is its id
  handler,   \* [Senders -> the handler in progress, or None]
  sent, failures, forgets,
  acked,     \* acknowledgements: [msg, id], where id 0 stands for no metadata
  cached,    \* [Servers -> is the group in the cache]
  net,       \* [Servers -> what the route server has for it]
  dt,        \* [Servers -> [Delivers -> what waits for the group to be loaded]]
  conn,      \* the devices that have logged in
  logins,    \* [Devices -> log-ins left]
  messages,  \* [Devices -> the list that waits to be written]
  wt,        \* [Devices -> the answers that wait to be written]
  req,       \* [Devices -> keys the client asked from]
  key, got,  \* of the client
  excused    \* history: [Devices -> messages it was not told of, and why]

sendVars   == <<queue, handler, sent, acked>>
groupVars  == <<cached, forgets>>
connVars   == <<conn, logins, wt>>
clientVars == <<req, key, got>>
vars == <<sendVars, failures, groupVars, net, dt, connVars, messages, clientVars, excused>>

Fails == failures < MaxFailures /\ failures' = failures + 1
Excuse(ids, why) == {[id |-> id, why |-> why] : id \in ids}

-----------------------------------------------------------------------------
\* DispatchMessageToGroup: each connected member on server s.

Local(s) == {d \in conn : HomeOf[d] = s}

Shortened(list) ==
  IF Len(list) > MESSAGE_QUEUE_LIMIT
    THEN SubSeq(list, Len(list) - MESSAGE_QUEUE_LIMIT + 1, Len(list)) ELSE list

\* A notification stands for every message up to its own.  These lose the last
\* that stands for them when the list is full.
Dropped(list) ==
  LET UpTo(l) == {id \in DOMAIN queue : \E i \in DOMAIN l : l[i].kind = "notify" /\ id <= l[i].id}
  IN Excuse(UpTo(list) \ UpTo(Shortened(list)), "dropped")

DispatchMessageToGroup(s, items) ==
  /\ messages' = [d \in Devices |-> IF d \in Local(s) THEN Shortened(messages[d] \o items) ELSE messages[d]]
  /\ excused' = [d \in Devices |->
       IF d \in Local(s) THEN excused[d] \cup Dropped(messages[d] \o items) ELSE excused[d]]

\* Nobody on server s is told of the message.
Unheard(s, items, why) ==
  excused' = [d \in Devices |->
    IF d \in Local(s) THEN excused[d] \cup Excuse({i.id : i \in ToSet(items)}, why) ELSE excused[d]]

\* GroupManager.LoadGroup by way of LoadGroup or run2 of a deliver: the group is
\* in the cache, or is read from the database, which may fail.
LoadGroup(s)      == cached' = [cached EXCEPT ![s] = TRUE] /\ UNCHANGED failures
LoadGroupFails(s) == ~cached[s] /\ Fails /\ UNCHANGED cached

-----------------------------------------------------------------------------
\* HandleGroupIMMessage of a client, SendGroupIMMessage of an HTTP request.

Begin(s) ==
  /\ handler[s] = None /\ sent < MaxMsgs /\ sent' = sent + 1
  /\ \/ LoadGroup(HomeOf[s])
        /\ \E k \in Kinds[sent + 1] :
             handler' = [handler EXCEPT ![s] = [step |-> "save", kind |-> k, msg |-> sent + 1, id |-> 0]]
     \/ LoadGroupFails(HomeOf[s]) /\ UNCHANGED handler
  /\ UNCHANGED <<queue, acked, forgets, net, dt, connVars, messages, clientVars, excused>>

At(s, step) == handler[s] # None /\ handler[s].step = step

\* A client is acknowledged, with or without metadata; an HTTP request is not.
Finished(s, id) ==
  /\ handler' = [handler EXCEPT ![s] = None]
  /\ acked' = IF handler[s].kind = "client" THEN acked \cup {[msg |-> handler[s].msg, id |-> id]} ELSE acked

Saved(s) == queue' = Append(queue, handler[s].msg)
ToPublish(h, id) == [step |-> "publish", kind |-> h.kind, msg |-> h.msg, id |-> id]

\* Mutant of SaveGroupMessage: the answer of an earlier call is used when a call fails.
SaveGroupMessageOldAnswer(s) ==
  /\ At(s, "save")
  /\ \/ /\ Saved(s) /\ UNCHANGED <<acked, failures, excused>>
        /\ handler' = [handler EXCEPT ![s] = ToPublish(handler[s], Len(queue) + 1)]
     \/ /\ Fails /\ Finished(s, Len(queue)) /\ UNCHANGED <<queue, excused>>
  /\ UNCHANGED <<sent, groupVars, net, dt, connVars, messages, clientVars>>

\* The call fails before or after the storage server has saved.  Nobody is
\* told, but HandleGroupIMMessage acknowledges all the same.
SaveGroupMessage(s) ==
  /\ At(s, "save")
  /\ \/ /\ Saved(s) /\ UNCHANGED <<acked, failures, excused>>
        /\ handler' = [handler EXCEPT ![s] = ToPublish(handler[s], Len(queue) + 1)]
     \/ /\ Fails /\ Finished(s, 0)
        /\ \/ UNCHANGED <<queue, excused>>
           \/ /\ Saved(s)
              /\ excused' = [d \in Devices |-> excused[d] \cup Excuse({Len(queue) + 1}, "untold")]
  /\ UNCHANGED <<sent, groupVars, net, dt, connVars, messages, clientVars>>

\* What is sent to the members: the notification, and the message of a client.
Notify(id)                  == [kind |-> "notify", id |-> id]
HandleSuperGroupMessage(id) == <<[kind |-> "im", id |-> id], Notify(id)>>
SendGroupIMMessage(id)      == <<Notify(id)>>

\* Channel.PublishGroup; the route server sends it to all other servers.
HandlePublishGroup(s, items) == net' = [t \in Servers |-> IF t = s THEN net[t] ELSE net[t] \o items]

\* It is published, and dispatched on this server with the group that was loaded
\* before.
SendGroupMessage(s) ==
  LET items == IF handler[s].kind = "client" THEN HandleSuperGroupMessage(handler[s].id)
               ELSE SendGroupIMMessage(handler[s].id)
  IN /\ At(s, "publish")
     /\ HandlePublishGroup(HomeOf[s], items)
     /\ DispatchMessageToGroup(HomeOf[s], items)
     /\ Finished(s, handler[s].id)
     /\ UNCHANGED <<queue, sent, failures, groupVars, dt, connVars, clientVars>>

-----------------------------------------------------------------------------
\* Other servers.

\* Mutant of DispatchGroupMessage: what finds no group is not kept.
DispatchGroupMessageCached(s) ==
  /\ net[s] # << >> /\ net' = [net EXCEPT ![s] = Tail(@)]
  /\ IF cached[s] THEN DispatchMessageToGroup(s, <<Head(net[s])>>) ELSE UNCHANGED <<messages, excused>>
  /\ UNCHANGED <<sendVars, failures, groupVars, dt, connVars, clientVars>>

\* DispatchGroupMessage, DispatchMessage: the channel to the route server has one
\* reader.  Which deliver is next depends on what other groups do.
DispatchGroupMessage(s) ==
  /\ net[s] # << >> /\ net' = [net EXCEPT ![s] = Tail(@)]
  /\ \E g \in Delivers :
       LET item == <<Head(net[s])>> IN
       \/ cached[s] /\ DispatchMessageToGroup(s, item) /\ UNCHANGED dt
       \/ /\ ~cached[s] /\ Len(dt[s][g]) < DtSize
          /\ dt' = [dt EXCEPT ![s][g] = @ \o item] /\ UNCHANGED <<messages, excused>>
       \/ /\ ~cached[s] /\ Len(dt[s][g]) = DtSize
          /\ Unheard(s, item, "not loaded") /\ UNCHANGED <<dt, messages>>
  /\ UNCHANGED <<sendVars, failures, groupVars, connVars, clientVars>>

\* run2, dispatchMessage
DispatchMessage(s, g) ==
  /\ dt[s][g] # << >> /\ dt' = [dt EXCEPT ![s][g] = Tail(@)]
  /\ LET item == <<Head(dt[s][g])>> IN
     \/ LoadGroup(s) /\ DispatchMessageToGroup(s, item)
     \/ LoadGroupFails(s) /\ Unheard(s, item, "not loaded") /\ UNCHANGED messages
  /\ UNCHANGED <<sendVars, forgets, net, connVars, clientVars>>

\* The group leaves the cache: clear or Recycle.
Forget(s) ==
  /\ cached[s] /\ forgets < MaxForgets /\ forgets' = forgets + 1
  /\ cached' = [cached EXCEPT ![s] = FALSE]
  /\ UNCHANGED <<sendVars, failures, net, dt, connVars, messages, clientVars, excused>>

-----------------------------------------------------------------------------
\* Connections.

\* The client logs in and asks for what is new in the group.
Login(d) ==
  /\ d \notin conn /\ logins[d] > 0
  /\ logins' = [logins EXCEPT ![d] = @ - 1] /\ conn' = conn \cup {d}
  /\ req' = [req EXCEPT ![d] = <<key[d]>>]
  /\ UNCHANGED <<sendVars, failures, groupVars, net, dt, messages, wt, key, got, excused>>

\* The connection ends, with all that waits.
HandleClientClosed(d) ==
  /\ d \in conn /\ conn' = conn \ {d}
  /\ messages' = [messages EXCEPT ![d] = << >>]
  /\ wt' = [wt EXCEPT ![d] = << >>] /\ req' = [req EXCEPT ![d] = << >>]
  /\ UNCHANGED <<sendVars, failures, groupVars, net, dt, logins, key, got, excused>>

After(k) == {id \in 1..Len(queue) : id > k}

\* HandleGroupSync: FindGroup looks into the cache only; without an answer from
\* there, or from the storage server, the request is dropped.  The answer holds
\* the newest messages; one goroutine writes its parts in order, and a broken
\* connection loses MSG_SYNC_GROUP_END with them, so it is one piece here.
HandleGroupSync(d) ==
  /\ d \in conn /\ req[d] # << >> /\ req' = [req EXCEPT ![d] = Tail(@)]
  /\ LET new == After(Head(req[d]))
         ids == {id \in new : id > Len(queue) - SyncLimit}
         end == IF new = {} THEN Head(req[d]) ELSE Len(queue)
     IN \/ /\ cached[HomeOf[d]]
           /\ wt' = [wt EXCEPT ![d] = Append(@, [ids |-> ids, end |-> end])]
           /\ excused' = [excused EXCEPT ![d] = @ \cup Excuse(new \ ids, "too old")]
           /\ UNCHANGED failures
        \/ /\ cached[HomeOf[d]] /\ Fails
           /\ excused' = [excused EXCEPT ![d] = @ \cup Excuse(new, "unanswered")]
           /\ UNCHANGED wt
        \/ /\ ~cached[HomeOf[d]]
           /\ excused' = [excused EXCEPT ![d] = @ \cup Excuse(new, "not cached")]
           /\ UNCHANGED <<wt, failures>>
  /\ UNCHANGED <<sendVars, groupVars, net, dt, conn, logins, messages, key, got>>

\* Write takes from wt: at MSG_SYNC_GROUP_END the client takes a larger key.
WriteAnswer(d) ==
  /\ d \in conn /\ wt[d] # << >> /\ wt' = [wt EXCEPT ![d] = Tail(@)]
  /\ got' = [got EXCEPT ![d] = @ \cup Head(wt[d]).ids]
  /\ key' = [key EXCEPT ![d] = IF Head(wt[d]).end > @ THEN Head(wt[d]).end ELSE @]
  /\ UNCHANGED <<sendVars, failures, groupVars, net, dt, conn, logins, messages, req, excused>>

\* Write takes from lwt: the client asks when it is told of a key it has not
\* reached.
SendMessages(d) ==
  /\ d \in conn /\ messages[d] # << >> /\ messages' = [messages EXCEPT ![d] = << >>]
  /\ LET news == {i \in DOMAIN messages[d] : messages[d][i].kind = "notify" /\ messages[d][i].id > key[d]}
     IN req' = [req EXCEPT ![d] = @ \o [i \in 1..Cardinality(news) |-> key[d]]]
  /\ UNCHANGED <<sendVars, failures, groupVars, net, dt, connVars, key, got, excused>>

-----------------------------------------------------------------------------
Init ==
  /\ queue = << >> /\ handler = [s \in Senders |-> None] /\ sent = 0 /\ acked = {}
  /\ failures = 0 /\ forgets = 0 /\ cached = [s \in Servers |-> FALSE]
  /\ net = [s \in Servers |-> << >>] /\ dt = [s \in Servers |-> [g \in Delivers |-> << >>]]
  /\ conn = {} /\ logins \in LoginPlans
  /\ messages = [d \in Devices |-> << >>] /\ wt = [d \in Devices |-> << >>]
  /\ req = [d \in Devices |-> << >>] /\ key = [d \in Devices |-> 0] /\ got = [d \in Devices |-> {}]
  /\ excused = [d \in Devices |-> {}]

Next ==
  \/ \E s \in Senders : Begin(s) \/ SaveGroupMessage(s) \/ SendGroupMessage(s)
  \/ \E s \in Servers : DispatchGroupMessage(s) \/ Forget(s) \/ \E g \in Delivers : DispatchMessage(s, g)
  \/ \E d \in Devices : \/ Login(d) \/ HandleClientClosed(d) \/ HandleGroupSync(d)
                        \/ WriteAnswer(d) \/ SendMessages(d)

Spec == Init /\ [][Next]_vars

-----------------------------------------------------------------------------
\* Nothing is under way to the device or from it.
Quiet(d) ==
  /\ d \in conn /\ req[d] = << >> /\ wt[d] = << >> /\ messages[d] = << >>
  /\ net[HomeOf[d]] = << >> /\ \A g \in Delivers : dt[HomeOf[d]][g] = << >>
  /\ \A s \in Senders : handler[s] = None

Unread(d)  == After(key[d])
Excused(d) == {e.id : e \in excused[d]}

\* A connected member learns of every message, though the messages of a group
\* may overtake each other on the way through the delivers, and skips none.  The
\* exceptions: a call failed, a notification found no group and dt full or was
\* lost from a full list, a request found no group in the cache, or there were
\* more messages than one answer holds.
GroupSynced ==
  \A d \in Devices :
    /\ Quiet(d) => Unread(d) \subseteq Excused(d)
    /\ (1..key[d]) \subseteq got[d] \cup Excused(d)

\* A client that is given a key with its acknowledgement can rely on it; one that
\* is given none cannot tell whether the message was saved, and nobody was told.
AckTellsKey ==
  \A a \in acked :
    \/ a.id \in DOMAIN queue /\ queue[a.id] = a.msg
    \/ /\ a.id = 0
       /\ \A id \in DOMAIN queue : queue[id] = a.msg =>
            \A d \in Devices : [id |-> id, why |-> "untold"] \in excused[d]

\* tests/test_group.py:120-148: a member of a super group who was away gets
\* its messages on logging in.  HandleGroupSync asks the cache only.
AwayMemberServed ==
  \A d \in Devices :
    Quiet(d) => Unread(d) \subseteq {e.id : e \in {f \in excused[d] : f.why # "not cached"}}
=============================================================================
