---------------------------- MODULE PeerDelivery ----------------------------
(***************************************************************************)
(* A message from one user to another: peer_client.go, customer_client.go, *)
(* rpc.go, connection.go, client.go, im.go.  It is saved for the receiver  *)
(* and for the sender, the devices of both are told that something is new, *)
(* and it is acknowledged; a device that is told synchronises.  Devices    *)
(* have a connection to an access server each: a goroutine reads requests, *)
(* one writes what waits in wt, pwt and messages.  The route server        *)
(* forwards to servers it knows a connection of the user on (Routing).     *)
(*                                                                         *)
(* What is sent over TCP and not received when a connection breaks is the  *)
(* same to both ends as what was never written, so writing and receiving   *)
(* are one step.  The client is that of tests/client.py.                   *)
(***************************************************************************)
EXTENDS Integers, Sequences, FiniteSets, SequencesExt, FiniteSetsExt

CONSTANTS
  Users, Sender, Receiver,
  Senders,      \* connections of Sender, and HTTP requests; they all are on one server
  Kinds,        \* of each message: a set of "im", "customer", "http", "support", "system"
  Devices,      \* the other connections, whose users are to learn of messages
  UserOf,       \* [Devices -> Users]
  Remote,       \* the devices that are not on the server of the senders
  StoreOf,      \* [Users -> the storage server of the user]
  LoginPlans,   \* how often each device logs in: a set of [Devices -> Nat]
  MaxMsgs, MaxFailures,
  SyncLimit,    \* messages in one answer of the storage server
  MESSAGE_QUEUE_LIMIT,
  PwtSize,      \* capacity of pwt
  None

\* What the handlers do after the save for the receiver.  Those of HTTP requests
\* acknowledge nothing.
HandleIMMessage            == <<"save", "toReceiver", "toSender", "ack">>
CustomerClientMessage      == <<"save", "toReceiver", "toSender", "ack">>
SendIMMessage              == <<"save", "toReceiver", "toSender">>
SendCustomerSupportMessage == <<"save", "toSender", "toReceiver">>
SendSystemMessage          == <<"toReceiver">>

\* "http" also stands for SendCustomerMessage.
Work ==
  [im |-> HandleIMMessage, customer |-> CustomerClientMessage, http |-> SendIMMessage,
   support |-> SendCustomerSupportMessage, system |-> SendSystemMessage]

DeliveryAssumption ==
  /\ {Sender, Receiver} = Users /\ UserOf \in [Devices -> Users] /\ Remote \subseteq Devices
  /\ Kinds \in [1..MaxMsgs -> SUBSET DOMAIN Work] /\ LoginPlans \subseteq [Devices -> Nat]
  /\ {MaxMsgs, MaxFailures} \subseteq Nat
  /\ {SyncLimit, MESSAGE_QUEUE_LIMIT, PwtSize} \subseteq Nat \ {0}
  /\ None \notin [kind : DOMAIN Work, todo : Seq({"save", "toReceiver", "toSender", "ack"}),
                  msg : Nat, msgid : Nat, msgid2 : Nat]

VARIABLES
  queue,        \* [Users -> the entries [id, msg] the storage server holds]
  sending,      \* [Senders -> the handler in progress, or None]
  sent, failures,
  acked,        \* messages acknowledged to their sender
  net,          \* [Devices -> what is on its way to the server of a remote device]
  subscribed,   \* remote devices whose Subscribe the route server has handled
  subscribing,  \* those whose Subscribe is in a channel
  conn,         \* [Devices -> the state of the connection on its server]
  logins,       \* [Devices -> log-ins left]
  messages, wt, pwt,  \* what waits to be written
  tc,           \* [Devices -> a write failed]
  req,          \* [Devices -> requests the server has still to read]
  sync_key, got,      \* of the client
  excused       \* history: [Devices -> messages it was not told of, and why]

storeVars  == <<queue, sent, failures, acked>>
routeVars  == <<net, subscribed, subscribing>>
writeVars  == <<messages, wt, pwt, tc>>
clientVars == <<req, sync_key, got>>
vars == <<storeVars, sending, routeVars, conn, logins, writeVars, clientVars, excused>>

Ids(u) == {e.id : e \in ToSet(queue[u])}
Excuse(ids, why) == {[id |-> id, why |-> why] : id \in ids}

-----------------------------------------------------------------------------
\* Connections.

\* EnqueueNonBlockMessage, for each of items: a full list loses its oldest.  An
\* item is "im", the message itself, or a MSG_SYNC_NOTIFY with its key; about is
\* the id of the message in the queue of the user.
Shortened(list) ==
  IF Len(list) > MESSAGE_QUEUE_LIMIT
    THEN SubSeq(list, Len(list) - MESSAGE_QUEUE_LIMIT + 1, Len(list)) ELSE list

Accepts(d) == conn[d] # "closed" /\ ~tc[d]

Enqueued(d, items) == IF Accepts(d) THEN Shortened(messages[d] \o items) ELSE messages[d]

\* A notification stands for every message up to the one it is about.  These
\* lose the last that stands for them.
Dropped(d, items) ==
  LET all  == messages[d] \o items
      UpTo(list) == {id \in Ids(UserOf[d]) : \E i \in DOMAIN list : id <= list[i].about}
  IN IF Accepts(d) THEN Excuse(UpTo(all) \ UpTo(Shortened(all)), "dropped") ELSE {}

\* The devices that DispatchMessageToPeer finds: AddClient was called for them.
Routed(d) == conn[d] \in {"added", "in"}

-----------------------------------------------------------------------------
\* HandleIMMessage, HandleCustomerMessage and HandleCustomerSupportMessage of a
\* client, and the HTTP requests.

Stored(users) == UNION {{<<v, id>> : id \in Ids(v)} : v \in users}
NextId(u)     == 1 + Cardinality(Stored({v \in Users : StoreOf[v] = StoreOf[u]}))

Saved(u, m) == queue' = [queue EXCEPT ![u] = Append(@, [id |-> NextId(u), msg |-> m])]

\* Nobody will be told of a message that was saved.
Untold(saved) ==
  excused' = [d \in Devices |->
    excused[d] \cup Excuse({e.id : e \in {f \in saved : f.user = UserOf[d]}}, "untold")]

\* SaveMessage for u.  The call fails before or after the storage server has
\* saved, and the handler returns.
Save(s, u, m, then) ==
  \/ Saved(u, m) /\ sending' = [sending EXCEPT ![s] = then] /\ UNCHANGED <<failures, excused>>
  \/ /\ failures < MaxFailures /\ failures' = failures + 1
     /\ sending' = [sending EXCEPT ![s] = None]
     /\ LET before == IF sending[s] = None THEN {} ELSE {[user |-> Receiver, id |-> sending[s].msgid]}
        IN \/ UNCHANGED queue /\ Untold(before)
           \/ Saved(u, m) /\ Untold(before \cup {[user |-> u, id |-> NextId(u)]})

SaveForReceiver(s) ==
  /\ sending[s] = None /\ sent < MaxMsgs
  /\ sent' = sent + 1
  /\ \E k \in Kinds[sent + 1] :
       Save(s, Receiver, sent + 1, [kind |-> k, todo |-> Work[k], msg |-> sent + 1,
                                    msgid |-> NextId(Receiver), msgid2 |-> 0])
  /\ UNCHANGED <<acked, routeVars, conn, logins, writeVars, clientVars>>

At(s, step) == sending[s] # None /\ Head(sending[s].todo) = step
Done(h)     == IF Len(h.todo) = 1 THEN None ELSE [h EXCEPT !.todo = Tail(@)]

\* Mutant of SaveForSender: the handler goes on although the save failed.
SaveForSenderOrNot(s) ==
  /\ At(s, "save")
  /\ \/ Save(s, Sender, sending[s].msg, Done([sending[s] EXCEPT !.msgid2 = NextId(Sender)]))
     \/ /\ failures < MaxFailures /\ failures' = failures + 1
        /\ sending' = [sending EXCEPT ![s] = Done(@)] /\ UNCHANGED <<queue, excused>>
  /\ UNCHANGED <<sent, acked, routeVars, conn, logins, writeVars, clientVars>>

SaveForSender(s) ==
  /\ At(s, "save")
  /\ Save(s, Sender, sending[s].msg, Done([sending[s] EXCEPT !.msgid2 = NextId(Sender)]))
  /\ UNCHANGED <<sent, acked, routeVars, conn, logins, writeVars, clientVars>>

\* The route server sends to the servers on which it knows the user.
HandlePublish(devices, items) ==
  net' = [d \in Devices |-> IF d \in devices \cap subscribed THEN net[d] \o items ELSE net[d]]

\* client.SendMessage or SendAppMessage, for the message and the notification:
\* PublishMessage to other servers, which only those get that the route server
\* knows, and DispatchMessageToPeer on this one.
SendMessage(u, kind, key, id) ==
  LET notify  == [kind |-> "notify", key |-> key, about |-> id]
      items   == IF kind \notin {"im", "customer"} THEN <<notify>>
                 ELSE <<[kind |-> "im", key |-> id, about |-> id], notify>>
      devices == {d \in Devices : UserOf[d] = u}
      unknown == {d \in devices \cap Remote : d \notin subscribed /\ conn[d] = "in" /\ req[d] = << >>}
      local   == {d \in devices \ Remote : Routed(d)}
  IN /\ HandlePublish(devices, items)
     /\ messages' = [d \in Devices |-> IF d \in local THEN Enqueued(d, items) ELSE messages[d]]
     /\ excused' = [d \in Devices |->
                      excused[d] \cup (IF d \in local THEN Dropped(d, items) ELSE {})
                                 \cup (IF d \in unknown THEN Excuse({id}, "unsubscribed") ELSE {})]
     /\ UNCHANGED <<subscribed, subscribing>>

SendToReceiver(s) ==
  /\ At(s, "toReceiver")
  /\ SendMessage(Receiver, sending[s].kind, sending[s].msgid, sending[s].msgid)
  /\ sending' = [sending EXCEPT ![s] = Done(@)]
  /\ UNCHANGED <<storeVars, conn, logins, wt, pwt, tc, clientVars>>

\* The notification of HandleIMMessage carries msgid, the id of the message in
\* the queue of the receiver; those of the other handlers carry msgid2.
OwnKey(h) == IF h.kind = "im" THEN h.msgid ELSE h.msgid2

SendToSender(s) ==
  /\ At(s, "toSender")
  /\ SendMessage(Sender, sending[s].kind, OwnKey(sending[s]), sending[s].msgid2)
  /\ sending' = [sending EXCEPT ![s] = Done(@)]
  /\ UNCHANGED <<storeVars, conn, logins, wt, pwt, tc, clientVars>>

Ack(s) ==
  /\ At(s, "ack")
  /\ acked' = acked \cup {sending[s].msg}
  /\ sending' = [sending EXCEPT ![s] = Done(@)]
  /\ UNCHANGED <<queue, sent, failures, routeVars, conn, logins, writeVars, clientVars, excused>>

\* DispatchAppMessage on the server of a remote device.
DispatchAppMessage(d) ==
  /\ net[d] # << >> /\ net' = [net EXCEPT ![d] = Tail(@)]
  /\ IF Routed(d)
       THEN /\ messages' = [messages EXCEPT ![d] = Enqueued(d, <<Head(net[d])>>)]
            /\ excused' = [excused EXCEPT ![d] = @ \cup Dropped(d, <<Head(net[d])>>)]
       ELSE UNCHANGED <<messages, excused>>
  /\ UNCHANGED <<storeVars, sending, subscribed, subscribing, conn, logins, wt, pwt, tc, clientVars>>

-----------------------------------------------------------------------------
\* Logging in and out.

\* HandleAuthToken up to MSG_AUTH_STATUS, to which the client answers MSG_SYNC.
Login(d) ==
  /\ conn[d] = "off" /\ logins[d] > 0
  /\ logins' = [logins EXCEPT ![d] = @ - 1]
  /\ conn' = [conn EXCEPT ![d] = "auth"]
  /\ req' = [req EXCEPT ![d] = <<sync_key[d]>>]
  /\ UNCHANGED <<storeVars, sending, routeVars, writeVars, sync_key, got, excused>>

\* Route.AddClient
AddClient(d) ==
  /\ conn[d] = "auth" /\ conn' = [conn EXCEPT ![d] = "added"]
  /\ UNCHANGED <<storeVars, sending, routeVars, logins, writeVars, clientVars, excused>>

\* PeerClient.Login: the Subscribe is put into the channel to the route server.
Subscribe(d) ==
  /\ conn[d] = "added" /\ conn' = [conn EXCEPT ![d] = "in"]
  /\ subscribing' = subscribing \cup ({d} \cap Remote)
  /\ UNCHANGED <<storeVars, sending, net, subscribed, logins, writeVars, clientVars, excused>>

\* The route server handles it.
HandleSubscribe(d) ==
  /\ d \in subscribing
  /\ subscribing' = subscribing \ {d} /\ subscribed' = subscribed \cup {d}
  /\ UNCHANGED <<storeVars, sending, net, conn, logins, writeVars, clientVars, excused>>

\* The connection breaks, or the client stays away: writing fails from now on.
Break(d) ==
  /\ conn[d] = "in" /\ ~tc[d]
  /\ tc' = [tc EXCEPT ![d] = TRUE]
  /\ UNCHANGED <<storeVars, sending, routeVars, conn, logins, messages, wt, pwt, clientVars, excused>>

\* HandleClientClosed as far as wt <- nil.
HandleClientClosed(d) ==
  /\ conn[d] = "in" /\ tc[d]
  /\ conn' = [conn EXCEPT ![d] = "closed"]
  /\ req' = [req EXCEPT ![d] = << >>]
  /\ UNCHANGED <<storeVars, sending, routeVars, logins, writeVars, sync_key, got, excused>>

\* Mutant of Logout: the route server is not told.
LogoutSilently(d) ==
  /\ conn[d] = "closed" /\ conn' = [conn EXCEPT ![d] = "off"]
  /\ messages' = [messages EXCEPT ![d] = << >>]
  /\ wt' = [wt EXCEPT ![d] = << >>] /\ pwt' = [pwt EXCEPT ![d] = << >>]
  /\ tc' = [tc EXCEPT ![d] = FALSE]
  /\ UNCHANGED <<storeVars, sending, routeVars, logins, clientVars, excused>>

\* Write ends, and PeerClient.Logout: what still waits is not sent.
Logout(d) ==
  /\ conn[d] = "closed" /\ conn' = [conn EXCEPT ![d] = "off"]
  /\ messages' = [messages EXCEPT ![d] = << >>]
  /\ wt' = [wt EXCEPT ![d] = << >>] /\ pwt' = [pwt EXCEPT ![d] = << >>]
  /\ tc' = [tc EXCEPT ![d] = FALSE]
  /\ subscribed' = subscribed \ {d} /\ subscribing' = subscribing \ {d}
  /\ UNCHANGED <<storeVars, sending, net, logins, clientVars, excused>>

-----------------------------------------------------------------------------
\* Synchronisation.

\* Mutant of Reads: requests are handled while HandleAuthToken still runs.
ReadsEarly(d) == conn[d] \in {"auth", "added", "in"} /\ ~tc[d]

\* The goroutine Read handles requests when it is done with HandleAuthToken.
Reads(d) == conn[d] = "in" /\ ~tc[d]

\* What is new, by the ids; the storage server answers with the first SyncLimit.
New(d, asked)      == {id \in Ids(UserOf[d]) : id > asked}
InAnswer(new)      == {id \in new : Cardinality({i \in new : i <= id}) <= SyncLimit}
AnswerEnd(ids, asked) == IF ids = {} THEN asked ELSE Max(ids)

\* Mutants of AnswerKey and HasMore: the newest key; never more.
AnswerKeyNewest(asked, new) == AnswerEnd(new, asked)
HasMoreNever(new) == FALSE

AnswerKey(asked, new) == AnswerEnd(InAnswer(new), asked)
HasMore(new) == Cardinality(new) > SyncLimit

\* HandleSync: SYNC_BEGIN, the messages and SYNC_END go to pwt in one piece;
\* the notification that there is more goes to wt and may overtake them.  A full
\* pwt makes the reader wait; when that takes 60 seconds tc is set, as by Break.
\* When the storage server does not answer, the request is dropped.
HandleSync(d) ==
  /\ Reads(d) /\ req[d] # << >> /\ Len(pwt[d]) < PwtSize
  /\ req' = [req EXCEPT ![d] = Tail(@)]
  /\ LET new == New(d, Head(req[d]))
         end == AnswerKey(Head(req[d]), new)
     IN \/ /\ pwt' = [pwt EXCEPT ![d] = Append(@, [ids |-> InAnswer(new), end |-> end])]
           /\ wt' = IF HasMore(new) THEN [wt EXCEPT ![d] = Append(@, end + 1)] ELSE wt
           /\ UNCHANGED <<failures, excused>>
        \/ /\ failures < MaxFailures /\ failures' = failures + 1
           /\ excused' = [excused EXCEPT ![d] = @ \cup Excuse(new, "unanswered")]
           /\ UNCHANGED <<pwt, wt>>
  /\ UNCHANGED <<queue, sent, acked, sending, routeVars, conn, logins, messages, tc, sync_key, got>>

\* The goroutine Write runs from the beginning of the connection.
Writes(d) == conn[d] \in {"auth", "added", "in"} /\ ~tc[d]

\* The client asks for what is new, once for each of n keys it has not reached.
Asked(d, n) == [req EXCEPT ![d] = @ \o [i \in 1..n |-> sync_key[d]]]

\* Write takes from wt: there is more.
WriteMore(d) ==
  /\ Writes(d) /\ wt[d] # << >> /\ wt' = [wt EXCEPT ![d] = Tail(@)]
  /\ req' = Asked(d, IF Head(wt[d]) > sync_key[d] THEN 1 ELSE 0)
  /\ UNCHANGED <<storeVars, sending, routeVars, conn, logins, messages, pwt, tc, sync_key, got, excused>>

\* Write takes from pwt: the client keeps the messages and, at SYNC_END, a
\* larger key.
WriteSync(d) ==
  /\ Writes(d) /\ pwt[d] # << >> /\ pwt' = [pwt EXCEPT ![d] = Tail(@)]
  /\ got' = [got EXCEPT ![d] = @ \cup Head(pwt[d]).ids]
  /\ sync_key' = [sync_key EXCEPT ![d] = IF Head(pwt[d]).end > @ THEN Head(pwt[d]).end ELSE @]
  /\ UNCHANGED <<storeVars, sending, routeVars, conn, logins, messages, wt, tc, req, excused>>

\* Write takes from lwt: SendMessages writes the whole list.  When no key in it
\* is one the client has not reached, it does not ask.
SendMessages(d) ==
  /\ Writes(d) /\ messages[d] # << >> /\ messages' = [messages EXCEPT ![d] = << >>]
  /\ LET notices == {i \in DOMAIN messages[d] : messages[d][i].kind = "notify"}
         useful  == {i \in notices : messages[d][i].key > sync_key[d]}
         unasked == {id \in New(d, sync_key[d]) : \E i \in notices : id <= messages[d][i].about}
     IN /\ req' = Asked(d, Cardinality(useful))
        /\ excused' = [excused EXCEPT ![d] = IF useful = {} THEN @ \cup Excuse(unasked, "wrong key") ELSE @]
  /\ UNCHANGED <<storeVars, sending, routeVars, conn, logins, wt, pwt, tc, sync_key, got>>

-----------------------------------------------------------------------------
Empty == [d \in Devices |-> << >>]

Init ==
  /\ queue = [u \in Users |-> << >>] /\ sending = [s \in Senders |-> None]
  /\ sent = 0 /\ failures = 0 /\ acked = {}
  /\ net = Empty /\ subscribed = {} /\ subscribing = {}
  /\ conn = [d \in Devices |-> "off"] /\ logins \in LoginPlans
  /\ messages = Empty /\ wt = Empty /\ pwt = Empty /\ tc = [d \in Devices |-> FALSE]
  /\ req = Empty /\ sync_key = [d \in Devices |-> 0] /\ got = [d \in Devices |-> {}]
  /\ excused = [d \in Devices |-> {}]

Continue(s)  == SaveForSender(s) \/ SendToReceiver(s) \/ SendToSender(s) \/ Ack(s)
Connected(d) == AddClient(d) \/ Subscribe(d) \/ HandleClientClosed(d) \/ Logout(d)
Write(d)     == WriteMore(d) \/ WriteSync(d) \/ SendMessages(d)

Next ==
  \/ \E s \in Senders : SaveForReceiver(s) \/ Continue(s)
  \/ \E d \in Devices : \/ Login(d) \/ Connected(d) \/ Break(d) \/ HandleSubscribe(d)
                        \/ DispatchAppMessage(d) \/ HandleSync(d) \/ Write(d)

\* The goroutines run, and Go's select does not pass over a channel for ever.
\* Nobody has to send, to log in or to break a connection.
Fairness ==
  /\ \A s \in Senders : WF_vars(Continue(s))
  /\ \A d \in Devices : /\ WF_vars(Connected(d)) /\ WF_vars(HandleSubscribe(d))
                        /\ WF_vars(DispatchAppMessage(d)) /\ WF_vars(HandleSync(d))
                        /\ WF_vars(Write(d))

Spec == Init /\ [][Next]_vars /\ Fairness

-----------------------------------------------------------------------------
AllIds == 1..(2 * MaxMsgs)

\* Type invariant: a list never exceeds its limit, and a device is known to the
\* route server only while it has a connection.
TypeOK ==
  /\ \A u \in Users : Ids(u) \subseteq AllIds
  /\ acked \subseteq 1..sent
  /\ conn \in [Devices -> {"off", "auth", "added", "in", "closed"}]
  /\ \A d \in Devices : Len(messages[d]) <= MESSAGE_QUEUE_LIMIT /\ Len(pwt[d]) <= PwtSize
  /\ \A d \in subscribed \cup subscribing : d \in Remote /\ conn[d] \in {"in", "closed"}
  /\ sync_key \in [Devices -> AllIds \cup {0}] /\ got \in [Devices -> SUBSET AllIds]
  /\ \A d \in Devices :
       excused[d] \subseteq [id : AllIds, why : {"untold", "dropped", "unsubscribed", "unanswered", "wrong key"}]

\* Nothing is under way to the device or from it.
Quiet(d) ==
  /\ conn[d] = "in" /\ ~tc[d] /\ net[d] = << >> /\ req[d] = << >>
  /\ messages[d] = << >> /\ wt[d] = << >> /\ pwt[d] = << >>
  /\ \A s \in Senders : sending[s] = None

Excused(d) == {e.id : e \in excused[d]}

\* A client never skips a message: it has every message up to its key, though
\* answers of several requests, the notifications that there is more and a new
\* connection overlap.
KeyLeavesNoGap == \A d \in Devices : {id \in Ids(UserOf[d]) : id <= sync_key[d]} \subseteq got[d]

\* A connected device learns of every message, however log-in and delivery
\* interleave.  The exceptions: a call failed, the route server did not know the
\* device yet, the last notification that stands for the message was lost from a
\* full list, or it carried the key of the other queue.
LearnsAll == \A d \in Devices : Quiet(d) => {id \in Ids(UserOf[d]) : id > sync_key[d]} \subseteq Excused(d)

\* An acknowledged message is in both queues, and both users were told.
AckedIsTold ==
  \A m \in acked, u \in Users :
    \E e \in ToSet(queue[u]) :
      e.msg = m /\ \A d \in Devices : UserOf[d] = u => [id |-> e.id, why |-> "untold"] \notin excused[d]

\* peer_client.go:198 and :214: the message goes to the sender's own queue, and to
\* the sender's other log-ins, so that they get what was sent.  The notification
\* to them carries the key of the receiver's queue, which says nothing to them.
OwnDevicesLearn ==
  \A d \in Devices :
    Quiet(d) /\ UserOf[d] = Sender =>
      {id \in Ids(Sender) : id > sync_key[d]} \subseteq {e.id : e \in {f \in excused[d] : f.why # "wrong key"}}

\* A device that stays connected gets every message in the end, but for the same
\* exceptions: no wait for a channel, and no answer that says there is more,
\* stops it for ever.
EventuallySynced ==
  \A d \in Devices : <>[](conn[d] # "in" \/ tc[d] \/ Ids(UserOf[d]) \subseteq got[d] \cup Excused(d))
=============================================================================
