------------------------------- MODULE Routing -------------------------------
(***************************************************************************)
(* Which route a message finds to a user: an access server (im) counts the *)
(* connections of every user and room in a Channel (im/channel.go) and     *)
(* tells the route server (imr) when a count leaves or reaches zero; the   *)
(* route server keeps, for every connection of an access server, the users *)
(* and rooms to be found there (imr/client.go, imr/route.go).              *)
(* One access server, one route server, and every TCP connection between   *)
(* them, the old ones that the route server has yet to give up included.   *)
(*                                                                         *)
(* A key is a user or a room.  A room is subscribed to as a user is whose  *)
(* devices all are off-line ones: only the total is counted.               *)
(***************************************************************************)
EXTENDS Integers, FiniteSets, SequencesExt

CONSTANTS
  Clients,   \* client connections of the access server
  Keys,      \* users and rooms
  Rooms,     \* the keys that are rooms
  KeyOf,     \* the user or room of every client
  Online,    \* clients that subscribe with online: devices that need no push
  ChanSize,  \* capacity of channel.wt
  WireSize,  \* bound: messages that fit in a TCP connection
  Conns      \* bound: connections at a time, old ones included

RoutingAssumption ==
  /\ KeyOf \in [Clients -> Keys] /\ Rooms \subseteq Keys
  /\ Online \subseteq {c \in Clients : KeyOf[c] \notin Rooms}
  /\ ChanSize \in Nat \ {0} /\ WireSize \in Nat \ {0}
  /\ IsFiniteSet(Clients) /\ IsFiniteSet(Keys) /\ "none" \notin Keys

VARIABLES
  subscribers, \* channel.subscribers: the two counts of every key
  state,       \* of every client: has it been counted
  msg,         \* of every client: message to be put into channel.wt, or NoMsg
  wt,          \* channel.wt
  link,        \* Channel.Run: "down", "rooms" (to be subscribed again) or "up"
  conn,        \* the connection of Channel.RunOnce
  wire,        \* of every connection: messages under way to the route server
  clients,     \* the connections the route server reads
  route,       \* client.app_route of every connection: the status of every key
  raced        \* keys with two messages outside of the mutex at once

imVars  == <<subscribers, state, msg>>
imrVars == <<clients, route>>
vars    == <<subscribers, state, msg, wt, link, conn, wire, clients, route, raced>>

NoKeys == [k \in Keys |-> "none"]

\* MSG_SUBSCRIBE(_ROOM) with its online flag, and MSG_UNSUBSCRIBE(_ROOM), as the
\* status they give the key.
Msg(k, status) == [key |-> k, status |-> status]
NoMsg == [key |-> "none", status |-> "none"]
StatusOf(online) == IF online THEN "online" ELSE "offline"

-----------------------------------------------------------------------------
\* Channel.Subscribe and Unsubscribe, and the same for rooms: the counts under
\* the mutex, channel.wt <- msg after it.

AddSubscribe(k, online) ==
  subscribers' = [subscribers EXCEPT
    ![k] = [all    |-> @.all + 1,
            online |-> IF online THEN @.online + 1 ELSE @.online]]

\* Mutant of RemoveSubscribe: on-line devices are counted in, but not out.
RemoveSubscribeTotal(k, online) ==
  LET left == subscribers[k].all - 1 IN
  subscribers' = [subscribers EXCEPT
    ![k] = [all |-> left, online |-> IF left = 0 THEN 0 ELSE @.online]]

\* The entry of the map is deleted when the total reaches zero.
RemoveSubscribe(k, online) ==
  LET left == subscribers[k].all - 1 IN
  subscribers' = [subscribers EXCEPT
    ![k] = [all    |-> left,
            online |-> IF left = 0 THEN 0 ELSE IF online THEN @.online - 1 ELSE @.online]]

\* What the client has to tell the route server, from the counts before.
ToTell(c, m) ==
  /\ msg' = [msg EXCEPT ![c] = m]
  /\ raced' = IF m # NoMsg /\ \E d \in Clients \ {c} : msg[d] # NoMsg /\ msg[d].key = m.key
                THEN raced \cup {m.key} ELSE raced

Subscribe(c) ==
  LET k == KeyOf[c]
      before == subscribers[k]
      online == c \in Online
  IN
  /\ state[c] = "out" /\ msg[c] = NoMsg
  /\ state' = [state EXCEPT ![c] = "in"]
  /\ AddSubscribe(k, online)
  /\ ToTell(c, IF before.all = 0 THEN Msg(k, StatusOf(online))
               ELSE IF before.online = 0 /\ online THEN Msg(k, "online")
               ELSE NoMsg)
  /\ UNCHANGED <<wt, link, conn, wire, imrVars>>

\* Mutant of Unsubscribe: the last on-line device may leave unnoticed.
UnsubscribeKeepingOnline(c) ==
  LET k == KeyOf[c] IN
  /\ state[c] = "in" /\ msg[c] = NoMsg
  /\ state' = [state EXCEPT ![c] = "out"]
  /\ RemoveSubscribe(k, c \in Online)
  /\ ToTell(c, IF subscribers[k].all = 1 THEN Msg(k, "none") ELSE NoMsg)
  /\ UNCHANGED <<wt, link, conn, wire, imrVars>>

Unsubscribe(c) ==
  LET k == KeyOf[c]
      before == subscribers[k]
      online == c \in Online
  IN
  /\ state[c] = "in" /\ msg[c] = NoMsg
  /\ state' = [state EXCEPT ![c] = "out"]
  /\ RemoveSubscribe(k, online)
  /\ ToTell(c, IF before.all = 1 THEN Msg(k, "none")
               ELSE IF before.online = 1 /\ online THEN Msg(k, "offline")
               ELSE NoMsg)
  /\ UNCHANGED <<wt, link, conn, wire, imrVars>>

\* channel.wt <- msg; the client's goroutine waits while the channel is full.
SendWt(c) ==
  /\ msg[c] # NoMsg /\ Len(wt) < ChanSize
  /\ wt' = Append(wt, msg[c])
  /\ msg' = [msg EXCEPT ![c] = NoMsg]
  /\ UNCHANGED <<subscribers, state, link, conn, wire, imrVars, raced>>

-----------------------------------------------------------------------------
\* Channel.Run and RunOnce.

\* A subscription for every key of the set that is in the map.
Subscriptions(keys) ==
  LET present == {k \in keys : subscribers[k].all > 0}
  IN SetToSeq({Msg(k, StatusOf(subscribers[k].online > 0)) : k \in present})

\* Races are forgotten when the counts are told anew and nothing older follows.
Forget(keys) ==
  raced' = raced \ {k \in keys : /\ \A c \in Clients : msg[c] = NoMsg \/ msg[c].key # k
                                 /\ \A m \in ToSet(wt) : m.key # k}

Transmit(msgs) ==
  wire' = IF conn' \in clients' THEN [wire EXCEPT ![conn'] = @ \o msgs] ELSE wire

\* Dial and ReSubscribe.  The route server begins to read a new client.
Connect(n) ==
  /\ link = "down" /\ n \notin clients
  /\ link' = "rooms" /\ conn' = n
  /\ clients' = clients \cup {n}
  /\ route' = [route EXCEPT ![n] = NoKeys]
  /\ Transmit(Subscriptions(Keys \ Rooms))
  /\ Forget(Keys \ Rooms)
  /\ UNCHANGED <<imVars, wt>>

\* Mutant of ReSubscribeRoom: the rooms are left to the old subscriptions.
ReSubscribeNoRoom ==
  /\ link = "rooms" /\ link' = "up"
  /\ Forget(Rooms)
  /\ UNCHANGED <<imVars, imrVars, wt, conn, wire>>

ReSubscribeRoom ==
  /\ link = "rooms" /\ link' = "up"
  /\ UNCHANGED <<imVars, imrVars, wt, conn>>
  /\ Transmit(Subscriptions(Rooms))
  /\ Forget(Rooms)

\* Mutant of Forward: after a failed write nothing is taken from the channel.
ForwardUntilError ==
  /\ link = "up" /\ wt # << >> /\ conn \in clients /\ Len(wire[conn]) < WireSize
  /\ wt' = Tail(wt)
  /\ UNCHANGED <<imVars, imrVars, link, conn, raced>>
  /\ Transmit(<<Head(wt)>>)

\* The next message of channel.wt; it is lost when the route server has given
\* the connection up.
Forward ==
  /\ link = "up" /\ wt # << >>
  /\ conn \in clients => Len(wire[conn]) < WireSize
  /\ wt' = Tail(wt)
  /\ UNCHANGED <<imVars, imrVars, link, conn, raced>>
  /\ Transmit(<<Head(wt)>>)

\* The access server sees the connection fail.  The route server may not, and
\* go on to read what is under way.
LinkDown ==
  /\ link = "up" /\ link' = "down"
  /\ UNCHANGED <<imVars, wt, conn, wire, imrVars, raced>>

-----------------------------------------------------------------------------
\* The route server.

\* Client.HandleMessage of connection n.
Handle(n) ==
  /\ n \in clients /\ wire[n] # << >>
  /\ route' = [route EXCEPT ![n][Head(wire[n]).key] = Head(wire[n]).status]
  /\ wire' = [wire EXCEPT ![n] = Tail(@)]
  /\ UNCHANGED <<imVars, wt, link, conn, clients, raced>>

\* read() fails: RemoveClient.
RemoveClient(n) ==
  /\ n \in clients
  /\ clients' = clients \ {n}
  /\ wire' = [wire EXCEPT ![n] = << >>]
  /\ route' = [route EXCEPT ![n] = NoKeys]
  /\ UNCHANGED <<imVars, wt, link, conn, raced>>

-----------------------------------------------------------------------------
Init ==
  /\ subscribers = [k \in Keys |-> [all |-> 0, online |-> 0]]
  /\ state = [c \in Clients |-> "out"]
  /\ msg = [c \in Clients |-> NoMsg]
  /\ wt = << >> /\ link = "down" /\ conn \in Conns
  /\ wire = [n \in Conns |-> << >>]
  /\ clients = {} /\ route = [n \in Conns |-> NoKeys]
  /\ raced = {}

Next ==
  \/ \E c \in Clients : Subscribe(c) \/ Unsubscribe(c) \/ SendWt(c)
  \/ ReSubscribeRoom \/ Forward \/ LinkDown
  \/ \E n \in Conns : Connect(n) \/ Handle(n) \/ RemoveClient(n)

\* The goroutines run, and goroutines that wait for a channel get their turn (Go
\* serves them in order).  Clients need not come or go, nor connections fail.
Fairness ==
  /\ \A c \in Clients : SF_vars(SendWt(c))
  /\ WF_vars(ReSubscribeRoom) /\ WF_vars(Forward)
  /\ \A n \in Conns : WF_vars(Handle(n))

Spec == Init /\ [][Next]_vars /\ Fairness

-----------------------------------------------------------------------------
Statuses == {"none", "offline", "online"}
Messages == [key : Keys, status : Statuses]

\* Type invariant: the maps of Channel and Route keep their shape, and no count
\* of subscriptions goes below zero ("assert c2 >= 0", channel.go:106).
TypeOK ==
  /\ subscribers \in [Keys -> [all : 0..Cardinality(Clients), online : 0..Cardinality(Online)]]
  /\ state \in [Clients -> {"out", "in"}]
  /\ msg \in [Clients -> Messages \cup {NoMsg}]
  /\ wt \in Seq(Messages) /\ Len(wt) <= ChanSize
  /\ link \in {"down", "rooms", "up"} /\ conn \in Conns
  /\ \A n \in Conns : wire[n] \in Seq(Messages)
  /\ clients \subseteq Conns /\ route \in [Conns -> [Keys -> Statuses]]
  /\ raced \subseteq Keys

\* The status the clients of a key call for.
Wanted(k) ==
  LET present == {c \in Clients : KeyOf[c] = k /\ state[c] = "in"}
  IN IF present = {} THEN "none" ELSE StatusOf(present \cap Online # {})

\* Nothing about the key is on its way, over a connection both sides use.
Settled(k) ==
  /\ link = "up" /\ conn \in clients
  /\ \A m \in ToSet(wire[conn]) \cup ToSet(wt) \cup {msg[c] : c \in Clients} : m.key # k

\* Once everything is told, the route server knows of every user and room what
\* their clients call for, however often the connection broke and whatever
\* messages were lost with it or sent again after it: a message for a connected
\* user is published here, a push goes only to a user without an on-line
\* device.  Left out are keys with two messages outside of the mutex at once.
RouteAgrees == \A k \in Keys \ raced : Settled(k) => route[conn][k] = Wanted(k)

\* channel.go:162 and :142: MSG_UNSUBSCRIBE says that a user has dropped all its
\* connections, MSG_SUBSCRIBE that it has come.  So the route server should end
\* with what is true of the user, in every case.
RouteAlwaysAgrees == \A k \in Keys : Settled(k) => route[conn][k] = Wanted(k)

\* A client that logs in or out does not wait for ever while the connection to
\* the route server is up.
NoClientStuck == \A c \in Clients : msg[c] # NoMsg ~> (msg[c] = NoMsg \/ link # "up")

\* A client that stays is found by the route server, as on-line when it is,
\* unless the connection breaks or the messages of its user raced.
ClientIsFound ==
  \A c \in Clients :
    LET Broken == link # "up" \/ conn \notin clients \/ KeyOf[c] \in raced
        Found  == IF c \in Online THEN route[conn][KeyOf[c]] = "online"
                  ELSE route[conn][KeyOf[c]] # "none"
    IN state[c] = "in" ~> (Found \/ state[c] = "out" \/ Broken)
=============================================================================
