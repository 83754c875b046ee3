--------------------------- MODULE SessionsProofs ---------------------------
(***************************************************************************)
(* Proofs about Sessions, for any connections, servers, users and devices, *)
(* however their log-ins, changes of the flag and failures of redis mix.   *)
(***************************************************************************)
EXTENDS Sessions, TLAPS

-----------------------------------------------------------------------------
\* The inductive invariants.

Steps == {"off", "preferences", "get", "incr", "set", "add", "in"}

Event == [user : Users, fb : BOOLEAN]

\* Types of redis, of the connections and of the events under way.
TypeOK ==
  /\ flag \in [Users -> BOOLEAN] /\ publishing \in Users \cup {None}
  /\ changes \in Nat /\ failures \in Nat
  /\ subscribed \subseteq Servers /\ events \in [Servers -> Seq(Event)]
  /\ device_key \in [Devices -> Nat] /\ devices_id \in Nat
  /\ step \in [Conns -> Steps] /\ logins \in [Conns -> Nat]
  /\ forbidden \in [Conns -> BOOLEAN] /\ device_ID \in [Conns -> Nat]
  /\ missed \subseteq Conns /\ doubted \subseteq Devices

\* Only a connection with a device asks for an id, and it has one when it logs in.
AskedOK ==
  \A c \in Conns :
    /\ step[c] \in {"get", "incr", "set"} => DeviceOf[c] # None
    /\ step[c] = "set" => device_ID[c] # 0
    /\ step[c] \in {"add", "in"} /\ DeviceOf[c] # None => device_ID[c] # 0

\* No id was given that INCR has not reached.
Counted ==
  /\ \A c \in Conns : device_ID[c] <= devices_id
  /\ \A e \in Devices : device_key[e] <= devices_id

\* An id belongs to one device, with its connections and with redis.
OwnIDs ==
  /\ \A c, d \in Conns :
       DeviceOf[c] # DeviceOf[d] /\ device_ID[c] # 0 => device_ID[c] # device_ID[d]
  /\ \A c \in Conns, e \in Devices :
       DeviceOf[c] # e /\ device_ID[c] # 0 => device_ID[c] # device_key[e]
  /\ \A e, f \in Devices : e # f /\ device_key[e] # 0 => device_key[e] # device_key[f]

\* A device whose log-ins did not meet or fail gets an id in one connection at a
\* time, and only while redis has none.
OneGiver ==
  \A e \in Devices \ doubted : \A c \in Conns : DeviceOf[c] = e =>
    /\ step[c] \in {"incr", "set"} =>
         /\ device_key[e] = 0
         /\ \A d \in Conns : DeviceOf[d] = e /\ step[d] \in {"incr", "set"} => d = c
    /\ step[c] \in {"add", "in"} => device_ID[c] = device_key[e]

IDInv == TypeOK /\ AskedOK /\ Counted /\ OwnIDs /\ OneGiver

\* The last event about u in sequence q says f.
LastSays(q, u, f) ==
  \A i \in 1..Len(q) :
    q[i].user = u /\ (\A j \in 1..Len(q) : j > i => q[j].user # u) => q[i].fb = f

Silent(q, u) == \A i \in 1..Len(q) : q[i].user # u

\* What was published last is what redis holds, and a server that is not
\* subscribed has nothing to receive.
EventsOK ==
  /\ \A s \in Servers : \A u \in Users \ {publishing} : LastSays(events[s], u, flag[u])
  /\ \A s \in Servers \ subscribed : events[s] = << >>

\* A connection that waits for no event has the flag that redis holds.
FlagOK ==
  \A c \in Conns :
    step[c] \notin {"off", "preferences"} /\ c \notin missed /\ publishing # UserOf[c] =>
      (Silent(events[ServerOf[c]], UserOf[c]) => forbidden[c] = flag[UserOf[c]])

-----------------------------------------------------------------------------
\* Type correctness.

\* The constants.
LEMMA Given ==
  ASSUME SessionsAssumption
  PROVE  /\ None \notin Users /\ None \notin Devices
         /\ \A c \in Conns : /\ ServerOf[c] \in Servers /\ UserOf[c] \in Users
                             /\ DeviceOf[c] \in Devices \cup {None}
BY DEF SessionsAssumption

\* The device of a connection that asks for an id.
LEMMA Asks ==
  ASSUME SessionsAssumption, AskedOK, NEW c \in Conns, step[c] \in {"get", "incr", "set"}
  PROVE  DeviceOf[c] \in Devices
BY Given DEF AskedOK

\* Redis fails a counted number of times.
LEMMA FailsType == ASSUME TypeOK, Fails PROVE failures' \in Nat
BY DEF TypeOK, Fails

\* HandleAuthToken and the end of a connection keep the types.
LEMMA LoginTypes ==
  ASSUME SessionsAssumption, TypeOK, AskedOK, NEW c \in Conns,
         HandleAuthToken(c) \/ HandleClientClosed(c)
  PROVE  TypeOK'
<1>1. CASE LoadUserAccessToken(c)
  BY <1>1 DEF LoadUserAccessToken, TypeOK, Steps, redisVars, eventVars
<1>2. CASE GetUserPreferences(c)
  <2>1. flag[UserOf[c]] \in BOOLEAN
    BY Given DEF TypeOK
  <2>2. failures' \in Nat
    BY <1>2, FailsType DEF GetUserPreferences, TypeOK
  <2>3. forbidden' \in [Conns -> BOOLEAN] /\ missed' \subseteq Conns
    BY <1>2, <2>1 DEF GetUserPreferences, TypeOK
  <2>4. step' \in [Conns -> Steps]
    BY <1>2 DEF GetUserPreferences, Refused, TypeOK, Steps
  <2> QED BY <1>2, <2>2, <2>3, <2>4 DEF GetUserPreferences, TypeOK, redisVars, eventVars
<1>3. CASE GetDevice(c)
  <2>1. DeviceOf[c] \in Devices
    BY <1>3, Asks DEF GetDevice
  <2>2. failures' \in Nat
    BY <1>3, FailsType DEF GetDevice, TypeOK
  <2>3. doubted' \subseteq Devices
    BY <1>3, <2>1 DEF GetDevice, TypeOK, Doubt
  <2>4. step' \in [Conns -> Steps] /\ device_ID' \in [Conns -> Nat]
    BY <1>3, <2>1 DEF GetDevice, TypeOK, Steps
  <2> QED BY <1>3, <2>2, <2>3, <2>4 DEF GetDevice, TypeOK, redisVars, eventVars
<1>4. CASE Incr(c)
  <2>1. NewID \in Nat
    BY DEF NewID, TypeOK
  <2>2. failures' \in Nat
    BY <1>4, FailsType DEF Incr, TypeOK
  <2>3. step' \in [Conns -> Steps] /\ device_ID' \in [Conns -> Nat] /\ devices_id' \in Nat
    BY <1>4, <2>1 DEF Incr, Refused, TypeOK, Steps
  <2> QED BY <1>4, <2>2, <2>3 DEF Incr, TypeOK, eventVars
<1>5. CASE SetDevice(c)
  <2>2. failures' \in Nat
    BY <1>5, FailsType DEF SetDevice, TypeOK
  <2>3. step' \in [Conns -> Steps] /\ device_key' \in [Devices -> Nat]
    BY <1>5 DEF SetDevice, Refused, TypeOK, Steps
  <2> QED BY <1>5, <2>2, <2>3 DEF SetDevice, TypeOK, eventVars
<1>6. CASE AddClient(c)
  BY <1>6 DEF AddClient, TypeOK, Steps, redisVars, eventVars
<1>7. CASE HandleClientClosed(c)
  BY <1>7 DEF HandleClientClosed, TypeOK, Steps, redisVars, eventVars
<1> QED BY <1>1, <1>2, <1>3, <1>4, <1>5, <1>6, <1>7 DEF HandleAuthToken

\* So do the events.
LEMMA EventTypes ==
  ASSUME SessionsAssumption, TypeOK,
         \/ \E u \in Users : ChangeFlag(u)
         \/ Publish
         \/ \E s \in Servers : HandleForbidden(s) \/ Unsubscribe(s) \/ SubscribeRedis(s)
  PROVE  TypeOK'
<1>0. \A u, s : Reading(u, s) \subseteq Conns
  BY DEF Reading
<1>1. ASSUME NEW u \in Users, ChangeFlag(u) PROVE TypeOK'
  BY <1>1 DEF ChangeFlag, TypeOK, connVars
<1>2. CASE Publish
  <2> DEFINE e == [user |-> publishing, fb |-> flag[publishing]]
  <2>1. e \in Event
    BY <1>2 DEF Publish, TypeOK, Event
  <2>2. events' \in [Servers -> Seq(Event)]
    <3>1. \A s \in Servers : events[s] \in Seq(Event) /\ Append(events[s], e) \in Seq(Event)
      BY <2>1 DEF TypeOK
    <3> HIDE DEF e
    <3>2. events' = [s \in Servers |-> IF s \in subscribed THEN Append(events[s], e) ELSE events[s]]
      BY <1>2 DEF Publish, e
    <3> QED BY <3>1, <3>2
  <2>3. missed' \subseteq Conns
    BY <1>0, <1>2 DEF Publish, TypeOK
  <2> QED BY <1>2, <2>2, <2>3 DEF Publish, TypeOK, redisVars, connVars
<1>3. ASSUME NEW s \in Servers, HandleForbidden(s) PROVE TypeOK'
  <2>1. events[s] \in Seq(Event) /\ events[s] # << >>
    BY <1>3 DEF HandleForbidden, TypeOK
  <2>2. Head(events[s]) \in Event /\ Tail(events[s]) \in Seq(Event)
    BY <2>1
  <2>3. Head(events[s]).fb \in BOOLEAN
    BY <2>2 DEF Event
  <2>4. events' \in [Servers -> Seq(Event)]
    BY <1>3, <2>2 DEF HandleForbidden, TypeOK
  <2>5. forbidden' \in [Conns -> BOOLEAN]
    BY <1>3, <2>3 DEF HandleForbidden, TypeOK
  <2>6. missed' \subseteq Conns
    BY <1>0, <1>3 DEF HandleForbidden, TypeOK
  <2> QED BY <1>3, <2>4, <2>5, <2>6 DEF HandleForbidden, TypeOK, redisVars
<1>4. ASSUME NEW s \in Servers, Unsubscribe(s) PROVE TypeOK'
  <2>1. failures' \in Nat
    BY <1>4, FailsType DEF Unsubscribe
  <2>2. missed' \subseteq Conns
    BY <1>0, <1>4 DEF Unsubscribe, TypeOK
  <2>3. << >> \in Seq(Event)
    OBVIOUS
  <2>4. events' \in [Servers -> Seq(Event)] /\ subscribed' \subseteq Servers
    BY <1>4, <2>3 DEF Unsubscribe, TypeOK
  <2> QED BY <1>4, <2>1, <2>2, <2>4 DEF Unsubscribe, TypeOK, redisVars, connVars
<1>5. ASSUME NEW s \in Servers, SubscribeRedis(s) PROVE TypeOK'
  BY <1>5 DEF SubscribeRedis, TypeOK, redisVars, connVars
<1> QED BY <1>1, <1>2, <1>3, <1>4, <1>5

\* Every step keeps the types.
LEMMA StepTypes ==
  ASSUME SessionsAssumption, TypeOK, AskedOK, [Next]_vars
  PROVE  TypeOK'
<1>1. CASE UNCHANGED vars
  BY <1>1 DEF vars, redisVars, eventVars, connVars, TypeOK
<1> QED BY <1>1, LoginTypes, EventTypes DEF Next

-----------------------------------------------------------------------------
\* Device ids.

\* Actions that give no id change what is said of ids only by where c is.
LEMMA Moves ==
  ASSUME SessionsAssumption, IDInv, TypeOK', NEW c \in Conns, NEW to \in Steps,
         step' = [step EXCEPT ![c] = to],
         UNCHANGED <<device_ID, device_key, devices_id>>, doubted \subseteq doubted',
         to = "get" => DeviceOf[c] # None,
         to \notin {"incr", "set"},
         to \in {"add", "in"} => DeviceOf[c] = None \/ step[c] \in {"add", "in"}
  PROVE  IDInv'
<1>1. /\ step'[c] = to /\ \A d \in Conns \ {c} : step'[d] = step[d]
  BY DEF IDInv, TypeOK
<1>2. AskedOK'
  BY <1>1 DEF IDInv, AskedOK
<1>3. Counted' /\ OwnIDs'
  BY DEF IDInv, Counted, OwnIDs
<1>4. OneGiver'
  <2> SUFFICES ASSUME NEW e \in Devices, e \notin doubted', NEW d \in Conns, DeviceOf[d] = e
               PROVE  /\ step'[d] \in {"incr", "set"} =>
                           /\ device_key[e] = 0
                           /\ \A x \in Conns : DeviceOf[x] = e /\ step'[x] \in {"incr", "set"} => x = d
                      /\ step'[d] \in {"add", "in"} => device_ID[d] = device_key[e]
    BY DEF OneGiver
  <2>1. e \in Devices \ doubted /\ e # None
    BY Given
  <2>2. /\ step[d] \in {"incr", "set"} =>
             /\ device_key[e] = 0
             /\ \A x \in Conns : DeviceOf[x] = e /\ step[x] \in {"incr", "set"} => x = d
        /\ step[d] \in {"add", "in"} => device_ID[d] = device_key[e]
    BY <2>1 DEF IDInv, OneGiver
  <2> QED BY <1>1, <2>1, <2>2
<1> QED BY <1>2, <1>3, <1>4 DEF IDInv

\* GetDevice takes the id that redis has, or leaves the device to give one.
LEMMA GetDeviceIDs ==
  ASSUME SessionsAssumption, IDInv, TypeOK', NEW c \in Conns, GetDevice(c)
  PROVE  IDInv'
<1> PICK e \in Devices : e = DeviceOf[c]
  BY Asks DEF GetDevice, IDInv
<1>1. /\ step \in [Conns -> Steps] /\ device_ID \in [Conns -> Nat] /\ step[c] = "get"
      /\ device_key[e] \in Nat /\ e # None
      /\ UNCHANGED <<device_key, devices_id>>
  BY Given DEF GetDevice, IDInv, TypeOK, redisVars
<1>2. CASE /\ device_key[e] # 0
           /\ device_ID' = [device_ID EXCEPT ![c] = device_key[e]]
           /\ step' = [step EXCEPT ![c] = "add"] /\ doubted' = doubted
  <2>1. /\ step'[c] = "add" /\ device_ID'[c] = device_key[e]
        /\ \A d \in Conns \ {c} : step'[d] = step[d] /\ device_ID'[d] = device_ID[d]
    BY <1>1, <1>2
  <2>2. AskedOK'
    BY <1>2, <2>1 DEF IDInv, AskedOK
  <2>3. Counted'
    BY <1>1, <2>1 DEF IDInv, Counted
  <2>4. OwnIDs'
    <3>1. ASSUME NEW x \in Conns, NEW y \in Conns, DeviceOf[x] # DeviceOf[y], device_ID'[x] # 0
          PROVE  device_ID'[x] # device_ID'[y]
      BY <1>2, <2>1, <3>1 DEF IDInv, OwnIDs
    <3>2. ASSUME NEW x \in Conns, NEW f \in Devices, DeviceOf[x] # f, device_ID'[x] # 0
          PROVE  device_ID'[x] # device_key[f]
      BY <1>2, <2>1, <3>2 DEF IDInv, OwnIDs
    <3>3. \A x, y \in Devices : x # y /\ device_key[x] # 0 => device_key[x] # device_key[y]
      BY DEF IDInv, OwnIDs
    <3> QED BY <1>1, <3>1, <3>2, <3>3 DEF OwnIDs
  <2>5. OneGiver'
    <3> SUFFICES ASSUME NEW f \in Devices, f \notin doubted, NEW d \in Conns, DeviceOf[d] = f
                 PROVE  /\ step'[d] \in {"incr", "set"} =>
                             /\ device_key[f] = 0
                             /\ \A x \in Conns : DeviceOf[x] = f /\ step'[x] \in {"incr", "set"} => x = d
                        /\ step'[d] \in {"add", "in"} => device_ID'[d] = device_key[f]
      BY <1>1, <1>2 DEF OneGiver
    <3>1. /\ step[d] \in {"incr", "set"} =>
               /\ device_key[f] = 0
               /\ \A x \in Conns : DeviceOf[x] = f /\ step[x] \in {"incr", "set"} => x = d
          /\ step[d] \in {"add", "in"} => device_ID[d] = device_key[f]
      BY DEF IDInv, OneGiver
    <3> QED BY <2>1, <3>1
  <2> QED BY <2>2, <2>3, <2>4, <2>5 DEF IDInv
<1>3. CASE /\ step' = [step EXCEPT ![c] = "incr"] /\ device_ID' = device_ID
           /\ \/ device_key[e] = 0 /\ doubted' = (IF Meeting(e) THEN doubted \cup {e} ELSE doubted)
              \/ doubted' = doubted \cup {e}
  <2>1. /\ step'[c] = "incr" /\ \A d \in Conns \ {c} : step'[d] = step[d]
    BY <1>1, <1>3
  <2>2. AskedOK'
    BY <1>1, <1>3, <2>1 DEF IDInv, AskedOK
  <2>3. Counted' /\ OwnIDs'
    BY <1>1, <1>3 DEF IDInv, Counted, OwnIDs
  <2>4. OneGiver'
    <3> SUFFICES ASSUME NEW f \in Devices, f \notin doubted', NEW d \in Conns, DeviceOf[d] = f
                 PROVE  /\ step'[d] \in {"incr", "set"} =>
                             /\ device_key[f] = 0
                             /\ \A x \in Conns : DeviceOf[x] = f /\ step'[x] \in {"incr", "set"} => x = d
                        /\ step'[d] \in {"add", "in"} => device_ID[d] = device_key[f]
      BY <1>1, <1>3 DEF OneGiver
    <3>1. f \in Devices \ doubted
      BY <1>3
    <3>2. /\ step[d] \in {"incr", "set"} =>
               /\ device_key[f] = 0
               /\ \A x \in Conns : DeviceOf[x] = f /\ step[x] \in {"incr", "set"} => x = d
          /\ step[d] \in {"add", "in"} => device_ID[d] = device_key[f]
      BY <3>1 DEF IDInv, OneGiver
    <3>3. CASE f # e
      BY <2>1, <3>2, <3>3
    <3>4. CASE f = e
      <4>1. device_key[e] = 0 /\ ~Meeting(e)
        BY <1>3, <3>4
      <4>2. \A x, y \in Conns :
               DeviceOf[x] = e /\ DeviceOf[y] = e /\ step'[x] \in {"incr", "set"}
               /\ step'[y] \in {"incr", "set"} => x = y
        BY <4>1 DEF Meeting
      <4> QED BY <2>1, <3>2, <3>4, <4>1, <4>2
    <3> QED BY <3>3, <3>4
  <2> QED BY <2>2, <2>3, <2>4 DEF IDInv
<1> QED BY <1>2, <1>3 DEF GetDevice, Doubt

\* Incr gives an id that nobody has.
LEMMA IncrIDs ==
  ASSUME SessionsAssumption, IDInv, TypeOK', NEW c \in Conns, Incr(c)
  PROVE  IDInv'
<1>1. /\ step \in [Conns -> Steps] /\ device_ID \in [Conns -> Nat] /\ step[c] = "incr"
      /\ devices_id \in Nat /\ device_key \in [Devices -> Nat]
      /\ device_key' = device_key /\ doubted' = doubted
  BY DEF Incr, IDInv, TypeOK
<1>2. CASE /\ devices_id' = NewID /\ device_ID' = [device_ID EXCEPT ![c] = NewID]
           /\ step' = [step EXCEPT ![c] = "set"]
  <2>1. /\ step'[c] = "set" /\ device_ID'[c] = devices_id + 1 /\ devices_id' = devices_id + 1
        /\ \A d \in Conns \ {c} : step'[d] = step[d] /\ device_ID'[d] = device_ID[d]
    BY <1>1, <1>2 DEF NewID
  <2>2. AskedOK'
    BY <1>1, <2>1 DEF IDInv, AskedOK
  <2>3. /\ \A d \in Conns : device_ID[d] \in Nat /\ device_ID[d] <= devices_id
        /\ \A e \in Devices : device_key[e] \in Nat /\ device_key[e] <= devices_id
    BY <1>1 DEF IDInv, Counted
  <2>4. Counted'
    BY <1>1, <2>1, <2>3 DEF Counted
  <2>5. OwnIDs'
    <3>1. ASSUME NEW x \in Conns, NEW y \in Conns, DeviceOf[x] # DeviceOf[y], device_ID'[x] # 0
          PROVE  device_ID'[x] # device_ID'[y]
      BY <1>1, <2>1, <2>3, <3>1 DEF IDInv, OwnIDs
    <3>2. ASSUME NEW x \in Conns, NEW f \in Devices, DeviceOf[x] # f, device_ID'[x] # 0
          PROVE  device_ID'[x] # device_key[f]
      BY <1>1, <2>1, <2>3, <3>2 DEF IDInv, OwnIDs
    <3>3. \A x, y \in Devices : x # y /\ device_key[x] # 0 => device_key[x] # device_key[y]
      BY DEF IDInv, OwnIDs
    <3> QED BY <1>1, <3>1, <3>2, <3>3 DEF OwnIDs
  <2>6. OneGiver'
    BY <1>1, <2>1 DEF IDInv, OneGiver
  <2> QED BY <2>2, <2>4, <2>5, <2>6 DEF IDInv
<1>3. CASE Refused(c) /\ UNCHANGED <<devices_id, device_ID>>
  BY <1>1, <1>3, Moves DEF Refused, Steps
<1> QED BY <1>2, <1>3 DEF Incr

\* SetDevice stores an id of the device's own, where there was none.
LEMMA SetDeviceIDs ==
  ASSUME SessionsAssumption, IDInv, TypeOK', NEW c \in Conns, SetDevice(c)
  PROVE  /\ IDInv'
         /\ \A e \in Devices \ doubted : device_key[e] # 0 => device_key'[e] = device_key[e]
<1> PICK e \in Devices : e = DeviceOf[c]
  BY Asks DEF SetDevice, IDInv
<1>1. /\ step \in [Conns -> Steps] /\ device_ID \in [Conns -> Nat] /\ step[c] = "set"
      /\ devices_id \in Nat /\ device_key \in [Devices -> Nat]
      /\ device_ID' = device_ID /\ doubted' = doubted /\ devices_id' = devices_id
      /\ device_ID[c] # 0 /\ e # None
  BY Given DEF SetDevice, IDInv, TypeOK, AskedOK
<1>2. CASE /\ device_key' = [device_key EXCEPT ![e] = device_ID[c]]
           /\ step' = [step EXCEPT ![c] = "add"] \/ Refused(c)
  <2>1. /\ step'[c] \in {"add", "off"} /\ \A d \in Conns \ {c} : step'[d] = step[d]
        /\ device_key'[e] = device_ID[c] /\ \A f \in Devices \ {e} : device_key'[f] = device_key[f]
    BY <1>1, <1>2 DEF Refused
  <2>2. AskedOK'
    BY <1>1, <2>1 DEF IDInv, AskedOK
  <2>3. Counted'
    BY <1>1, <2>1 DEF IDInv, Counted
  <2>4. OwnIDs'
    <3>1. \A x, y \in Conns :
            DeviceOf[x] # DeviceOf[y] /\ device_ID[x] # 0 => device_ID[x] # device_ID[y]
      BY DEF IDInv, OwnIDs
    <3>2. ASSUME NEW x \in Conns, NEW f \in Devices, DeviceOf[x] # f, device_ID[x] # 0
          PROVE  device_ID[x] # device_key'[f]
      BY <1>1, <2>1, <3>1, <3>2 DEF IDInv, OwnIDs
    <3>3. ASSUME NEW x \in Devices, NEW y \in Devices, x # y, device_key'[x] # 0
          PROVE  device_key'[x] # device_key'[y]
      <4>1. \A f \in Devices : f # e => device_ID[c] # device_key[f]
        BY <1>1 DEF IDInv, OwnIDs
      <4>2. device_key[x] # 0 => device_key[x] # device_key[y]
        BY <3>3 DEF IDInv, OwnIDs
      <4>3. CASE x = e
        BY <2>1, <3>3, <4>1, <4>3
      <4>4. CASE y = e
        BY <2>1, <3>3, <4>1, <4>4
      <4>5. CASE x # e /\ y # e
        BY <2>1, <3>3, <4>2, <4>5
      <4> QED BY <4>3, <4>4, <4>5
    <3> QED BY <1>1, <3>1, <3>2, <3>3 DEF OwnIDs
  <2>5. e \notin doubted =>
          /\ device_key[e] = 0
          /\ \A d \in Conns : DeviceOf[d] = e /\ step[d] \in {"incr", "set"} => d = c
          /\ \A d \in Conns : DeviceOf[d] = e => step[d] \notin {"add", "in"}
    <3> SUFFICES ASSUME e \notin doubted
                 PROVE  /\ device_key[e] = 0
                        /\ \A d \in Conns : DeviceOf[d] = e /\ step[d] \in {"incr", "set"} => d = c
                        /\ \A d \in Conns : DeviceOf[d] = e => step[d] \notin {"add", "in"}
      OBVIOUS
    <3>1. /\ device_key[e] = 0
          /\ \A d \in Conns : DeviceOf[d] = e /\ step[d] \in {"incr", "set"} => d = c
      BY <1>1 DEF IDInv, OneGiver
    <3>2. \A d \in Conns : DeviceOf[d] = e /\ step[d] \in {"add", "in"} => device_ID[d] = 0
      BY <3>1 DEF IDInv, OneGiver
    <3>3. \A d \in Conns : DeviceOf[d] = e /\ step[d] \in {"add", "in"} => device_ID[d] # 0
      BY <1>1 DEF IDInv, AskedOK
    <3> QED BY <3>1, <3>2, <3>3
  <2>6. OneGiver'
    <3> SUFFICES ASSUME NEW f \in Devices, f \notin doubted, NEW d \in Conns, DeviceOf[d] = f
                 PROVE  /\ step'[d] \in {"incr", "set"} =>
                             /\ device_key'[f] = 0
                             /\ \A x \in Conns : DeviceOf[x] = f /\ step'[x] \in {"incr", "set"} => x = d
                        /\ step'[d] \in {"add", "in"} => device_ID[d] = device_key'[f]
      BY <1>1 DEF OneGiver
    <3>1. /\ step[d] \in {"incr", "set"} =>
               /\ device_key[f] = 0
               /\ \A x \in Conns : DeviceOf[x] = f /\ step[x] \in {"incr", "set"} => x = d
          /\ step[d] \in {"add", "in"} => device_ID[d] = device_key[f]
      BY DEF IDInv, OneGiver
    <3>2. CASE f # e
      BY <2>1, <3>1, <3>2
    <3>3. CASE f = e
      BY <2>1, <2>5, <3>3
    <3> QED BY <3>2, <3>3
  <2>7. \A f \in Devices \ doubted : device_key[f] # 0 => device_key'[f] = device_key[f]
    BY <2>1, <2>5
  <2> QED BY <2>2, <2>3, <2>4, <2>6, <2>7 DEF IDInv
<1>3. CASE Refused(c) /\ UNCHANGED device_key
  BY <1>1, <1>3, Moves DEF Refused, Steps
<1> QED BY <1>2, <1>3 DEF SetDevice

\* The next connection has no id yet.
LEMMA ClosedIDs ==
  ASSUME SessionsAssumption, IDInv, TypeOK', NEW c \in Conns, HandleClientClosed(c)
  PROVE  IDInv'
<1>1. /\ step \in [Conns -> Steps] /\ device_ID \in [Conns -> Nat]
      /\ step' = [step EXCEPT ![c] = "off"] /\ device_ID' = [device_ID EXCEPT ![c] = 0]
      /\ devices_id \in Nat
      /\ device_key' = device_key /\ doubted' = doubted /\ devices_id' = devices_id
  BY DEF HandleClientClosed, IDInv, TypeOK, redisVars
<1>2. /\ step'[c] = "off" /\ device_ID'[c] = 0
      /\ \A d \in Conns \ {c} : step'[d] = step[d] /\ device_ID'[d] = device_ID[d]
  BY <1>1
<1>3. AskedOK'
  BY <1>2 DEF IDInv, AskedOK
<1>4. Counted'
  BY <1>1, <1>2 DEF IDInv, Counted
<1>5. OwnIDs'
  BY <1>1, <1>2 DEF IDInv, OwnIDs
<1>6. OneGiver'
  BY <1>1, <1>2 DEF IDInv, OneGiver
<1> QED BY <1>3, <1>4, <1>5, <1>6 DEF IDInv

\* Every step keeps what is said of ids, and keeps the id of a device that is not
\* in doubt.
LEMMA IDStep ==
  ASSUME SessionsAssumption, IDInv, [Next]_vars
  PROVE  /\ IDInv' /\ doubted \subseteq doubted'
         /\ \A e \in Devices \ doubted : device_key[e] # 0 => device_key'[e] = device_key[e]
<1>1. TypeOK'
  BY StepTypes DEF IDInv
<1>2. ASSUME UNCHANGED <<step, device_ID, device_key, devices_id, doubted>>
      PROVE  IDInv'
  BY <1>1, <1>2 DEF IDInv, AskedOK, Counted, OwnIDs, OneGiver
<1>3. ASSUME NEW c \in Conns,
             LoadUserAccessToken(c) \/ GetUserPreferences(c) \/ AddClient(c)
      PROVE  IDInv' /\ doubted' = doubted /\ device_key' = device_key
  <2>1. PICK to \in Steps :
          /\ step' = [step EXCEPT ![c] = to]
          /\ to = "get" => DeviceOf[c] # None
          /\ to \notin {"incr", "set"}
          /\ to \in {"add", "in"} => DeviceOf[c] = None \/ step[c] \in {"add", "in"}
    <3>1. CASE LoadUserAccessToken(c)
      BY <3>1 DEF LoadUserAccessToken, Steps
    <3>2. CASE GetUserPreferences(c)
      BY <3>2 DEF GetUserPreferences, Refused, Steps
    <3>3. CASE AddClient(c)
      BY <3>3 DEF AddClient, Steps
    <3> QED BY <1>3, <3>1, <3>2, <3>3
  <2>2. UNCHANGED <<device_ID, device_key, devices_id, doubted>>
    BY <1>3 DEF LoadUserAccessToken, GetUserPreferences, AddClient, redisVars
  <2> QED BY <1>1, <2>1, <2>2, Moves
<1>4. ASSUME NEW c \in Conns, GetDevice(c) \/ Incr(c) \/ HandleClientClosed(c)
      PROVE  IDInv' /\ doubted \subseteq doubted' /\ device_key' = device_key
  BY <1>1, <1>4, GetDeviceIDs, IncrIDs, ClosedIDs
     DEF GetDevice, Incr, HandleClientClosed, Doubt, redisVars
<1>5. ASSUME NEW c \in Conns, SetDevice(c)
      PROVE  IDInv' /\ doubted' = doubted
             /\ \A e \in Devices \ doubted : device_key[e] # 0 => device_key'[e] = device_key[e]
  BY <1>1, <1>5, SetDeviceIDs DEF SetDevice
<1>6. CASE ~ \E c \in Conns : HandleAuthToken(c) \/ HandleClientClosed(c)
  <2>1. UNCHANGED <<step, device_ID, device_key, devices_id, doubted>>
    BY <1>6 DEF Next, ChangeFlag, Publish, HandleForbidden, Unsubscribe, SubscribeRedis,
                vars, redisVars, connVars
  <2> QED BY <1>2, <2>1
<1> QED BY <1>3, <1>4, <1>5, <1>6 DEF HandleAuthToken

\* At first there are no ids.
LEMMA InitIDs == ASSUME SessionsAssumption, Init PROVE IDInv
<1>1. TypeOK
  BY DEF Init, TypeOK, Steps
<1>2. AskedOK /\ Counted /\ OwnIDs /\ OneGiver
  BY DEF Init, AskedOK, Counted, OwnIDs, OneGiver
<1> QED BY <1>1, <1>2 DEF IDInv

\* HandleAuthToken and subscriber.go keep the types of redis and connections.
THEOREM TypeCorrect == ASSUME SessionsAssumption PROVE Spec => []TypeOK
<1>1. Init => IDInv
  BY InitIDs
<1>2. IDInv /\ [Next]_vars => IDInv'
  BY IDStep
<1>3. IDInv => TypeOK
  BY DEF IDInv
<1> QED BY <1>1, <1>2, <1>3, PTL DEF Spec

\* GetDeviceID never gives connections of two devices one id, whatever fails.
THEOREM DeviceIDsAlwaysDiffer == ASSUME SessionsAssumption PROVE Spec => []DeviceIDsDiffer
<1>1. Init => IDInv
  BY InitIDs
<1>2. IDInv /\ [Next]_vars => IDInv'
  BY IDStep
<1>3. IDInv => DeviceIDsDiffer
  BY DEF IDInv, OwnIDs, AskedOK, DeviceIDsDiffer
<1> QED BY <1>1, <1>2, <1>3, PTL DEF Spec

\* GetDeviceID gives a device the id it has, unless two of its first log-ins met
\* or redis failed in one.
THEOREM DeviceAlwaysKeepsID == ASSUME SessionsAssumption PROVE Spec => DeviceKeepsID
<1>1. Init => IDInv
  BY InitIDs
<1>2. IDInv /\ [Next]_vars => IDInv'
  BY IDStep
<1>3. IDInv /\ IDInv' /\ [Next]_vars =>
        [\A e \in Devices \ doubted' :
           /\ device_key[e] # 0 => device_key'[e] = device_key[e]
           /\ \A c \in Conns : DeviceOf[c] = e /\ step'[c] = "in" => device_ID'[c] = device_key'[e]]_vars
  <2> SUFFICES ASSUME IDInv, IDInv', [Next]_vars, NEW e \in Devices, e \notin doubted'
               PROVE  /\ device_key[e] # 0 => device_key'[e] = device_key[e]
                      /\ \A c \in Conns : DeviceOf[c] = e /\ step'[c] = "in"
                                            => device_ID'[c] = device_key'[e]
    OBVIOUS
  <2>1. device_key[e] # 0 => device_key'[e] = device_key[e]
    BY IDStep
  <2>2. \A c \in Conns : DeviceOf[c] = e /\ step'[c] = "in" => device_ID'[c] = device_key'[e]
    BY DEF IDInv, OneGiver
  <2> QED BY <2>1, <2>2
<1> QED BY <1>1, <1>2, <1>3, PTL DEF Spec, DeviceKeepsID

-----------------------------------------------------------------------------
\* The flag of a connection.

\* An event about u that says f, or one about another user, is added.
LEMMA LastAppend ==
  ASSUME NEW q \in Seq(Event), NEW e \in Event, NEW u, NEW f,
         (e.user # u /\ LastSays(q, u, f)) \/ (e.user = u /\ e.fb = f)
  PROVE  /\ LastSays(Append(q, e), u, f)
         /\ Silent(Append(q, e), u) => Silent(q, u) /\ e.user # u
<1> DEFINE a == Append(q, e)
<1>1. PICK n \in Nat : n = Len(q)
  OBVIOUS
<1>2. /\ Len(a) = n + 1 /\ a[n + 1] = e /\ \A i \in 1..n : a[i] = q[i]
  BY <1>1
<1> HIDE DEF a
<1>3. Silent(a, u) => Silent(q, u) /\ e.user # u
  BY <1>1, <1>2 DEF Silent
<1>4. ASSUME NEW i \in 1..n + 1, a[i].user = u, \A j \in 1..n + 1 : j > i => a[j].user # u
      PROVE  a[i].fb = f
  <2>1. CASE i = n + 1
    BY <1>2, <1>4, <2>1
  <2>2. CASE i # n + 1
    <3>1. i \in 1..n /\ a[i] = q[i] /\ e.user # u
      BY <1>2, <1>4, <2>2
    <3>2. \A j \in 1..n : j > i => q[j].user # u
      BY <1>2, <1>4
    <3>3. LastSays(q, u, f)
      BY <3>1
    <3> QED BY <1>1, <1>4, <3>1, <3>2, <3>3 DEF LastSays
  <2> QED BY <2>1, <2>2
<1>5. LastSays(a, u, f)
  BY <1>2, <1>4 DEF LastSays
<1> QED BY <1>3, <1>5 DEF a

\* The first event is taken.
LEMMA LastTail ==
  ASSUME NEW q \in Seq(Event), q # << >>, NEW u, NEW f, LastSays(q, u, f)
  PROVE  /\ LastSays(Tail(q), u, f)
         /\ Silent(Tail(q), u) => Silent(q, u) \/ (Head(q).user = u /\ Head(q).fb = f)
<1> DEFINE t == Tail(q)
<1>1. PICK n \in Nat : n = Len(t) /\ Len(q) = n + 1
  OBVIOUS
<1>2. Head(q) = q[1] /\ \A i \in 1..n : t[i] = q[i + 1]
  BY <1>1
<1> HIDE DEF t
<1>3. ASSUME NEW i \in 1..n, t[i].user = u, \A j \in 1..n : j > i => t[j].user # u
      PROVE  t[i].fb = f
  <2>1. i + 1 \in 1..n + 1 /\ q[i + 1] = t[i]
    BY <1>2
  <2>2. ASSUME NEW j \in 1..n + 1, j > i + 1 PROVE q[j].user # u
    <3>1. j - 1 \in 1..n /\ j - 1 > i /\ j - 1 + 1 = j
      BY <2>2
    <3> QED BY <1>2, <1>3, <3>1
  <2> QED BY <1>1, <1>3, <2>1, <2>2 DEF LastSays
<1>4. LastSays(t, u, f)
  BY <1>1, <1>3 DEF LastSays
<1>5. ASSUME Silent(t, u) PROVE Silent(q, u) \/ (Head(q).user = u /\ Head(q).fb = f)
  <2>1. \A j \in 1..n + 1 : j > 1 => q[j].user # u
    <3> SUFFICES ASSUME NEW j \in 1..n + 1, j > 1 PROVE q[j].user # u
      OBVIOUS
    <3>1. PICK k \in 1..n : k + 1 = j
      <4>1. j - 1 \in 1..n /\ j - 1 + 1 = j
        OBVIOUS
      <4> QED BY <4>1
    <3>2. t[k].user # u
      BY <1>1, <1>5 DEF Silent
    <3> QED BY <1>2, <3>1, <3>2
  <2>2. CASE q[1].user = u
    <3>1. 1 \in 1..n + 1
      OBVIOUS
    <3> QED BY <1>1, <1>2, <2>1, <2>2, <3>1 DEF LastSays
  <2>3. CASE q[1].user # u
    <3>1. \A j \in 1..n + 1 : j > 1 \/ j = 1
      OBVIOUS
    <3> QED BY <1>1, <2>1, <2>3, <3>1 DEF Silent
  <2> QED BY <2>2, <2>3
<1> USE DEF t
<1> QED BY <1>4, <1>5

\* The log-in steps: a connection reads the flag of redis, or keeps what it read.
LEMMA LoginFlags ==
  ASSUME SessionsAssumption, TypeOK, EventsOK, FlagOK, NEW c \in Conns,
         HandleAuthToken(c) \/ HandleClientClosed(c)
  PROVE  EventsOK' /\ FlagOK'
<1>1. UNCHANGED <<flag, publishing, changes, subscribed, events>>
  BY DEF HandleAuthToken, LoadUserAccessToken, GetUserPreferences, GetDevice, Incr, SetDevice,
         AddClient, HandleClientClosed, redisVars, eventVars
<1>2. EventsOK'
  BY <1>1 DEF EventsOK
<1>3. /\ step \in [Conns -> Steps] /\ forbidden \in [Conns -> BOOLEAN]
  BY DEF TypeOK
<1>4. \A d \in Conns \ {c} : /\ step'[d] = step[d] /\ forbidden'[d] = forbidden[d]
                             /\ d \in missed' <=> d \in missed
  BY <1>3 DEF HandleAuthToken, LoadUserAccessToken, GetUserPreferences, GetDevice, Incr, SetDevice,
              AddClient, HandleClientClosed, Refused
<1>5. \/ step'[c] \in {"off", "preferences"}
      \/ forbidden'[c] = flag[UserOf[c]]
      \/ /\ step[c] \notin {"off", "preferences"}
         /\ forbidden' = forbidden /\ missed' = missed
  BY <1>3 DEF HandleAuthToken, LoadUserAccessToken, GetUserPreferences, GetDevice, Incr, SetDevice,
              AddClient, HandleClientClosed, Refused
<1>6. FlagOK'
  BY <1>1, <1>4, <1>5 DEF FlagOK
<1> QED BY <1>2, <1>6

\* A change is published next.
LEMMA ChangeFlags ==
  ASSUME SessionsAssumption, TypeOK, EventsOK, FlagOK, NEW u \in Users, ChangeFlag(u)
  PROVE  EventsOK' /\ FlagOK'
<1>1. /\ publishing = None /\ publishing' = u /\ u # None
      /\ \A v \in Users \ {u} : flag'[v] = flag[v] /\ v # None
      /\ UNCHANGED <<subscribed, events, step, forbidden, missed>>
  BY Given DEF ChangeFlag, TypeOK, connVars
<1>2. EventsOK'
  BY <1>1 DEF EventsOK
<1>3. \A c \in Conns : UserOf[c] \in Users
  BY Given
<1>4. FlagOK'
  BY <1>1, <1>3 DEF FlagOK
<1> QED BY <1>2, <1>4

\* The servers that are subscribed get the event, the connections of the others
\* miss it unless their flag is right.
LEMMA PublishFlags ==
  ASSUME SessionsAssumption, TypeOK, EventsOK, FlagOK, Publish
  PROVE  EventsOK' /\ FlagOK'
<1> PICK p \in Users : p = publishing
  BY DEF Publish, TypeOK
<1> DEFINE e == [user |-> p, fb |-> flag[p]]
<1>1. /\ publishing' = None /\ p # None /\ e \in Event /\ e.user = p /\ e.fb = flag[p]
      /\ UNCHANGED <<flag, subscribed, step, forbidden>>
  BY Given DEF Publish, TypeOK, Event, redisVars, connVars
<1>2. /\ \A s \in Servers : events[s] \in Seq(Event)
      /\ \A s \in Servers : events'[s] = IF s \in subscribed THEN Append(events[s], e) ELSE events[s]
  BY DEF Publish, TypeOK
<1> HIDE DEF e
<1>3. EventsOK'
  <2>1. ASSUME NEW s \in Servers, NEW u \in Users PROVE LastSays(events'[s], u, flag[u])
    <3>1. u # p => LastSays(events[s], u, flag[u])
      BY DEF EventsOK
    <3>2. CASE s \in subscribed
      <4>1. (e.user # u /\ LastSays(events[s], u, flag[u])) \/ (e.user = u /\ e.fb = flag[u])
        BY <1>1, <3>1
      <4>2. events[s] \in Seq(Event) /\ events'[s] = Append(events[s], e)
        BY <1>2, <3>2
      <4>3. LastSays(Append(events[s], e), u, flag[u])
        BY <1>1, <4>1, <4>2, LastAppend
      <4> QED BY <4>2, <4>3
    <3>3. CASE s \notin subscribed
      <4>1. events'[s] = events[s] /\ events[s] = << >>
        BY <1>2, <3>3 DEF EventsOK
      <4> QED BY <4>1 DEF LastSays
    <3> QED BY <3>2, <3>3
  <2>2. \A s \in Servers \ subscribed : events'[s] = << >>
    BY <1>2 DEF EventsOK
  <2> QED BY <1>1, <2>1, <2>2 DEF EventsOK
<1>4. ASSUME NEW c \in Conns, step[c] \notin {"off", "preferences"}, c \notin missed',
             Silent(events'[ServerOf[c]], UserOf[c])
      PROVE  forbidden[c] = flag[UserOf[c]]
  <2> PICK s \in Servers, u \in Users : s = ServerOf[c] /\ u = UserOf[c]
    BY Given
  <2>1. missed' = missed \cup UNION {{d \in Reading(p, t) : forbidden[d] # flag[p]} :
                                       t \in Servers \ subscribed}
    BY DEF Publish
  <2>2. c \notin missed
    BY <1>4, <2>1
  <2>3. CASE s \in subscribed
    <3>1. events[s] \in Seq(Event) /\ events'[s] = Append(events[s], e)
      BY <1>2, <2>3
    <3>2. Len(events'[s]) = Len(events[s]) + 1 /\ events'[s][Len(events[s]) + 1] = e
          /\ \A i \in 1..Len(events[s]) : events'[s][i] = events[s][i]
      BY <3>1
    <3>3. u # p /\ Silent(events[s], u)
      BY <1>1, <1>4, <3>1, <3>2 DEF Silent
    <3> QED BY <1>4, <2>2, <3>3 DEF FlagOK
  <2>4. CASE s \notin subscribed /\ u = p
    <3>1. c \in Reading(p, s)
      BY <1>4, <2>4 DEF Reading
    <3> QED BY <1>4, <2>1, <2>4, <3>1
  <2>5. CASE s \notin subscribed /\ u # p
    <3>1. Silent(events[s], u)
      BY <1>2, <1>4, <2>5
    <3> QED BY <1>4, <2>2, <2>5, <3>1 DEF FlagOK
  <2> QED BY <2>3, <2>4, <2>5
<1>5. FlagOK'
  BY <1>1, <1>4 DEF FlagOK
<1> QED BY <1>3, <1>5

\* HandleForbidden tells the connections that are in, the others miss it unless
\* their flag is right.
LEMMA HandleFlags ==
  ASSUME SessionsAssumption, TypeOK, EventsOK, FlagOK, NEW s \in Servers, HandleForbidden(s)
  PROVE  EventsOK' /\ FlagOK'
<1> DEFINE e == Head(events[s])
<1>1. /\ events[s] \in Seq(Event) /\ events[s] # << >> /\ events'[s] = Tail(events[s])
      /\ \A t \in Servers \ {s} : events'[t] = events[t]
      /\ UNCHANGED <<flag, publishing, subscribed, step>>
  BY DEF HandleForbidden, TypeOK, redisVars
<1>2. /\ \A c \in Conns : forbidden'[c] = IF c \in Told(e, s) THEN e.fb ELSE forbidden[c]
      /\ missed' = (missed \ Told(e, s))
                     \cup {c \in Reading(e.user, s) : step[c] # "in" /\ forbidden[c] # e.fb}
  BY DEF HandleForbidden
<1> HIDE DEF e
<1>3. \A u \in Users \ {publishing} : LastSays(events[s], u, flag[u])
  BY DEF EventsOK
<1>4. \A u \in Users \ {publishing} :
        /\ LastSays(Tail(events[s]), u, flag[u])
        /\ Silent(Tail(events[s]), u) => Silent(events[s], u) \/ (e.user = u /\ e.fb = flag[u])
  BY <1>1, <1>3, LastTail DEF e
<1>5. EventsOK'
  <2>1. \A t \in Servers : \A u \in Users \ {publishing} : LastSays(events'[t], u, flag[u])
    BY <1>1, <1>4 DEF EventsOK
  <2>2. \A t \in Servers \ subscribed : events'[t] = << >>
    BY <1>1 DEF EventsOK
  <2> QED BY <1>1, <2>1, <2>2 DEF EventsOK
<1>6. ASSUME NEW c \in Conns, step[c] \notin {"off", "preferences"}, c \notin missed',
             publishing # UserOf[c], Silent(events'[ServerOf[c]], UserOf[c])
      PROVE  forbidden'[c] = flag[UserOf[c]]
  <2> PICK t \in Servers, u \in Users : t = ServerOf[c] /\ u = UserOf[c]
    BY Given
  <2>1. c \in Reading(e.user, s) <=> t = s /\ u = e.user
    BY <1>6 DEF Reading
  <2>2. c \in Told(e, s) <=> t = s /\ u = e.user /\ step[c] = "in"
    BY <1>6, <2>1 DEF Told
  <2>3. CASE t = s /\ u = e.user
    <3>1. forbidden'[c] = e.fb
      BY <1>2, <1>6, <2>1, <2>2, <2>3
    <3>2. CASE e.fb = flag[u]
      BY <3>1, <3>2
    <3>3. CASE Silent(events[s], u)
      <4>1. 1 \in 1..Len(events[s]) /\ e = events[s][1]
        BY <1>1 DEF e
      <4> QED BY <2>3, <3>3, <4>1 DEF Silent
    <3> QED BY <1>1, <1>4, <1>6, <2>3, <3>2, <3>3
  <2>4. CASE ~(t = s /\ u = e.user)
    <3>1. c \notin missed /\ forbidden'[c] = forbidden[c]
      BY <1>2, <1>6, <2>2, <2>4
    <3>2. Silent(events[t], u)
      BY <1>1, <1>4, <1>6, <2>4
    <3> QED BY <1>6, <3>1, <3>2 DEF FlagOK
  <2> QED BY <2>3, <2>4
<1>7. FlagOK'
  BY <1>1, <1>6 DEF FlagOK
<1> QED BY <1>5, <1>7

\* What a broken subscription loses is missed.
LEMMA SubscriptionFlags ==
  ASSUME SessionsAssumption, TypeOK, EventsOK, FlagOK, NEW s \in Servers,
         Unsubscribe(s) \/ SubscribeRedis(s)
  PROVE  EventsOK' /\ FlagOK'
<1>1. CASE Unsubscribe(s)
  <2>1. /\ subscribed' = subscribed \ {s} /\ events'[s] = << >>
        /\ \A t \in Servers \ {s} : events'[t] = events[t]
        /\ missed' = missed \cup UNION {Reading(events[s][i].user, s) : i \in DOMAIN events[s]}
        /\ UNCHANGED <<flag, publishing, step, forbidden>>
    BY <1>1 DEF Unsubscribe, TypeOK, redisVars, connVars
  <2>2. EventsOK'
    <3>1. \A u, f : LastSays(<< >>, u, f)
      BY DEF LastSays
    <3>2. \A t \in Servers : \A u \in Users \ {publishing} : LastSays(events'[t], u, flag[u])
      BY <2>1, <3>1 DEF EventsOK
    <3>3. \A t \in Servers \ subscribed' : events'[t] = << >>
      BY <2>1 DEF EventsOK
    <3> QED BY <2>1, <3>2, <3>3 DEF EventsOK
  <2>3. ASSUME NEW c \in Conns, step[c] \notin {"off", "preferences"}, c \notin missed',
               publishing # UserOf[c], Silent(events'[ServerOf[c]], UserOf[c])
        PROVE  forbidden[c] = flag[UserOf[c]]
    <3> PICK t \in Servers, u \in Users : t = ServerOf[c] /\ u = UserOf[c]
      BY Given
    <3>1. Silent(events[t], u)
      <4>1. CASE t = s
        <5>1. \A i \in DOMAIN events[s] : c \notin Reading(events[s][i].user, s)
          BY <2>1, <2>3
        <5>2. \A i \in DOMAIN events[s] : events[s][i].user # u
          BY <2>3, <4>1, <5>1 DEF Reading
        <5>3. DOMAIN events[s] = 1..Len(events[s])
          BY DEF TypeOK
        <5> QED BY <4>1, <5>2, <5>3 DEF Silent
      <4>2. CASE t # s
        BY <2>1, <2>3, <4>2
      <4> QED BY <4>1, <4>2
    <3>2. c \notin missed
      BY <2>1, <2>3
    <3> QED BY <2>3, <3>1, <3>2 DEF FlagOK
  <2>4. FlagOK'
    BY <2>1, <2>3 DEF FlagOK
  <2> QED BY <2>2, <2>4
<1>2. CASE SubscribeRedis(s)
  <2>1. /\ subscribed' = subscribed \cup {s}
        /\ UNCHANGED <<flag, publishing, events, step, forbidden, missed>>
    BY <1>2 DEF SubscribeRedis, redisVars, connVars
  <2>2. EventsOK' /\ FlagOK'
    BY <2>1 DEF EventsOK, FlagOK
  <2> QED BY <2>2
<1> QED BY <1>1, <1>2

\* A connection has the flag that redis holds once every event was received, but
\* for events that were lost or found it between GetUserPreferences and AddClient.
THEOREM ForbiddenAlwaysAgrees == ASSUME SessionsAssumption PROVE Spec => []ForbiddenAgrees
<1>1. Init => IDInv
  BY InitIDs
<1>2. IDInv /\ [Next]_vars => IDInv'
  BY IDStep
<1>3. Init => EventsOK /\ FlagOK
  BY DEF Init, EventsOK, FlagOK, LastSays
<1>4. IDInv /\ EventsOK /\ FlagOK /\ [Next]_vars => EventsOK' /\ FlagOK'
  <2> SUFFICES ASSUME IDInv, EventsOK, FlagOK, [Next]_vars PROVE EventsOK' /\ FlagOK'
    OBVIOUS
  <2>1. TypeOK
    BY DEF IDInv
  <2>2. CASE UNCHANGED vars
    BY <2>2 DEF vars, redisVars, eventVars, connVars, EventsOK, FlagOK
  <2> QED BY <2>1, <2>2, LoginFlags, ChangeFlags, PublishFlags, HandleFlags, SubscriptionFlags
          DEF Next
<1>5. IDInv /\ FlagOK => ForbiddenAgrees
  <2> SUFFICES ASSUME IDInv, FlagOK, NEW c \in Conns, step[c] = "in", publishing = None,
                      events[ServerOf[c]] = << >>, c \notin missed
               PROVE  forbidden[c] = flag[UserOf[c]]
    BY DEF ForbiddenAgrees
  <2>1. Silent(events[ServerOf[c]], UserOf[c])
    BY DEF Silent
  <2>2. publishing # UserOf[c]
    BY Given
  <2> QED BY <2>1, <2>2 DEF FlagOK
<1> QED BY <1>1, <1>2, <1>3, <1>4, <1>5, PTL DEF Spec
=============================================================================
