------------------------------ MODULE Sessions ------------------------------
(***************************************************************************)
(* Log-ins and what they read from redis: HandleAuthToken with             *)
(* LoadUserAccessToken, GetUserPreferences and GetDeviceID, and the flag   *)
(* "forbidden" of a connection, which subscriber.go keeps up to date from  *)
(* the redis channel speak_forbidden.  Several access servers share redis. *)
(***************************************************************************)
EXTENDS Naturals, Sequences, FiniteSets

CONSTANTS
  Conns,        \* connections
  Servers, ServerOf,   \* [Conns -> Servers]
  Users, UserOf,       \* [Conns -> Users]
  Devices,             \* pairs of device_id and platform_id
  DeviceOf,            \* [Conns -> Devices, or None for the web]
  MaxLogins,    \* of each connection
  MaxChanges,   \* of the flag
  MaxFailures,  \* of redis
  None

SessionsAssumption ==
  /\ ServerOf \in [Conns -> Servers] /\ UserOf \in [Conns -> Users]
  /\ DeviceOf \in [Conns -> Devices \cup {None}]
  /\ {MaxLogins, MaxChanges, MaxFailures} \subseteq Nat /\ None \notin Users \cup Devices

VARIABLES
  flag,         \* redis: [Users -> may the user not speak]
  publishing,   \* the user whose new flag is still to be published, or None
  changes, failures,
  subscribed,   \* servers whose SubscribeRedis is connected
  events,       \* [Servers -> published flags that it has still to receive]
  device_key,   \* redis: [Devices -> the id of a device, or 0]
  devices_id,   \* redis: the last id given
  step,         \* [Conns -> how far HandleAuthToken is]
  logins,       \* [Conns -> log-ins so far]
  forbidden,    \* [Conns -> the flag of the connection]
  device_ID,    \* [Conns -> the device's id, or 0]
  missed,       \* history: connections that a change of the flag did not reach
  doubted       \* history: devices whose log-ins met, or met a failure of redis

redisVars == <<flag, device_key, devices_id>>
eventVars == <<publishing, changes, subscribed, events>>
connVars  == <<step, logins, forbidden, device_ID>>
vars == <<redisVars, eventVars, failures, connVars, missed, doubted>>

Fails == failures < MaxFailures /\ failures' = failures + 1

-----------------------------------------------------------------------------
\* HandleAuthToken.

\* LoadUserAccessToken finds the token; without one the connection stays as it is.
LoadUserAccessToken(c) ==
  /\ step[c] = "off" /\ logins[c] < MaxLogins
  /\ step' = [step EXCEPT ![c] = "preferences"] /\ logins' = [logins EXCEPT ![c] = @ + 1]
  /\ UNCHANGED <<redisVars, eventVars, failures, forbidden, device_ID, missed, doubted>>

\* MSG_AUTH_STATUS 1: the client has to log in again.
Refused(c) == step' = [step EXCEPT ![c] = "off"]

GetUserPreferences(c) ==
  /\ step[c] = "preferences"
  /\ \/ /\ forbidden' = [forbidden EXCEPT ![c] = flag[UserOf[c]]] /\ missed' = missed \ {c}
        /\ step' = [step EXCEPT ![c] = IF DeviceOf[c] = None THEN "add" ELSE "get"]
        /\ UNCHANGED failures
     \/ Refused(c) /\ Fails /\ UNCHANGED <<forbidden, missed>>
  /\ UNCHANGED <<redisVars, eventVars, logins, device_ID, doubted>>

\* Two log-ins of device e, each of which has found no id and not stored one.
Meeting(e) == \E c, d \in Conns : /\ c # d /\ DeviceOf[c] = e /\ DeviceOf[d] = e
                                  /\ step'[c] \in {"incr", "set"} /\ step'[d] \in {"incr", "set"}

Doubt(e) == doubted' = doubted \cup {e}

\* GetDeviceID: GET.  Any error, not only that there is no such key, leads to a
\* new id.
GetDevice(c) ==
  LET e == DeviceOf[c] IN
  /\ step[c] = "get"
  /\ \/ /\ device_key[e] # 0
        /\ device_ID' = [device_ID EXCEPT ![c] = device_key[e]]
        /\ step' = [step EXCEPT ![c] = "add"] /\ UNCHANGED <<failures, doubted>>
     \/ /\ device_key[e] = 0 /\ step' = [step EXCEPT ![c] = "incr"]
        /\ IF Meeting(e) THEN Doubt(e) ELSE UNCHANGED doubted
        /\ UNCHANGED <<failures, device_ID>>
     \/ /\ Fails /\ step' = [step EXCEPT ![c] = "incr"] /\ Doubt(e) /\ UNCHANGED device_ID
  /\ UNCHANGED <<redisVars, eventVars, logins, forbidden, missed>>

\* Mutant of NewID: the id is read, not counted up.
NewIDUncounted == devices_id
NewID == devices_id + 1

\* GetDeviceID: INCR.
Incr(c) ==
  /\ step[c] = "incr"
  /\ \/ /\ devices_id' = NewID /\ device_ID' = [device_ID EXCEPT ![c] = NewID]
        /\ step' = [step EXCEPT ![c] = "set"] /\ UNCHANGED failures
     \/ Refused(c) /\ Fails /\ UNCHANGED <<devices_id, device_ID>>
  /\ UNCHANGED <<flag, device_key, eventVars, logins, forbidden, missed, doubted>>

\* Mutant of SetDevice: the id is not stored.
SetDeviceNever(c) ==
  /\ step[c] = "set" /\ step' = [step EXCEPT ![c] = "add"]
  /\ UNCHANGED <<redisVars, eventVars, failures, logins, forbidden, device_ID, missed, doubted>>

\* GetDeviceID: SET, which may fail after redis has stored it.
SetDevice(c) ==
  LET Stored == device_key' = [device_key EXCEPT ![DeviceOf[c]] = device_ID[c]] IN
  /\ step[c] = "set"
  /\ \/ Stored /\ step' = [step EXCEPT ![c] = "add"] /\ UNCHANGED failures
     \/ Refused(c) /\ Fails /\ (Stored \/ UNCHANGED device_key)
  /\ UNCHANGED <<flag, devices_id, eventVars, logins, forbidden, device_ID, missed, doubted>>

AddClient(c) ==
  /\ step[c] = "add" /\ step' = [step EXCEPT ![c] = "in"]
  /\ UNCHANGED <<redisVars, eventVars, failures, logins, forbidden, device_ID, missed, doubted>>

\* The next connection is a new Client.
HandleClientClosed(c) ==
  /\ step[c] = "in" /\ step' = [step EXCEPT ![c] = "off"]
  /\ forbidden' = [forbidden EXCEPT ![c] = FALSE] /\ device_ID' = [device_ID EXCEPT ![c] = 0]
  /\ missed' = missed \ {c}
  /\ UNCHANGED <<redisVars, eventVars, failures, logins, doubted>>

-----------------------------------------------------------------------------
\* Another service changes the flag and publishes it.

ChangeFlag(u) ==
  /\ publishing = None /\ changes < MaxChanges
  /\ changes' = changes + 1 /\ publishing' = u
  /\ flag' = [flag EXCEPT ![u] = ~@]
  /\ UNCHANGED <<device_key, devices_id, subscribed, events, failures, connVars, missed, doubted>>

\* The connections of user u that have read the flag: a change can still reach
\* them only through an event.
Reading(u, s) == {c \in Conns : UserOf[c] = u /\ ServerOf[c] = s /\ step[c] \notin {"off", "preferences"}}

Publish ==
  /\ publishing # None /\ publishing' = None
  /\ events' = [s \in Servers |-> IF s \in subscribed
                  THEN Append(events[s], [user |-> publishing, fb |-> flag[publishing]]) ELSE events[s]]
  /\ missed' = missed \cup UNION {{c \in Reading(publishing, s) : forbidden[c] # flag[publishing]} :
                                    s \in Servers \ subscribed}
  /\ UNCHANGED <<redisVars, changes, subscribed, failures, connVars, doubted>>

\* Mutant of Told: one of the user's connections is enough.
ToldOne(e, s) ==
  LET all == {c \in Reading(e.user, s) : step[c] = "in"}
  IN IF all = {} THEN {} ELSE {CHOOSE c \in all : TRUE}
Told(e, s) == {c \in Reading(e.user, s) : step[c] = "in"}

\* HandleForbidden: the connections that AddClient was called for.
HandleForbidden(s) ==
  /\ events[s] # << >> /\ events' = [events EXCEPT ![s] = Tail(@)]
  /\ LET e == Head(events[s])
     IN /\ forbidden' = [c \in Conns |-> IF c \in Told(e, s) THEN e.fb ELSE forbidden[c]]
        /\ missed' = (missed \ Told(e, s))
                       \cup {c \in Reading(e.user, s) : step[c] # "in" /\ forbidden[c] # e.fb}
  /\ UNCHANGED <<redisVars, publishing, changes, subscribed, failures, step, logins, device_ID, doubted>>

\* The connection of SubscribeRedis breaks: what was not received is lost.
Unsubscribe(s) ==
  /\ s \in subscribed /\ Fails
  /\ subscribed' = subscribed \ {s} /\ events' = [events EXCEPT ![s] = << >>]
  /\ missed' = missed \cup UNION {Reading(events[s][i].user, s) : i \in DOMAIN events[s]}
  /\ UNCHANGED <<redisVars, publishing, changes, connVars, doubted>>

\* ListenRedis connects again.
SubscribeRedis(s) ==
  /\ s \notin subscribed /\ subscribed' = subscribed \cup {s}
  /\ UNCHANGED <<redisVars, publishing, changes, events, failures, connVars, missed, doubted>>

-----------------------------------------------------------------------------
Init ==
  /\ flag = [u \in Users |-> FALSE] /\ publishing = None /\ changes = 0 /\ failures = 0
  /\ subscribed = Servers /\ events = [s \in Servers |-> << >>]
  /\ device_key = [e \in Devices |-> 0] /\ devices_id = 0
  /\ step = [c \in Conns |-> "off"] /\ logins = [c \in Conns |-> 0]
  /\ forbidden = [c \in Conns |-> FALSE] /\ device_ID = [c \in Conns |-> 0]
  /\ missed = {} /\ doubted = {}

HandleAuthToken(c) ==
  \/ LoadUserAccessToken(c) \/ GetUserPreferences(c)
  \/ GetDevice(c) \/ Incr(c) \/ SetDevice(c) \/ AddClient(c)

Next ==
  \/ \E c \in Conns : HandleAuthToken(c) \/ HandleClientClosed(c)
  \/ \E u \in Users : ChangeFlag(u)
  \/ Publish
  \/ \E s \in Servers : HandleForbidden(s) \/ Unsubscribe(s) \/ SubscribeRedis(s)

Spec == Init /\ [][Next]_vars

-----------------------------------------------------------------------------
\* A connection's flag is that of its user once every event was received, in
\* whatever order log-ins, changes and events come.  The exceptions: an event
\* that found the connection between reading the flag and AddClient, and one
\* lost with the connection to redis.  Nothing reads the flag again.
ForbiddenAgrees ==
  \A c \in Conns :
    step[c] = "in" /\ publishing = None /\ events[ServerOf[c]] = << >> /\ c \notin missed
      => forbidden[c] = flag[UserOf[c]]

\* Connections of different devices never have the same id, whatever fails:
\* isSender takes the id of a message for the device that sent it.
DeviceIDsDiffer ==
  \A c, d \in Conns :
    step[c] = "in" /\ step[d] = "in" /\ DeviceOf[c] # DeviceOf[d] /\ DeviceOf[c] # None
      => device_ID[c] # device_ID[d]

\* A connection has the id that redis keeps for its device, and the device keeps
\* it from log-in to log-in, unless two first log-ins of it met or redis failed in
\* one.
DeviceKeepsID ==
  [][\A e \in Devices \ doubted' :
       /\ device_key[e] # 0 => device_key'[e] = device_key[e]
       /\ \A c \in Conns : DeviceOf[c] = e /\ step'[c] = "in" => device_ID'[c] = device_key'[e]]_vars
=============================================================================
