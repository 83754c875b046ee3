--------------------------- MODULE SyncKeysProofs ---------------------------
(***************************************************************************)
(* Redis ends up with the largest key that a device told, and the key goes *)
(* back only in a race, for any number of devices and servers.             *)
(***************************************************************************)
EXTENDS SyncKeys, TLAPS

\* A request in the SyncKeyService of a server, with what GetSyncKey returned.
Request == [last : Nat, origin : Nat, doubted : BOOLEAN]

TypeOK ==
  /\ sync_key \in Nat /\ failures \in Nat /\ doubt \in BOOLEAN
  /\ key \in [Devices -> Nat] /\ told \in [Devices -> Nat]
  /\ sync_c \in [Servers -> Seq(Nat)]
  /\ service \in [Servers -> Request \cup {None}]

\* Some device told a key that is as large as v.
Known(v) == \E d \in Devices : v <= told[d]

\* Every key on its way to redis, and the one in redis, comes from a device.
AllKnown ==
  /\ Known(sync_key)
  /\ \A s \in Servers : \A i \in 1..Len(sync_c[s]) : Known(sync_c[s][i])
  /\ \A s \in Servers : service[s] # None => Known(service[s].last)

\* What a service has read is still in redis, if nobody wrote meanwhile.
Fresh == \A s \in Servers : service[s] # None /\ ~service[s].doubted => service[s].origin = sync_key

\* The key never went back below what a service has read.
NotBelow == \A s \in Servers : service[s] # None => service[s].origin <= sync_key

\* A key as large as v is in redis or on its way.
InQueue(v) == \E s \in Servers : \E i \in 1..Len(sync_c[s]) : v <= sync_c[s][i]
InService(v) == \E s \in Servers : service[s] # None /\ v <= service[s].last
Arriving(v) == v <= sync_key \/ InQueue(v) \/ InService(v)

AllArriving == \A d \in Devices : Arriving(told[d])

IInv == TypeOK /\ AllKnown /\ Fresh /\ (~doubt => NotBelow /\ AllArriving)

-----------------------------------------------------------------------------
\* The constants.
LEMMA Given ==
  ASSUME SyncKeysAssumption
  PROVE  /\ \A d \in Devices : ServerOf[d] \in Servers
         /\ Devices # {} /\ None \notin Request
BY DEF SyncKeysAssumption, Request

\* Initially everything is 0.
LEMMA InitInv ==
  ASSUME SyncKeysAssumption, Init
  PROVE  IInv
<1>1. TypeOK
  <2>1. sync_c \in [Servers -> Seq(Nat)] /\ service \in [Servers -> Request \cup {None}]
    BY DEF Init
  <2>2. key \in [Devices -> Nat] /\ told \in [Devices -> Nat]
    BY DEF Init
  <2>3. sync_key \in Nat /\ failures \in Nat /\ doubt \in BOOLEAN
    BY DEF Init
  <2> QED BY <2>1, <2>2, <2>3 DEF TypeOK
<1>2. AllKnown
  BY Given DEF Init, AllKnown, Known
<1>3. Fresh /\ NotBelow /\ AllArriving
  BY DEF Init, Fresh, NotBelow, AllArriving, Arriving
<1> QED BY <1>1, <1>2, <1>3 DEF IInv

-----------------------------------------------------------------------------
\* HandleSync and Receive move only keys of devices.
LEMMA KeyMovesInv ==
  ASSUME IInv, NEW d \in Devices, HandleSync(d) \/ Receive(d)
  PROVE  IInv'
<1> USE DEF IInv
<1>1. UNCHANGED <<sync_key, told, sync_c, service, doubt>>
  BY DEF HandleSync, Receive
<1>2. key' \in [Devices -> Nat] /\ failures' \in Nat
  <2>1. CASE Receive(d) BY <2>1 DEF Receive, TypeOK
  <2>2. CASE HandleSync(d)
    <3>1. PICK last_id \in 0..MaxKey, doubted \in BOOLEAN :
            /\ GetSyncKey(last_id, doubted)
            /\ \E n \in last_id..MaxKey : n > 0 /\ key' = [key EXCEPT ![d] = n]
      BY <2>2 DEF HandleSync
    <3>2. PICK n \in last_id..MaxKey : key' = [key EXCEPT ![d] = n]
      BY <3>1
    <3>3. key' \in [Devices -> Nat] BY <3>2 DEF TypeOK
    <3>4. failures' \in Nat BY <3>1 DEF GetSyncKey, Fails, TypeOK
    <3> QED BY <3>3, <3>4
  <2> QED BY <2>1, <2>2
<1>3. TypeOK'
  BY <1>1, <1>2 DEF TypeOK
<1>4. AllKnown' /\ Fresh'
  BY <1>1 DEF AllKnown, Known, Fresh
<1>5. ~doubt' => NotBelow' /\ AllArriving'
  BY <1>1 DEF NotBelow, AllArriving, Arriving, InQueue, InService
<1> QED BY <1>3, <1>4, <1>5

\* HandleSyncKey: the key is in the queue of the device's server.
LEMMA HandleSyncKeyInv ==
  ASSUME SyncKeysAssumption, IInv, NEW d \in Devices, HandleSyncKey(d)
  PROVE  IInv'
<1> USE DEF IInv
<1> DEFINE t == ServerOf[d]
<1>0. t \in Servers BY Given
<1> HIDE DEF t
<1>1. /\ told' = [told EXCEPT ![d] = key[d]] /\ key[d] > told[d]
      /\ sync_c' = [sync_c EXCEPT ![t] = Append(sync_c[t], key[d])]
      /\ UNCHANGED <<sync_key, key, service, failures, doubt>>
  BY DEF HandleSyncKey, t
<1>2. TypeOK' BY <1>0, <1>1 DEF TypeOK
<1>3. /\ Len(sync_c'[t]) = Len(sync_c[t]) + 1 /\ Len(sync_c[t]) \in Nat
      /\ sync_c'[t][Len(sync_c[t]) + 1] = key[d]
      /\ \A i \in 1..Len(sync_c[t]) : sync_c'[t][i] = sync_c[t][i]
      /\ \A s \in Servers : s # t => sync_c'[s] = sync_c[s]
  BY <1>0, <1>1 DEF TypeOK
<1>4. told'[d] = key[d] /\ \A e \in Devices : told'[e] \in Nat /\ told[e] \in Nat /\ told[e] <= told'[e]
  BY <1>1 DEF TypeOK
<1>5. ASSUME NEW v \in Nat, Known(v) PROVE Known(v)'
  <2>1. PICK e \in Devices : v <= told[e] BY <1>5 DEF Known
  <2>2. v <= told'[e] BY <2>1, <1>4
  <2> QED BY <2>2 DEF Known
<1>6. AllKnown'
  <2>1. Known(sync_key)' BY <1>1, <1>5 DEF AllKnown, TypeOK
  <2>2. ASSUME NEW s \in Servers, NEW i \in 1..Len(sync_c'[s]) PROVE Known(sync_c[s][i])'
    <3>1. CASE s = t /\ i = Len(sync_c[t]) + 1
      <4>1. sync_c'[s][i] = told'[d] BY <3>1, <1>3, <1>4
      <4>2. sync_c'[s][i] <= told'[d] BY <4>1, <1>4
      <4> QED BY <4>2 DEF Known
    <3>2. CASE i \in 1..Len(sync_c[s]) /\ sync_c'[s][i] = sync_c[s][i]
      <4>1. sync_c[s][i] \in Nat BY <3>2 DEF TypeOK
      <4>2. Known(sync_c[s][i]) BY <3>2 DEF AllKnown
      <4>3. PICK e \in Devices : sync_c[s][i] <= told[e] BY <4>2 DEF Known
      <4>4. sync_c'[s][i] <= told'[e] BY <4>1, <4>3, <3>2, <1>4
      <4> QED BY <4>4 DEF Known
    <3> QED BY <1>3, <3>1, <3>2
  <2>3. ASSUME NEW s \in Servers, service'[s] # None PROVE Known(service[s].last)'
    <3>1. service[s] \in Request /\ Known(service[s].last) /\ service'[s] = service[s]
      BY <2>3, <1>1 DEF AllKnown, TypeOK
    <3>2. service[s].last \in Nat BY <3>1 DEF Request
    <3>3. PICK e \in Devices : service[s].last <= told[e] BY <3>1 DEF Known
    <3>4. service'[s].last <= told'[e] BY <3>1, <3>2, <3>3, <1>4
    <3> QED BY <3>4 DEF Known
  <2> QED BY <2>1, <2>2, <2>3 DEF AllKnown
<1>7. Fresh' /\ (~doubt' => NotBelow')
  BY <1>1 DEF Fresh, NotBelow
<1>8. ASSUME ~doubt', NEW e \in Devices PROVE Arriving(told[e])'
  <2>1. CASE e = d
    <3>1. told'[e] <= sync_c'[t][Len(sync_c[t]) + 1] BY <2>1, <1>3, <1>4
    <3>2. InQueue(told[e])' BY <3>1, <1>0, <1>3 DEF InQueue
    <3> QED BY <3>2 DEF Arriving
  <2>2. CASE e # d
    <3>1. told'[e] = told[e] /\ Arriving(told[e]) BY <2>2, <1>8, <1>1 DEF AllArriving, TypeOK
    <3>2. CASE told[e] <= sync_key BY <3>1, <3>2, <1>1 DEF Arriving
    <3>3. CASE InQueue(told[e])
      <4>1. PICK s \in Servers, i \in Nat : i \in 1..Len(sync_c[s]) /\ told[e] <= sync_c[s][i]
        BY <3>3 DEF InQueue
      <4>2. i \in 1..Len(sync_c'[s]) /\ told'[e] <= sync_c'[s][i]
        BY <4>1, <3>1, <1>3
      <4> QED BY <4>2 DEF Arriving, InQueue
    <3>4. CASE InService(told[e]) BY <3>1, <3>4, <1>1 DEF Arriving, InService
    <3> QED BY <3>1, <3>2, <3>3, <3>4 DEF Arriving
  <2> QED BY <2>1, <2>2
<1> QED BY <1>2, <1>6, <1>7, <1>8 DEF AllArriving

\* ReadKey: the key moves from the queue to the service.
LEMMA ReadKeyInv ==
  ASSUME SyncKeysAssumption, IInv, NEW t \in Servers, ReadKey(t)
  PROVE  IInv'
<1> USE DEF IInv
<1>1. PICK origin \in 0..MaxKey, doubted \in BOOLEAN :
        /\ GetSyncKey(origin, doubted)
        /\ service' = [service EXCEPT ![t] =
             [last |-> Head(sync_c[t]), origin |-> origin, doubted |-> doubted]]
  BY DEF ReadKey
<1>2. /\ service[t] = None /\ sync_c[t] # << >> /\ sync_c' = [sync_c EXCEPT ![t] = Tail(sync_c[t])]
      /\ UNCHANGED <<sync_key, key, told, doubt>>
  BY DEF ReadKey
<1>3. /\ sync_c[t] \in Seq(Nat) /\ Len(sync_c[t]) \in Nat \ {0}
      /\ Head(sync_c[t]) = sync_c[t][1] /\ sync_c[t][1] \in Nat
      /\ sync_c'[t] = Tail(sync_c[t]) /\ Len(sync_c'[t]) = Len(sync_c[t]) - 1
      /\ \A i \in 1..Len(sync_c'[t]) : sync_c'[t][i] = sync_c[t][i + 1]
      /\ \A s \in Servers : s # t => sync_c'[s] = sync_c[s]
  BY <1>2 DEF TypeOK
<1>4. /\ service'[t] = [last |-> sync_c[t][1], origin |-> origin, doubted |-> doubted]
      /\ \A s \in Servers : s # t => service'[s] = service[s]
  BY <1>1, <1>3 DEF TypeOK
<1>5. /\ origin \in Nat /\ (~doubted => origin = sync_key) /\ origin <= sync_key
      /\ failures' \in Nat
  BY <1>1 DEF GetSyncKey, Fails, TypeOK
<1>6. service'[t] \in Request /\ service'[t] # None
  BY <1>3, <1>4, <1>5, Given DEF Request
<1>7. TypeOK'
  BY <1>1, <1>2, <1>3, <1>4, <1>5, <1>6 DEF TypeOK
<1>8. AllKnown'
  <2>1. Known(sync_key)' BY <1>2 DEF AllKnown, Known
  <2>2. ASSUME NEW s \in Servers, NEW i \in 1..Len(sync_c'[s]) PROVE Known(sync_c[s][i])'
    <3>1. PICK j \in 1..Len(sync_c[s]) : sync_c'[s][i] = sync_c[s][j]
      <4>1. CASE s # t BY <4>1, <1>3
      <4>2. CASE s = t
        <5>1. i + 1 \in 1..Len(sync_c[t]) BY <4>2, <1>3
        <5> QED BY <4>2, <5>1, <1>3
      <4> QED BY <4>1, <4>2
    <3> QED BY <3>1, <1>2 DEF AllKnown, Known
  <2>3. ASSUME NEW s \in Servers, service'[s] # None PROVE Known(service[s].last)'
    <3>1. CASE s = t
      <4>1. Known(sync_c[t][1]) BY <1>3 DEF AllKnown
      <4> QED BY <4>1, <3>1, <1>2, <1>4 DEF Known
    <3>2. CASE s # t
      BY <3>2, <2>3, <1>2, <1>4 DEF AllKnown, Known
    <3> QED BY <3>1, <3>2
  <2> QED BY <2>1, <2>2, <2>3 DEF AllKnown
<1>9. Fresh' /\ (~doubt' => NotBelow')
  BY <1>2, <1>4, <1>5 DEF Fresh, NotBelow
<1>10. ASSUME ~doubt', NEW e \in Devices PROVE Arriving(told[e])'
  <2>1. told'[e] = told[e] /\ Arriving(told[e]) BY <1>10, <1>2 DEF AllArriving
  <2>2. CASE told[e] <= sync_key BY <2>1, <2>2, <1>2 DEF Arriving
  <2>3. CASE InQueue(told[e])
    <3>1. PICK s \in Servers, i \in Nat : i \in 1..Len(sync_c[s]) /\ told[e] <= sync_c[s][i]
      BY <2>3 DEF InQueue
    <3>2. CASE s = t /\ i = 1
      <4>1. service'[t] # None /\ told'[e] <= service'[t].last BY <3>1, <3>2, <2>1, <1>4, <1>6
      <4> QED BY <4>1 DEF Arriving, InService
    <3>3. CASE s = t /\ i # 1
      <4>1. i - 1 \in 1..Len(sync_c'[t]) /\ sync_c'[t][i - 1] = sync_c[t][i]
        <5>1. i \in 2..Len(sync_c[t]) /\ (i - 1) + 1 = i BY <3>1, <3>3, <1>3
        <5>2. i - 1 \in 1..Len(sync_c'[t]) BY <5>1, <1>3
        <5> QED BY <5>1, <5>2, <1>3
      <4> QED BY <4>1, <3>1, <3>3, <2>1 DEF Arriving, InQueue
    <3>4. CASE s # t
      BY <3>1, <3>4, <2>1, <1>3 DEF Arriving, InQueue
    <3> QED BY <3>2, <3>3, <3>4
  <2>4. CASE InService(told[e])
    <3>1. PICK s \in Servers : service[s] # None /\ told[e] <= service[s].last
      BY <2>4 DEF InService
    <3>2. service'[s] = service[s] BY <3>1, <1>2, <1>4
    <3> QED BY <3>1, <3>2, <2>1 DEF Arriving, InService
  <2> QED BY <2>1, <2>2, <2>3, <2>4 DEF Arriving
<1> QED BY <1>7, <1>8, <1>9, <1>10 DEF AllArriving

-----------------------------------------------------------------------------
\* What WriteKey does: it writes, fails to, or has nothing newer.
Writes(t) ==
  /\ Newer(service[t]) /\ sync_key' = service[t].last
  /\ service' = [s \in Servers |-> IF s = t \/ service[s] = None THEN None
                                   ELSE [service[s] EXCEPT !.doubted = TRUE]]
  /\ doubt' = (doubt \/ (service[t].doubted /\ service[t].last < sync_key))
  /\ UNCHANGED failures

\* A write that does not doubt what it does never lowers the key.
LEMMA WriteRaises ==
  ASSUME IInv, NEW t \in Servers, service[t] # None, Writes(t), ~doubt'
  PROVE  sync_key <= sync_key' /\ ~doubt
<1>1. ~doubt /\ ~(service[t].doubted /\ service[t].last < sync_key)
  BY Zenon DEF Writes
<1>2. service[t] \in Request /\ sync_key \in Nat
  BY DEF IInv, TypeOK
<1>3. service[t].last \in Nat /\ service[t].origin \in Nat
  BY <1>2 DEF Request
<1>4. sync_key' = service[t].last /\ service[t].last > service[t].origin
  BY DEF Writes, Newer
<1>5. CASE ~service[t].doubted
  BY <1>1, <1>2, <1>3, <1>4, <1>5 DEF IInv, Fresh
<1>6. CASE service[t].doubted
  BY <1>1, <1>2, <1>3, <1>4, <1>6
<1> QED BY <1>1, <1>5, <1>6

\* SaveSyncKey succeeds: all other services are overtaken.
LEMMA WritesInv ==
  ASSUME SyncKeysAssumption, IInv, NEW t \in Servers, service[t] # None, Writes(t),
         UNCHANGED <<key, told, sync_c>>
  PROVE  IInv'
<1>1. TypeOK /\ AllKnown /\ Fresh BY DEF IInv
<1>2. service[t] \in Request BY <1>1 DEF TypeOK
<1>3. service[t].last \in Nat /\ sync_key' = service[t].last BY <1>2 DEF Request, Writes
<1>4. \A s \in Servers :
        /\ service'[s] = None \/ (/\ service[s] # None /\ s # t
                                  /\ service'[s] = [service[s] EXCEPT !.doubted = TRUE])
        /\ service[s] # None /\ s # t => service'[s] = [service[s] EXCEPT !.doubted = TRUE]
  BY DEF Writes
<1>5. \A s \in Servers : service[s] # None => service[s] \in Request
  BY <1>1 DEF TypeOK
<1>6. \A s \in Servers : service[s] # None /\ s # t =>
        /\ service'[s] \in Request /\ service'[s].doubted = TRUE /\ service'[s] # None
        /\ service'[s].last = service[s].last /\ service'[s].origin = service[s].origin
  <2> SUFFICES ASSUME NEW s \in Servers, service[s] # None, s # t
               PROVE  /\ service'[s] \in Request /\ service'[s].doubted = TRUE /\ service'[s] # None
                      /\ service'[s].last = service[s].last /\ service'[s].origin = service[s].origin
    OBVIOUS
  <2>1. service'[s] = [service[s] EXCEPT !.doubted = TRUE] /\ service[s] \in Request
    BY <1>4, <1>5
  <2>2. service'[s] = [last |-> service[s].last, origin |-> service[s].origin, doubted |-> TRUE]
    BY <2>1 DEF Request
  <2>3. service[s].last \in Nat /\ service[s].origin \in Nat
    BY <2>1 DEF Request
  <2>4. service'[s] \in Request
    BY <2>2, <2>3 DEF Request
  <2>5. service'[s] # None
    BY <2>4, Given
  <2>6. /\ service'[s].doubted = TRUE /\ service'[s].last = service[s].last
        /\ service'[s].origin = service[s].origin
    BY <2>2
  <2> QED BY <2>4, <2>5, <2>6
<1>7. \A s \in Servers : service'[s] # None => service[s] # None /\ s # t
  BY <1>4
<1>8. TypeOK'
  <2>1. service' \in [Servers -> Request \cup {None}]
    <3>1. \A s \in Servers : service'[s] \in Request \cup {None} BY <1>6, <1>7
    <3> QED BY <3>1 DEF Writes
  <2>2. doubt' \in BOOLEAN
    BY DEF Writes
  <2>3. sync_key' \in Nat /\ failures' \in Nat BY <1>1, <1>3 DEF Writes, TypeOK
  <2> QED BY <1>1, <2>1, <2>2, <2>3 DEF TypeOK
<1>9. AllKnown'
  <2>1. Known(sync_key)' BY <1>1, <1>3 DEF AllKnown, Known
  <2>2. \A s \in Servers : \A i \in 1..Len(sync_c'[s]) : Known(sync_c[s][i])'
    BY <1>1 DEF AllKnown, Known
  <2>3. ASSUME NEW s \in Servers, service'[s] # None PROVE Known(service[s].last)'
    BY <1>1, <1>6, <1>7, <2>3 DEF AllKnown, Known
  <2> QED BY <2>1, <2>2, <2>3 DEF AllKnown
<1>10. Fresh'
  BY <1>6, <1>7 DEF Fresh
<1>11. ASSUME ~doubt' PROVE NotBelow' /\ AllArriving'
  <2>1. sync_key <= sync_key' /\ sync_key \in Nat /\ sync_key' \in Nat /\ NotBelow /\ AllArriving
    BY <1>1, <1>3, <1>11, WriteRaises DEF IInv, TypeOK
  <2>2. ASSUME NEW s \in Servers, service'[s] # None PROVE service'[s].origin <= sync_key'
    <3>1. service[s] # None /\ s # t BY <1>7, <2>2
    <3>2. service[s].origin <= sync_key /\ service[s].origin \in Nat
      BY <3>1, <1>5, <2>1 DEF NotBelow, Request
    <3> QED BY <3>1, <3>2, <2>1, <1>6
  <2>3. ASSUME NEW e \in Devices PROVE Arriving(told[e])'
    <3>1. Arriving(told[e]) /\ told'[e] = told[e] /\ told[e] \in Nat BY <1>1, <2>1 DEF AllArriving, TypeOK
    <3>2. CASE told[e] <= sync_key BY <3>1, <3>2, <2>1 DEF Arriving
    <3>3. CASE InQueue(told[e]) BY <3>1, <3>3 DEF Arriving, InQueue
    <3>4. CASE InService(told[e])
      <4>1. PICK s \in Servers : service[s] # None /\ told[e] <= service[s].last
        BY <3>4 DEF InService
      <4>2. CASE s = t BY <4>1, <4>2, <1>3, <3>1 DEF Arriving
      <4>3. CASE s # t BY <4>1, <4>3, <1>6, <3>1 DEF Arriving, InService
      <4> QED BY <4>2, <4>3
    <3> QED BY <3>1, <3>2, <3>3, <3>4 DEF Arriving
  <2> QED BY <2>2, <2>3 DEF NotBelow, AllArriving
<1> QED BY <1>8, <1>9, <1>10, <1>11 DEF IInv

\* WriteKey without a write: the error is logged, or the key is not newer than
\* what redis had, and has.
LEMMA DropsInv ==
  ASSUME IInv, NEW t \in Servers, service[t] # None,
         service' = [service EXCEPT ![t] = None],
         UNCHANGED <<key, told, sync_c, sync_key>>,
         failures' \in Nat,
         doubt' = TRUE \/ (~Newer(service[t]) /\ doubt' = doubt)
  PROVE  IInv'
<1>1. TypeOK /\ AllKnown /\ Fresh BY DEF IInv
<1>2. \A s \in Servers : service'[s] # None => s # t /\ service'[s] = service[s] /\ service[s] # None
  BY <1>1 DEF TypeOK
<1>3. TypeOK'
  <2>1. doubt' \in BOOLEAN BY <1>1 DEF TypeOK
  <2>2. service' \in [Servers -> Request \cup {None}] BY <1>1 DEF TypeOK
  <2> QED BY <1>1, <2>1, <2>2 DEF TypeOK
<1>4. AllKnown' /\ Fresh'
  BY <1>1, <1>2 DEF AllKnown, Fresh, Known
<1>5. ASSUME ~doubt' PROVE NotBelow' /\ AllArriving'
  <2>1. NotBelow /\ AllArriving /\ ~Newer(service[t])
    BY <1>5 DEF IInv
  <2>2. NotBelow' BY <1>2, <2>1 DEF NotBelow
  <2>3. service[t].last <= sync_key /\ service[t].last \in Nat /\ sync_key \in Nat
    BY <1>1, <2>1 DEF NotBelow, Newer, TypeOK, Request
  <2>4. ASSUME NEW e \in Devices PROVE Arriving(told[e])'
    <3>1. Arriving(told[e]) /\ told'[e] = told[e] /\ told[e] \in Nat BY <1>1, <2>1 DEF AllArriving, TypeOK
    <3>2. CASE told[e] <= sync_key \/ InQueue(told[e]) BY <3>1, <3>2 DEF Arriving, InQueue
    <3>3. CASE InService(told[e])
      <4>1. PICK s \in Servers : service[s] # None /\ told[e] <= service[s].last
        BY <3>3 DEF InService
      <4>2. CASE s = t BY <4>1, <4>2, <2>3, <3>1 DEF Arriving
      <4>3. CASE s # t
        <5>1. service'[s] = service[s] BY <4>3, <1>1 DEF TypeOK
        <5> QED BY <4>1, <5>1, <3>1 DEF Arriving, InService
      <4> QED BY <4>2, <4>3
    <3> QED BY <3>1, <3>2, <3>3 DEF Arriving
  <2> QED BY <2>2, <2>4 DEF AllArriving
<1> QED BY <1>3, <1>4, <1>5 DEF IInv

\* The cases of WriteKey.
LEMMA WriteCases ==
  ASSUME IInv, NEW t \in Servers, WriteKey(t)
  PROVE  /\ service[t] # None /\ UNCHANGED <<key, told, sync_c>>
         /\ \/ Writes(t)
            \/ /\ service' = [service EXCEPT ![t] = None] /\ sync_key' = sync_key
               /\ failures' \in Nat
               /\ doubt' = TRUE \/ (~Newer(service[t]) /\ doubt' = doubt)
<1>1. service[t] # None /\ UNCHANGED <<key, told, sync_c>> BY DEF WriteKey
<1>2. failures \in Nat BY DEF IInv, TypeOK
<1>3. CASE Newer(service[t]) /\ Fails /\ doubt' = TRUE
           /\ service' = [service EXCEPT ![t] = None] /\ UNCHANGED sync_key
  BY <1>1, <1>2, <1>3 DEF Fails
<1>4. CASE ~Newer(service[t])
           /\ service' = [service EXCEPT ![t] = None] /\ UNCHANGED <<sync_key, failures, doubt>>
  BY <1>1, <1>2, <1>4
<1>5. CASE Writes(t) BY <1>1, <1>5
<1> QED BY <1>3, <1>4, <1>5, Zenon DEF WriteKey, Writes

-----------------------------------------------------------------------------
\* Every step keeps the invariant.
LEMMA StepInv ==
  ASSUME SyncKeysAssumption, IInv, [Next]_vars
  PROVE  IInv'
<1>1. CASE UNCHANGED vars
  BY <1>1 DEF vars, IInv, TypeOK, AllKnown, Known, Fresh, NotBelow, AllArriving, Arriving,
              InQueue, InService
<1>2. ASSUME NEW d \in Devices, HandleSync(d) \/ Receive(d) PROVE IInv'
  BY <1>2, KeyMovesInv
<1>3. ASSUME NEW d \in Devices, HandleSyncKey(d) PROVE IInv'
  BY <1>3, HandleSyncKeyInv
<1>4. ASSUME NEW t \in Servers, ReadKey(t) PROVE IInv'
  BY <1>4, ReadKeyInv
<1>5. ASSUME NEW t \in Servers, WriteKey(t) PROVE IInv'
  BY <1>5, WriteCases, WritesInv, DropsInv
<1> QED BY <1>1, <1>2, <1>3, <1>4, <1>5 DEF Next

\* The variables keep their types.
THEOREM TypeCorrect ==
  ASSUME SyncKeysAssumption
  PROVE  Spec => []TypeOK
<1>1. Init => IInv BY InitInv
<1>2. IInv /\ [Next]_vars => IInv' BY StepInv
<1>3. IInv => TypeOK BY DEF IInv
<1> QED BY <1>1, <1>2, <1>3, PTL DEF Spec

\* Nothing on its way: every key told is at most that in redis, which is one told.
LEMMA SettledIsNewest ==
  ASSUME IInv, Settled, ~doubt
  PROVE  sync_key = Largest({told[d] : d \in Devices})
<1> DEFINE S == {told[d] : d \in Devices}
<1>1. \A d \in Devices : told[d] <= sync_key /\ told[d] \in Nat /\ sync_key \in Nat
  <2> SUFFICES ASSUME NEW d \in Devices PROVE told[d] <= sync_key /\ told[d] \in Nat /\ sync_key \in Nat
    OBVIOUS
  <2>1. Arriving(told[d]) /\ told[d] \in Nat /\ sync_key \in Nat BY DEF IInv, AllArriving, TypeOK
  <2>2. ~InQueue(told[d]) BY DEF Settled, InQueue
  <2>3. ~InService(told[d]) BY DEF Settled, InService
  <2> QED BY <2>1, <2>2, <2>3 DEF Arriving
<1>2. PICK d \in Devices : sync_key <= told[d]
  BY DEF IInv, AllKnown, Known
<1>3. sync_key = told[d] BY <1>1, <1>2
<1>4. sync_key \in S /\ \A n \in S : n <= sync_key /\ n \in Nat BY <1>1, <1>3
<1>5. \A n \in S : (\A k \in S : k <= n) => n = sync_key BY <1>4
<1> HIDE DEF S
<1> QED BY <1>4, <1>5 DEF Largest, S

\* SyncKeyService leaves the largest key that a device told in redis, unless one
\* service wrote between another's read and write or redis failed.
THEOREM KeyAlwaysNewest ==
  ASSUME SyncKeysAssumption
  PROVE  Spec => []KeyIsNewest
<1>1. Init => IInv BY InitInv
<1>2. IInv /\ [Next]_vars => IInv' BY StepInv
<1>3. IInv => KeyIsNewest BY SettledIsNewest DEF KeyIsNewest
<1> QED BY <1>1, <1>2, <1>3, PTL DEF Spec

\* A step that lowers the key leaves a trace in doubt.
LEMMA StepBack ==
  ASSUME IInv, [Next]_vars
  PROVE  sync_key' < sync_key => doubt'
<1> SUFFICES ASSUME ~doubt' PROVE ~(sync_key' < sync_key)
  OBVIOUS
<1>1. sync_key \in Nat BY DEF IInv, TypeOK
<1>2. CASE sync_key' = sync_key BY <1>1, <1>2
<1>3. ASSUME NEW t \in Servers, WriteKey(t) PROVE ~(sync_key' < sync_key)
  <2>1. CASE sync_key' = sync_key BY <1>1, <2>1
  <2>2. CASE Writes(t)
    <3>1. service[t] # None BY <1>3, WriteCases
    <3>2. sync_key <= sync_key' BY <2>2, <3>1, WriteRaises
    <3>3. service[t] \in Request BY <3>1 DEF IInv, TypeOK
    <3>4. sync_key' \in Nat BY <2>2, <3>3 DEF Writes, Request
    <3> QED BY <1>1, <3>2, <3>4
  <2> QED BY <1>3, <2>1, <2>2, WriteCases
<1>4. CASE UNCHANGED vars BY <1>2, <1>4 DEF vars
<1>5. ASSUME NEW d \in Devices, HandleSync(d) \/ Receive(d) \/ HandleSyncKey(d)
      PROVE  sync_key' = sync_key
  BY <1>5 DEF HandleSync, Receive, HandleSyncKey
<1>6. ASSUME NEW t \in Servers, ReadKey(t) PROVE sync_key' = sync_key
  BY <1>6 DEF ReadKey
<1> QED BY <1>2, <1>3, <1>4, <1>5, <1>6 DEF Next

\* SyncKeyService puts a smaller key in the place of a larger one only when it was
\* overtaken between its read and its write or redis failed.
THEOREM KeyOnlyGoesBackByRace ==
  ASSUME SyncKeysAssumption
  PROVE  Spec => KeyGoesBackByRaceOnly
<1>1. Init => IInv BY InitInv
<1>2. IInv /\ [Next]_vars => IInv' BY StepInv
<1>3. IInv /\ [Next]_vars => [sync_key' < sync_key => doubt']_vars
  <2> SUFFICES ASSUME IInv, [Next]_vars PROVE sync_key' < sync_key => doubt' OBVIOUS
  <2> QED BY StepBack
<1> QED BY <1>1, <1>2, <1>3, PTL DEF Spec, KeyGoesBackByRaceOnly
=============================================================================
