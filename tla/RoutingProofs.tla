----------------------------- MODULE RoutingProofs -----------------------------
(***************************************************************************)
(* Proofs about Routing: the type invariant, with the counts of Channel    *)
(* never below zero, and RouteAgrees, for any number of clients, users,    *)
(* rooms and connections.                                                  *)
(*                                                                         *)
(* The inductive invariant follows the last message about a key: while the *)
(* key is not raced, the last message about it, wherever it is, says what  *)
(* the counts say, and so does the route once there is none.               *)
(***************************************************************************)
EXTENDS Routing, FiniteSetTheorems, TLAPS

\* Routing without its fairness.
SafetySpec == Init /\ [][Next]_vars

-----------------------------------------------------------------------------
\* The clients of a key that are counted.
Present(k) == {c \in Clients : KeyOf[c] = k /\ state[c] = "in"}

\* The counts of Channel are those of its clients.
CountsExact ==
  \A k \in Keys : subscribers[k] = [all    |-> Cardinality(Present(k)),
                                    online |-> Cardinality(Present(k) \cap Online)]

\* The status that the counts call for.
Status(k) == IF subscribers[k].all = 0 THEN "none" ELSE StatusOf(subscribers[k].online > 0)

\* A client that has yet to put a message about the key into channel.wt.
Holds(c, k) == msg[c] # NoMsg /\ msg[c].key = k
Held(k) == \E c \in Clients : Holds(c, k)

\* A message about the key is in a sequence; the last one gives it a status.
About(s, k) == \E i \in 1..Len(s) : s[i].key = k
LastSays(s, k, status) ==
  \A i \in 1..Len(s) :
    s[i].key = k /\ (\A j \in 1..Len(s) : j > i => s[j].key # k) => s[i].status = status

\* The key was told when the connection was made.
ToldAnew(k) == link = "up" \/ (link = "rooms" /\ k \notin Rooms)

\* What the route server will make of the connection.
ConnAgrees(k) ==
  IF About(wire[conn], k) THEN LastSays(wire[conn], k, Status(k)) ELSE route[conn][k] = Status(k)

\* Follows a key from the client that holds a message about it to the route.
Agreed(k) ==
  /\ \A c \in Clients : Holds(c, k) => msg[c].status = Status(k)
  /\ \A c, d \in Clients : Holds(c, k) /\ Holds(d, k) => c = d
  /\ ~Held(k) => LastSays(wt, k, Status(k))
  /\ ~Held(k) /\ ~About(wt, k) /\ ToldAnew(k) /\ conn \in clients => ConnAgrees(k)

\* Nothing is under way on a connection that was given up, and nothing about a
\* room on one whose rooms are yet to be subscribed again.
WireSound ==
  /\ \A n \in Conns \ clients : wire[n] = << >>
  /\ link = "rooms" /\ conn \in clients =>
       \A k \in Rooms : ~About(wire[conn], k) /\ route[conn][k] = "none"

\* A client holds messages about its own key.
HoldsOwn == \A c \in Clients : msg[c] = NoMsg \/ msg[c].key = KeyOf[c]

\* The type invariant but for the bounds of the counts, which follow.
Typed ==
  /\ subscribers \in [Keys -> [all : Nat, online : Nat]]
  /\ state \in [Clients -> {"out", "in"}]
  /\ msg \in [Clients -> Messages \cup {NoMsg}]
  /\ wt \in Seq(Messages) /\ Len(wt) <= ChanSize
  /\ link \in {"down", "rooms", "up"} /\ conn \in Conns
  /\ wire \in [Conns -> Seq(Messages)]
  /\ clients \subseteq Conns /\ route \in [Conns -> [Keys -> Statuses]]
  /\ raced \subseteq Keys

\* The inductive invariant.
IInv ==
  /\ Typed /\ CountsExact /\ HoldsOwn /\ WireSound
  /\ \A k \in Keys \ raced : Agreed(k)

-----------------------------------------------------------------------------
\* The last message about a key after another is appended to the channel.
LEMMA AppendSays ==
  ASSUME NEW S, NEW s \in Seq(S), NEW m \in S, NEW k, NEW status
  PROVE  /\ About(Append(s, m), k) <=> About(s, k) \/ m.key = k
         /\ m.key = k /\ m.status = status => LastSays(Append(s, m), k, status)
         /\ m.key # k /\ LastSays(s, k, status) => LastSays(Append(s, m), k, status)
<1> DEFINE t == Append(s, m)
<1>1. /\ Len(s) \in Nat /\ Len(t) = Len(s) + 1 /\ t[Len(t)] = m
      /\ \A i \in 1..Len(s) : t[i] = s[i]
  OBVIOUS
<1> HIDE DEF t
<1>2. About(t, k) <=> About(s, k) \/ m.key = k
  BY <1>1 DEF About
<1>3. m.key = k /\ m.status = status => LastSays(t, k, status)
  BY <1>1 DEF LastSays
<1>4. ASSUME m.key # k, LastSays(s, k, status)
      PROVE  LastSays(t, k, status)
  <2> SUFFICES ASSUME NEW i \in 1..Len(t), t[i].key = k,
                      \A j \in 1..Len(t) : j > i => t[j].key # k
               PROVE  t[i].status = status
    BY DEF LastSays
  <2>1. i \in 1..Len(s) /\ t[i] = s[i] /\ 1..Len(s) \subseteq 1..Len(t)
    BY <1>1, <1>4
  <2>2. \A j \in 1..Len(s) : j > i => s[j].key # k
    BY <1>1, <2>1
  <2> QED BY <1>4, <2>1, <2>2 DEF LastSays
<1> QED BY <1>2, <1>3, <1>4 DEF t

\* The last message about a key after others were sent over the connection.
LEMMA ConcatSays ==
  ASSUME NEW S, NEW s \in Seq(S), NEW r \in Seq(S), NEW k, NEW status
  PROVE  /\ s \o r \in Seq(S)
         /\ About(s \o r, k) <=> About(s, k) \/ About(r, k)
         /\ About(r, k) /\ LastSays(r, k, status) => LastSays(s \o r, k, status)
         /\ ~About(r, k) /\ LastSays(s, k, status) => LastSays(s \o r, k, status)
<1> DEFINE t == s \o r
           n == Len(s)
<1>1. /\ n \in Nat /\ Len(r) \in Nat /\ Len(t) = n + Len(r) /\ t \in Seq(S)
      /\ \A i \in 1..n : t[i] = s[i]
      /\ \A i \in 1..Len(r) : t[n + i] = r[i]
  OBVIOUS
<1> HIDE DEF t, n
<1>2. \A i \in 1..Len(t) : i \in 1..n \/ i - n \in 1..Len(r)
  BY <1>1
<1>3. \A i \in 1..Len(r) : n + i \in 1..Len(t) /\ (n + i) - n = i
  BY <1>1
<1>4. 1..n \subseteq 1..Len(t)
  BY <1>1
<1>5. About(t, k) <=> About(s, k) \/ About(r, k)
  <2>1. About(t, k) => About(s, k) \/ About(r, k)
    <3> SUFFICES ASSUME NEW i \in 1..Len(t), t[i].key = k
                 PROVE  About(s, k) \/ About(r, k)
      BY DEF About
    <3>1. CASE i \in 1..n
      BY <1>1, <3>1 DEF About, n
    <3>2. CASE i - n \in 1..Len(r)
      <4>1. n + (i - n) = i
        BY <1>1
      <4> QED BY <1>1, <3>2, <4>1 DEF About
    <3> QED BY <1>2, <3>1, <3>2
  <2>2. About(s, k) => About(t, k)
    BY <1>1, <1>4 DEF About, n
  <2>3. About(r, k) => About(t, k)
    BY <1>1, <1>3 DEF About
  <2> QED BY <2>1, <2>2, <2>3
<1>6. ASSUME About(r, k), LastSays(r, k, status)
      PROVE  LastSays(t, k, status)
  <2> SUFFICES ASSUME NEW i \in 1..Len(t), t[i].key = k,
                      \A j \in 1..Len(t) : j > i => t[j].key # k
               PROVE  t[i].status = status
    BY DEF LastSays
  <2>1. PICK a \in 1..Len(r) : r[a].key = k
    BY <1>6 DEF About
  <2>2. ~(n + a > i)
    BY <1>1, <1>3, <2>1
  <2>3. i - n \in 1..Len(r) /\ n + (i - n) = i
    BY <1>1, <1>2, <2>2
  <2>4. r[i - n] = t[i]
    BY <1>1, <2>3
  <2>5. \A j \in 1..Len(r) : j > i - n => r[j].key # k
    BY <1>1, <1>3
  <2> QED BY <1>6, <2>3, <2>4, <2>5 DEF LastSays
<1>7. ASSUME ~About(r, k), LastSays(s, k, status)
      PROVE  LastSays(t, k, status)
  <2> SUFFICES ASSUME NEW i \in 1..Len(t), t[i].key = k,
                      \A j \in 1..Len(t) : j > i => t[j].key # k
               PROVE  t[i].status = status
    BY DEF LastSays
  <2>1. i \in 1..n
    <3> SUFFICES ASSUME i - n \in 1..Len(r)
                 PROVE  FALSE
      BY <1>2
    <3>1. n + (i - n) = i
      BY <1>1
    <3> QED BY <1>1, <1>7, <3>1 DEF About
  <2>2. \A j \in 1..n : j > i => s[j].key # k
    BY <1>1, <1>4
  <2> QED BY <1>1, <1>7, <2>1, <2>2 DEF LastSays, n
<1> QED BY <1>1, <1>5, <1>6, <1>7 DEF t

\* The last message about a key after the first one was taken.
LEMMA TailSays ==
  ASSUME NEW S, NEW s \in Seq(S), s # << >>, NEW k, NEW status
  PROVE  /\ Head(s) \in S /\ Tail(s) \in Seq(S) /\ Len(Tail(s)) < Len(s)
         /\ About(s, k) <=> Head(s).key = k \/ About(Tail(s), k)
         /\ LastSays(s, k, status) => LastSays(Tail(s), k, status)
         /\ LastSays(s, k, status) /\ ~About(Tail(s), k) /\ Head(s).key = k => Head(s).status = status
<1> DEFINE t == Tail(s)
<1>1. /\ Len(s) \in Nat /\ Len(s) >= 1 /\ Len(t) = Len(s) - 1 /\ t \in Seq(S) /\ Head(s) = s[1]
      /\ \A i \in 1..Len(t) : t[i] = s[i + 1]
  OBVIOUS
<1>h. Head(s) \in S
  OBVIOUS
<1> HIDE DEF t
<1>2. \A i \in 1..Len(t) : i + 1 \in 1..Len(s)
  BY <1>1
<1>3. \A i \in 1..Len(s) : i > 1 => i - 1 \in 1..Len(t) /\ t[i - 1] = s[i]
  <2> SUFFICES ASSUME NEW i \in 1..Len(s), i > 1
               PROVE  i - 1 \in 1..Len(t) /\ t[i - 1] = s[i]
    OBVIOUS
  <2>1. i - 1 \in 1..Len(t) /\ (i - 1) + 1 = i
    BY <1>1
  <2> QED BY <1>1, <2>1
<1>4. About(s, k) <=> Head(s).key = k \/ About(t, k)
  <2>1. 1 \in 1..Len(s) /\ \A i \in 1..Len(s) : i = 1 \/ i > 1
    BY <1>1
  <2> QED BY <1>1, <1>2, <1>3, <2>1 DEF About
<1>5. ASSUME LastSays(s, k, status)
      PROVE  LastSays(t, k, status)
  <2> SUFFICES ASSUME NEW i \in 1..Len(t), t[i].key = k,
                      \A j \in 1..Len(t) : j > i => t[j].key # k
               PROVE  t[i].status = status
    BY DEF LastSays
  <2>1. i + 1 \in 1..Len(s) /\ s[i + 1] = t[i]
    BY <1>1, <1>2
  <2>2. ASSUME NEW j \in 1..Len(s), j > i + 1
        PROVE  s[j].key # k
    <3>1. j > 1 /\ j - 1 > i
      BY <1>1, <2>2
    <3> QED BY <1>3, <3>1
  <2> QED BY <1>5, <2>1, <2>2 DEF LastSays
<1>6. ASSUME LastSays(s, k, status), ~About(t, k), Head(s).key = k
      PROVE  Head(s).status = status
  <2>1. 1 \in 1..Len(s)
    BY <1>1
  <2>2. ASSUME NEW j \in 1..Len(s), j > 1
        PROVE  s[j].key # k
    BY <1>3, <1>6, <2>2 DEF About
  <2> QED BY <1>1, <1>6, <2>1, <2>2 DEF LastSays
<1>7. Len(t) < Len(s)
  BY <1>1
<1> QED BY <1>1, <1>h, <1>4, <1>5, <1>6, <1>7 DEF t

\* SetToSeq is a sequence of the members of the set, with all of them.
LEMMA SetToSeqHolds ==
  ASSUME NEW T, IsFiniteSet(T)
  PROVE  /\ SetToSeq(T) \in Seq(T)
         /\ \A x \in T : \E i \in 1..Len(SetToSeq(T)) : SetToSeq(T)[i] = x
<1> DEFINE n == Cardinality(T)
           s == SetToSeq(T)
<1>1. n \in Nat /\ ExistsBijection(1..n, T)
  BY FS_CardinalityType
<1>2. s \in [1..n -> T] /\ IsInjective(s)
  BY <1>1 DEF SetToSeq, ExistsBijection, Bijection, Injection
<1> HIDE DEF s, n
<1>3. s \in Injection(1..n, T)
  BY <1>2 DEF Injection
<1>4. Cardinality(1..n) = n
  BY <1>1, FS_Interval
<1>5. s \in Surjection(1..n, T)
  BY <1>3, <1>4, FS_Injection DEF n
<1>6. s \in Seq(T) /\ Len(s) = n
  BY <1>1, <1>2
<1> QED BY <1>5, <1>6 DEF s, Surjection

-----------------------------------------------------------------------------
\* The two counts of a key.
LEMMA CountsRead ==
  ASSUME CountsExact, NEW k \in Keys
  PROVE  /\ subscribers[k].all = Cardinality(Present(k))
         /\ subscribers[k].online = Cardinality(Present(k) \cap Online)
<1>1. subscribers[k] = [all    |-> Cardinality(Present(k)),
                        online |-> Cardinality(Present(k) \cap Online)]
  BY DEF CountsExact
<1> QED BY <1>1

\* A key has no more on-line clients than clients, and the counts say whether
\* there are any.
LEMMA CountsBound ==
  ASSUME RoutingAssumption, CountsExact, NEW k \in Keys
  PROVE  /\ subscribers[k].all \in 0..Cardinality(Clients)
         /\ subscribers[k].online \in 0..Cardinality(Online)
         /\ subscribers[k].online <= subscribers[k].all
         /\ subscribers[k].all = 0 <=> Present(k) = {}
         /\ subscribers[k].online = 0 <=> Present(k) \cap Online = {}
<1>1. Online \in SUBSET Clients /\ Present(k) \in SUBSET Clients
      /\ Present(k) \cap Online \in SUBSET Online /\ Present(k) \cap Online \in SUBSET Present(k)
  BY DEF RoutingAssumption, Present
<1>2. IsFiniteSet(Clients)
  BY DEF RoutingAssumption
<1>3. IsFiniteSet(Online) /\ IsFiniteSet(Present(k))
      /\ Cardinality(Present(k)) <= Cardinality(Clients)
  BY <1>1, <1>2, FS_Subset
<1>4. /\ IsFiniteSet(Present(k) \cap Online)
      /\ Cardinality(Present(k) \cap Online) <= Cardinality(Online)
      /\ Cardinality(Present(k) \cap Online) <= Cardinality(Present(k))
  BY <1>1, <1>3, FS_Subset
<1>5. /\ Cardinality(Clients) \in Nat /\ Cardinality(Online) \in Nat
      /\ Cardinality(Present(k)) \in Nat /\ Cardinality(Present(k) \cap Online) \in Nat
  BY <1>2, <1>3, <1>4, FS_CardinalityType
<1>6. /\ Cardinality(Present(k)) = 0 <=> Present(k) = {}
      /\ Cardinality(Present(k) \cap Online) = 0 <=> Present(k) \cap Online = {}
  BY <1>3, <1>4, FS_EmptySet
<1>7. /\ subscribers[k].all = Cardinality(Present(k))
      /\ subscribers[k].online = Cardinality(Present(k) \cap Online)
  BY CountsRead
<1> QED BY <1>3, <1>4, <1>5, <1>6, <1>7

\* The counts call for the status that the clients call for.
LEMMA StatusIsWanted ==
  ASSUME RoutingAssumption, CountsExact, NEW k \in Keys
  PROVE  Status(k) = Wanted(k)
<1>1. /\ subscribers[k].all = 0 <=> Present(k) = {}
      /\ subscribers[k].online = 0 <=> Present(k) \cap Online = {}
      /\ subscribers[k].online \in 0..Cardinality(Online)
  BY CountsBound
<1>2. subscribers[k].online > 0 <=> Present(k) \cap Online # {}
  BY <1>1
<1> QED BY <1>1, <1>2 DEF Status, Wanted, Present, StatusOf

\* Subscribe counts the client in, and what it tells is what the counts say then.
LEMMA SubscribeTells ==
  ASSUME RoutingAssumption, Typed, CountsExact, NEW c \in Clients, Subscribe(c)
  PROVE  /\ CountsExact' /\ subscribers' \in [Keys -> [all : Nat, online : Nat]]
         /\ \E m \in Messages \cup {NoMsg} :
              /\ ToTell(c, m)
              /\ m # NoMsg => m.key = KeyOf[c]
              /\ \A k \in Keys :
                   Status(k)' = IF m # NoMsg /\ k = KeyOf[c] THEN m.status ELSE Status(k)
<1> DEFINE key == KeyOf[c]
           before == subscribers[key]
           on == c \in Online
           m == IF before.all = 0 THEN Msg(key, StatusOf(on))
                ELSE IF before.online = 0 /\ on THEN Msg(key, "online") ELSE NoMsg
<1>1. key \in Keys /\ Online \subseteq Clients /\ IsFiniteSet(Clients) /\ "none" \notin Keys
  BY DEF RoutingAssumption
<1>2. /\ state[c] = "out" /\ state' = [state EXCEPT ![c] = "in"] /\ ToTell(c, m)
      /\ subscribers' = [subscribers EXCEPT
           ![key] = [all    |-> before.all + 1,
                     online |-> IF on THEN before.online + 1 ELSE before.online]]
  BY DEF Subscribe, AddSubscribe
<1>3. subscribers \in [Keys -> [all : Nat, online : Nat]] /\ state \in [Clients -> {"out", "in"}]
  BY DEF Typed
<1>4. /\ subscribers' \in [Keys -> [all : Nat, online : Nat]]
      /\ \A k \in Keys \ {key} : subscribers'[k] = subscribers[k]
      /\ subscribers'[key] = [all |-> before.all + 1,
                              online |-> IF on THEN before.online + 1 ELSE before.online]
  BY <1>1, <1>2, <1>3
<1>5. /\ \A k \in Keys \ {key} : Present(k)' = Present(k)
      /\ Present(key)' = Present(key) \cup {c} /\ c \notin Present(key)
      /\ Present(key) \subseteq Clients
  BY <1>2, <1>3 DEF Present
<1>6. Cardinality(Present(key)') = Cardinality(Present(key)) + 1
      /\ IsFiniteSet(Present(key)) /\ IsFiniteSet(Present(key) \cap Online)
  <2> DEFINE P == Present(key)
  <2>1. IsFiniteSet(P) /\ P \cap Online \in SUBSET P
    BY <1>1, <1>5, FS_Subset
  <2>2. IsFiniteSet(P \cap Online)
    BY <2>1, FS_Subset
  <2> HIDE DEF P
  <2>3. Cardinality(P \cup {c}) = IF c \in P THEN Cardinality(P) ELSE Cardinality(P) + 1
    BY <2>1, FS_AddElement
  <2> QED BY <1>5, <2>1, <2>2, <2>3 DEF P
<1>7. Cardinality(Present(key)' \cap Online)
        = IF on THEN Cardinality(Present(key) \cap Online) + 1
          ELSE Cardinality(Present(key) \cap Online)
  <2>1. CASE on
    <3>1. Present(key)' \cap Online = (Present(key) \cap Online) \cup {c}
          /\ c \notin Present(key) \cap Online
      BY <1>5, <2>1
    <3> DEFINE T == Present(key) \cap Online
    <3>2. IsFiniteSet(T)
      BY <1>6
    <3> HIDE DEF T
    <3>3. Cardinality(T \cup {c}) = IF c \in T THEN Cardinality(T) ELSE Cardinality(T) + 1
      BY <3>2, FS_AddElement
    <3>4. c \notin T /\ Present(key)' \cap Online = T \cup {c}
      BY <3>1 DEF T
    <3>5. Cardinality(Present(key)' \cap Online) = Cardinality(T) + 1
      BY <3>3, <3>4
    <3> QED BY <2>1, <3>5 DEF T
  <2>2. CASE ~on
    <3>1. Present(key)' \cap Online = Present(key) \cap Online
      BY <1>5, <2>2
    <3> QED BY <2>2, <3>1
  <2> QED BY <2>1, <2>2
<1>8. CountsExact'
  <2> SUFFICES ASSUME NEW k \in Keys
               PROVE  subscribers'[k] = [all    |-> Cardinality(Present(k)'),
                                         online |-> Cardinality(Present(k)' \cap Online)]
    BY DEF CountsExact
  <2>1. CASE k = key
    <3>1. before.all = Cardinality(Present(key))
          /\ before.online = Cardinality(Present(key) \cap Online)
      BY <1>1, CountsRead
    <3> QED BY <1>4, <1>6, <1>7, <2>1, <3>1
  <2>2. CASE k # key
    <3>1. subscribers'[k] = subscribers[k] /\ Present(k)' = Present(k)
      BY <1>4, <1>5, <2>2
    <3>2. subscribers[k] = [all    |-> Cardinality(Present(k)),
                            online |-> Cardinality(Present(k) \cap Online)]
      BY DEF CountsExact
    <3> QED BY <3>1, <3>2
  <2> QED BY <2>1, <2>2
<1>9. before.all \in Nat /\ before.online \in Nat /\ before.online <= before.all
  BY <1>1, <1>3, CountsBound
<1>10. m \in Messages \cup {NoMsg} /\ (m # NoMsg => m.key = key)
  BY <1>1 DEF Msg, Messages, Statuses, NoMsg, StatusOf
<1>11. ASSUME NEW k \in Keys
       PROVE  Status(k)' = IF m # NoMsg /\ k = key THEN m.status ELSE Status(k)
  <2>1. CASE k # key
    BY <1>4, <2>1 DEF Status
  <2>2. CASE k = key
    <3>1. Status(key)' = StatusOf(IF on THEN before.online + 1 > 0 ELSE before.online > 0)
      BY <1>4, <1>9 DEF Status
    <3>2. CASE before.all = 0
      <4>1. before.online = 0
        BY <1>9, <3>2
      <4>2. m.status = StatusOf(on) /\ m # NoMsg
        BY <1>1, <3>2 DEF Msg, NoMsg
      <4> QED BY <2>2, <3>1, <4>1, <4>2 DEF StatusOf
    <3>3. CASE before.all # 0 /\ before.online = 0 /\ on
      <4>1. m.status = "online" /\ m # NoMsg
        BY <1>1, <3>3 DEF Msg, NoMsg
      <4> QED BY <2>2, <3>1, <3>3, <4>1 DEF StatusOf
    <3>4. CASE before.all # 0 /\ ~(before.online = 0 /\ on)
      <4>1. m = NoMsg
        BY <3>4
      <4>2. Status(key) = StatusOf(before.online > 0)
        BY <3>4 DEF Status
      <4> QED BY <1>9, <2>2, <3>1, <3>4, <4>1, <4>2 DEF StatusOf
    <3> QED BY <3>2, <3>3, <3>4
  <2> QED BY <2>1, <2>2
<1> HIDE DEF m
<1> QED BY <1>2, <1>4, <1>8, <1>10, <1>11

\* Unsubscribe counts the client out, and what it tells is what the counts say then.
LEMMA UnsubscribeTells ==
  ASSUME RoutingAssumption, Typed, CountsExact, NEW c \in Clients, Unsubscribe(c)
  PROVE  /\ CountsExact' /\ subscribers' \in [Keys -> [all : Nat, online : Nat]]
         /\ \E m \in Messages \cup {NoMsg} :
              /\ ToTell(c, m)
              /\ m # NoMsg => m.key = KeyOf[c]
              /\ \A k \in Keys :
                   Status(k)' = IF m # NoMsg /\ k = KeyOf[c] THEN m.status ELSE Status(k)
<1> DEFINE key == KeyOf[c]
           before == subscribers[key]
           on == c \in Online
           left == before.all - 1
           m == IF before.all = 1 THEN Msg(key, "none")
                ELSE IF before.online = 1 /\ on THEN Msg(key, "offline") ELSE NoMsg
<1>1. key \in Keys /\ Online \subseteq Clients /\ IsFiniteSet(Clients) /\ "none" \notin Keys
  BY DEF RoutingAssumption
<1>2. /\ state[c] = "in" /\ state' = [state EXCEPT ![c] = "out"] /\ ToTell(c, m)
      /\ subscribers' = [subscribers EXCEPT
           ![key] = [all    |-> left,
                     online |-> IF left = 0 THEN 0 ELSE IF on THEN before.online - 1
                                ELSE before.online]]
  BY DEF Unsubscribe, RemoveSubscribe
<1>3. subscribers \in [Keys -> [all : Nat, online : Nat]] /\ state \in [Clients -> {"out", "in"}]
  BY DEF Typed
<1>4. /\ \A k \in Keys \ {key} : subscribers'[k] = subscribers[k]
      /\ subscribers'[key] = [all |-> left,
                              online |-> IF left = 0 THEN 0 ELSE IF on THEN before.online - 1
                                         ELSE before.online]
  BY <1>1, <1>2, <1>3
<1>5. /\ \A k \in Keys \ {key} : Present(k)' = Present(k)
      /\ Present(key)' = Present(key) \ {c} /\ c \in Present(key)
      /\ Present(key) \subseteq Clients
  BY <1>2, <1>3 DEF Present
<1>6. Cardinality(Present(key)') = Cardinality(Present(key)) - 1
      /\ IsFiniteSet(Present(key)) /\ IsFiniteSet(Present(key) \cap Online)
      /\ IsFiniteSet(Present(key)')
  <2> DEFINE P == Present(key)
  <2>1. IsFiniteSet(P) /\ P \cap Online \in SUBSET P /\ P \ {c} \in SUBSET P
    BY <1>1, <1>5, FS_Subset
  <2>2. IsFiniteSet(P \cap Online) /\ IsFiniteSet(P \ {c})
    BY <2>1, FS_Subset
  <2> HIDE DEF P
  <2>3. Cardinality(P \ {c}) = IF c \in P THEN Cardinality(P) - 1 ELSE Cardinality(P)
    BY <2>1, FS_RemoveElement
  <2> QED BY <1>5, <2>1, <2>2, <2>3 DEF P
<1>7. Cardinality(Present(key)' \cap Online)
        = IF on THEN Cardinality(Present(key) \cap Online) - 1
          ELSE Cardinality(Present(key) \cap Online)
  <2>1. CASE on
    <3>1. Present(key)' \cap Online = (Present(key) \cap Online) \ {c}
          /\ c \in Present(key) \cap Online
      BY <1>5, <2>1
    <3> DEFINE T == Present(key) \cap Online
    <3>2. IsFiniteSet(T)
      BY <1>6
    <3> HIDE DEF T
    <3>3. Cardinality(T \ {c}) = IF c \in T THEN Cardinality(T) - 1 ELSE Cardinality(T)
      BY <3>2, FS_RemoveElement
    <3>4. c \in T /\ Present(key)' \cap Online = T \ {c}
      BY <3>1 DEF T
    <3>5. Cardinality(Present(key)' \cap Online) = Cardinality(T) - 1
      BY <3>3, <3>4
    <3> QED BY <2>1, <3>5 DEF T
  <2>2. CASE ~on
    <3>1. Present(key)' \cap Online = Present(key) \cap Online
      BY <1>5, <2>2
    <3> QED BY <2>2, <3>1
  <2> QED BY <2>1, <2>2
<1>8. /\ before.all \in Nat /\ before.online \in Nat /\ before.online <= before.all
      /\ before.all = Cardinality(Present(key))
      /\ before.online = Cardinality(Present(key) \cap Online)
      /\ before.all # 0 /\ (on => before.online # 0)
  <2>1. Present(key) # {} /\ (on => Present(key) \cap Online # {})
    BY <1>5
  <2>2. before.all \in Nat /\ before.online \in Nat
    BY <1>1, <1>3
  <2>3. /\ before.online <= before.all
        /\ before.all = 0 <=> Present(key) = {}
        /\ before.online = 0 <=> Present(key) \cap Online = {}
    BY <1>1, CountsBound
  <2>4. before.all = Cardinality(Present(key))
        /\ before.online = Cardinality(Present(key) \cap Online)
    BY <1>1, CountsRead
  <2> QED BY <2>1, <2>2, <2>3, <2>4
<1>9. CountsExact'
  <2> SUFFICES ASSUME NEW k \in Keys
               PROVE  subscribers'[k] = [all    |-> Cardinality(Present(k)'),
                                         online |-> Cardinality(Present(k)' \cap Online)]
    BY DEF CountsExact
  <2>1. CASE k = key
    <3>1. CASE left = 0
      <4>1. Present(key)' = {}
        BY <1>6, <1>8, <3>1, FS_EmptySet
      <4>2. Cardinality(Present(key)') = 0 /\ Cardinality(Present(key)' \cap Online) = 0
        BY <4>1, FS_EmptySet
      <4> QED BY <1>4, <2>1, <3>1, <4>2
    <3>2. CASE left # 0
      BY <1>4, <1>6, <1>7, <1>8, <2>1, <3>2
    <3> QED BY <3>1, <3>2
  <2>2. CASE k # key
    <3>1. subscribers'[k] = subscribers[k] /\ Present(k)' = Present(k)
      BY <1>4, <1>5, <2>2
    <3>2. subscribers[k] = [all    |-> Cardinality(Present(k)),
                            online |-> Cardinality(Present(k) \cap Online)]
      BY DEF CountsExact
    <3> QED BY <3>1, <3>2
  <2> QED BY <2>1, <2>2
<1>10. subscribers' \in [Keys -> [all : Nat, online : Nat]]
  <2>1. left \in Nat /\ (IF left = 0 THEN 0 ELSE IF on THEN before.online - 1
                         ELSE before.online) \in Nat
    BY <1>8
  <2> HIDE DEF left
  <2> QED BY <1>1, <1>2, <1>3, <2>1
<1>11. m \in Messages \cup {NoMsg} /\ (m # NoMsg => m.key = key)
  BY <1>1 DEF Msg, Messages, Statuses, NoMsg
<1>12. ASSUME NEW k \in Keys
       PROVE  Status(k)' = IF m # NoMsg /\ k = key THEN m.status ELSE Status(k)
  <2>1. CASE k # key
    BY <1>4, <2>1 DEF Status
  <2>2. CASE k = key
    <3>1. CASE before.all = 1
      <4>1. m.status = "none" /\ m # NoMsg
        BY <1>1, <3>1 DEF Msg, NoMsg
      <4>2. Status(key)' = "none"
        BY <1>4, <3>1 DEF Status
      <4> QED BY <2>2, <4>1, <4>2
    <3>2. CASE before.all # 1
      <4>1. left # 0
        BY <1>8, <3>2
      <4>2. Status(key)' = StatusOf(IF on THEN before.online - 1 > 0 ELSE before.online > 0)
        BY <1>4, <4>1 DEF Status
      <4>3. CASE before.online = 1 /\ on
        <5>1. m.status = "offline" /\ m # NoMsg
          BY <1>1, <3>2, <4>3 DEF Msg, NoMsg
        <5> QED BY <2>2, <4>2, <4>3, <5>1 DEF StatusOf
      <4>4. CASE ~(before.online = 1 /\ on)
        <5>1. m = NoMsg
          BY <3>2, <4>4
        <5>2. Status(key) = StatusOf(before.online > 0)
          BY <1>8 DEF Status
        <5> QED BY <1>8, <2>2, <4>2, <4>4, <5>1, <5>2 DEF StatusOf
      <4> QED BY <4>3, <4>4
    <3> QED BY <3>1, <3>2
  <2> QED BY <2>1, <2>2
<1> HIDE DEF m
<1> QED BY <1>2, <1>9, <1>10, <1>11, <1>12

-----------------------------------------------------------------------------
\* What a client tells is the last message about its key, while it holds it.
LEMMA ToTellKeeps ==
  ASSUME RoutingAssumption, IInv, NEW c \in Clients, msg[c] = NoMsg,
         NEW m \in Messages \cup {NoMsg}, m # NoMsg => m.key = KeyOf[c], ToTell(c, m),
         \A k \in Keys : Status(k)' = IF m # NoMsg /\ k = KeyOf[c] THEN m.status ELSE Status(k),
         UNCHANGED <<wt, link, conn, wire, imrVars>>
  PROVE  /\ msg' \in [Clients -> Messages \cup {NoMsg}] /\ raced' \subseteq Keys
         /\ HoldsOwn' /\ WireSound' /\ \A k \in Keys \ raced' : Agreed(k)'
<1>1. /\ msg \in [Clients -> Messages \cup {NoMsg}] /\ raced \subseteq Keys /\ KeyOf[c] \in Keys
      /\ msg' = [msg EXCEPT ![c] = m]
      /\ raced' = IF m # NoMsg /\ \E d \in Clients \ {c} : msg[d] # NoMsg /\ msg[d].key = m.key
                    THEN raced \cup {m.key} ELSE raced
  BY DEF IInv, Typed, RoutingAssumption, ToTell
<1>2. msg' \in [Clients -> Messages \cup {NoMsg}] /\ raced' \subseteq Keys /\ raced \subseteq raced'
      /\ msg'[c] = m /\ \A d \in Clients \ {c} : msg'[d] = msg[d]
  BY <1>1
<1>3. HoldsOwn'
  BY <1>2 DEF HoldsOwn, IInv
<1>4. /\ wt' = wt /\ link' = link /\ conn' = conn /\ wire' = wire /\ clients' = clients
      /\ route' = route
  BY DEF imrVars
<1>5. WireSound'
  BY <1>4 DEF IInv, WireSound
<1>6. ASSUME NEW k \in Keys \ raced'
      PROVE  Agreed(k)'
  <2>1. CASE m # NoMsg /\ k = KeyOf[c]
    <3>1. \A d \in Clients \ {c} : ~Holds(d, k)'
      BY <1>1, <1>2, <2>1 DEF Holds
    <3>2. Holds(c, k)' /\ msg'[c].status = Status(k)'
      BY <1>2, <2>1 DEF Holds
    <3>3. Held(k)'
      BY <3>2 DEF Held
    <3> QED BY <3>1, <3>2, <3>3 DEF Agreed
  <2>2. CASE ~(m # NoMsg /\ k = KeyOf[c])
    <3>1. Agreed(k) /\ Status(k)' = Status(k)
      BY <1>2, <2>2 DEF IInv
    <3>2. \A d \in Clients : Holds(d, k)' <=> Holds(d, k)
      BY <1>2, <2>2 DEF Holds
    <3>3. (\A d \in Clients : Holds(d, k)' => msg'[d] = msg[d]) /\ (Held(k)' <=> Held(k))
      BY <1>2, <2>2, <3>2 DEF Holds, Held
    <3>4. (ConnAgrees(k)' <=> ConnAgrees(k)) /\ (ToldAnew(k)' <=> ToldAnew(k))
      BY <1>4, <3>1 DEF ConnAgrees, ToldAnew
    <3>5. /\ \A d \in Clients : Holds(d, k) => msg[d].status = Status(k)
          /\ \A d, e \in Clients : Holds(d, k) /\ Holds(e, k) => d = e
          /\ ~Held(k) => LastSays(wt, k, Status(k))
          /\ ~Held(k) /\ ~About(wt, k) /\ ToldAnew(k) /\ conn \in clients => ConnAgrees(k)
      BY <3>1 DEF Agreed
    <3>6. \A d \in Clients : Holds(d, k)' => msg'[d].status = Status(k)'
      BY <3>1, <3>2, <3>3, <3>5
    <3>7. \A d, e \in Clients : Holds(d, k)' /\ Holds(e, k)' => d = e
      BY <3>2, <3>5
    <3>8. ~Held(k)' => LastSays(wt', k, Status(k)')
      BY <1>4, <3>1, <3>3, <3>5
    <3>9. ~Held(k)' /\ ~About(wt', k) /\ ToldAnew(k)' /\ conn' \in clients' => ConnAgrees(k)'
      BY <1>4, <3>3, <3>4, <3>5
    <3> QED BY <3>6, <3>7, <3>8, <3>9 DEF Agreed
  <2> QED BY <2>1, <2>2
<1> QED BY <1>2, <1>3, <1>5, <1>6

\* A client comes.
LEMMA SubscribeKeeps ==
  ASSUME RoutingAssumption, IInv, NEW c \in Clients, Subscribe(c)
  PROVE  IInv'
<1>1. /\ msg[c] = NoMsg /\ UNCHANGED <<wt, link, conn, wire, imrVars>>
      /\ state' = [state EXCEPT ![c] = "in"] /\ Typed /\ CountsExact
  BY DEF Subscribe, IInv
<1>2. CountsExact' /\ subscribers' \in [Keys -> [all : Nat, online : Nat]]
  BY <1>1, SubscribeTells
<1>3. PICK m \in Messages \cup {NoMsg} :
        /\ ToTell(c, m)
        /\ m # NoMsg => m.key = KeyOf[c]
        /\ \A k \in Keys :
             Status(k)' = IF m # NoMsg /\ k = KeyOf[c] THEN m.status ELSE Status(k)
  BY <1>1, SubscribeTells
<1>4. ToTell(c, m)
  BY <1>3
<1>5. /\ msg' \in [Clients -> Messages \cup {NoMsg}] /\ raced' \subseteq Keys
      /\ HoldsOwn' /\ WireSound' /\ \A k \in Keys \ raced' : Agreed(k)'
  BY <1>1, <1>3, <1>4, ToTellKeeps
<1>6. Typed'
  BY <1>1, <1>2, <1>5 DEF Typed, imrVars
<1> QED BY <1>2, <1>5, <1>6 DEF IInv

\* A client goes.
LEMMA UnsubscribeKeeps ==
  ASSUME RoutingAssumption, IInv, NEW c \in Clients, Unsubscribe(c)
  PROVE  IInv'
<1>1. /\ msg[c] = NoMsg /\ UNCHANGED <<wt, link, conn, wire, imrVars>>
      /\ state' = [state EXCEPT ![c] = "out"] /\ Typed /\ CountsExact
  BY DEF Unsubscribe, IInv
<1>2. CountsExact' /\ subscribers' \in [Keys -> [all : Nat, online : Nat]]
  BY <1>1, UnsubscribeTells
<1>3. PICK m \in Messages \cup {NoMsg} :
        /\ ToTell(c, m)
        /\ m # NoMsg => m.key = KeyOf[c]
        /\ \A k \in Keys :
             Status(k)' = IF m # NoMsg /\ k = KeyOf[c] THEN m.status ELSE Status(k)
  BY <1>1, UnsubscribeTells
<1>4. ToTell(c, m)
  BY <1>3
<1>5. /\ msg' \in [Clients -> Messages \cup {NoMsg}] /\ raced' \subseteq Keys
      /\ HoldsOwn' /\ WireSound' /\ \A k \in Keys \ raced' : Agreed(k)'
  BY <1>1, <1>3, <1>4, ToTellKeeps
<1>6. Typed'
  BY <1>1, <1>2, <1>5 DEF Typed, imrVars
<1> QED BY <1>2, <1>5, <1>6 DEF IInv

\* A client puts its message into channel.wt: it was the last about its key, and
\* still is.
LEMMA SendWtKeeps ==
  ASSUME RoutingAssumption, IInv, NEW c \in Clients, SendWt(c)
  PROVE  IInv'
<1>1. /\ msg[c] # NoMsg /\ Len(wt) < ChanSize
      /\ wt' = Append(wt, msg[c]) /\ msg' = [msg EXCEPT ![c] = NoMsg]
      /\ UNCHANGED <<subscribers, state, link, conn, wire, clients, route, raced>>
  BY DEF SendWt, imrVars
<1>2. /\ msg \in [Clients -> Messages \cup {NoMsg}] /\ wt \in Seq(Messages)
      /\ ChanSize \in Nat
  BY DEF IInv, Typed, RoutingAssumption
<1>3. /\ msg[c] \in Messages /\ msg'[c] = NoMsg
      /\ \A d \in Clients \ {c} : msg'[d] = msg[d]
      /\ msg' \in [Clients -> Messages \cup {NoMsg}]
  BY <1>1, <1>2
<1>4. wt' \in Seq(Messages) /\ Len(wt') <= ChanSize
  BY <1>1, <1>2, <1>3
<1>5. Typed'
  BY <1>1, <1>3, <1>4 DEF IInv, Typed
<1>6. CountsExact'
  BY <1>1 DEF IInv, CountsExact, Present
<1>7. HoldsOwn'
  BY <1>3 DEF IInv, HoldsOwn
<1>8. WireSound'
  BY <1>1 DEF IInv, WireSound
<1>9. ASSUME NEW k \in Keys \ raced'
      PROVE  Agreed(k)'
  <2>1. /\ \A d \in Clients : Holds(d, k) => msg[d].status = Status(k)
        /\ \A d, e \in Clients : Holds(d, k) /\ Holds(e, k) => d = e
        /\ ~Held(k) => LastSays(wt, k, Status(k))
        /\ ~Held(k) /\ ~About(wt, k) /\ ToldAnew(k) /\ conn \in clients => ConnAgrees(k)
    BY <1>1 DEF IInv, Agreed
  <2>2. Status(k)' = Status(k) /\ (ConnAgrees(k)' <=> ConnAgrees(k))
        /\ (ToldAnew(k)' <=> ToldAnew(k))
    BY <1>1 DEF Status, ConnAgrees, ToldAnew
  <2>3. \A d \in Clients : Holds(d, k)' <=> Holds(d, k) /\ d # c
    BY <1>3 DEF Holds
  <2>4. \A d \in Clients : Holds(d, k)' => msg'[d].status = Status(k)'
    BY <1>3, <2>1, <2>2, <2>3
  <2>5. \A d, e \in Clients : Holds(d, k)' /\ Holds(e, k)' => d = e
    BY <2>1, <2>3
  <2>6. /\ About(wt', k) <=> About(wt, k) \/ msg[c].key = k
        /\ msg[c].key = k /\ msg[c].status = Status(k) => LastSays(wt', k, Status(k))
        /\ msg[c].key # k /\ LastSays(wt, k, Status(k)) => LastSays(wt', k, Status(k))
    BY <1>1, <1>2, <1>3, AppendSays
  <2>7. CASE msg[c].key = k
    <3>1. Holds(c, k)
      BY <1>1, <2>7 DEF Holds
    <3>2. LastSays(wt', k, Status(k)') /\ About(wt', k)
      BY <2>1, <2>2, <2>6, <2>7, <3>1
    <3> QED BY <2>4, <2>5, <3>2 DEF Agreed
  <2>8. CASE msg[c].key # k
    <3>1. Held(k)' <=> Held(k)
      <4>1. ~Holds(c, k)
        BY <2>8 DEF Holds
      <4> QED BY <2>3, <4>1 DEF Held
    <3>2. ~Held(k)' => LastSays(wt', k, Status(k)')
      BY <2>1, <2>2, <2>6, <2>8, <3>1
    <3>3. ~Held(k)' /\ ~About(wt', k) /\ ToldAnew(k)' /\ conn' \in clients' => ConnAgrees(k)'
      BY <1>1, <2>1, <2>2, <2>6, <3>1
    <3> QED BY <2>4, <2>5, <3>2, <3>3 DEF Agreed
  <2> QED BY <2>7, <2>8
<1> QED BY <1>5, <1>6, <1>7, <1>8, <1>9 DEF IInv

-----------------------------------------------------------------------------
\* ReSubscribe tells every key that has clients what the counts say, and no other.
LEMMA SubscriptionsSay ==
  ASSUME RoutingAssumption, Typed, NEW keys \in SUBSET Keys
  PROVE  /\ Subscriptions(keys) \in Seq(Messages)
         /\ \A k \in Keys : /\ About(Subscriptions(keys), k) <=> k \in keys /\ subscribers[k].all > 0
                            /\ LastSays(Subscriptions(keys), k, Status(k))
<1> DEFINE present == {k \in keys : subscribers[k].all > 0}
           T == {Msg(k, StatusOf(subscribers[k].online > 0)) : k \in present}
           f == [k \in present |-> Msg(k, StatusOf(subscribers[k].online > 0))]
           s == SetToSeq(T)
<1>1. s = Subscriptions(keys)
  BY DEF Subscriptions
<1>2. present \in SUBSET Keys /\ IsFiniteSet(Keys)
  BY DEF RoutingAssumption
<1>3. IsFiniteSet(present)
  BY <1>2, FS_Subset
<1>4. f \in Surjection(present, T)
  BY DEF Surjection
<1>5. IsFiniteSet(T)
  BY <1>3, <1>4, FS_Surjection
<1>6. \A x \in T : /\ x \in Messages /\ x.key \in present
                   /\ x.status = Status(x.key)
  <2> SUFFICES ASSUME NEW k \in present
               PROVE  LET x == Msg(k, StatusOf(subscribers[k].online > 0))
                      IN x \in Messages /\ x.key = k /\ x.status = Status(k)
    OBVIOUS
  <2>1. subscribers[k].all \in Nat /\ subscribers[k].all # 0 /\ k \in Keys
    BY <1>2 DEF Typed
  <2> QED BY <2>1 DEF Msg, StatusOf, Messages, Statuses, Status
<1>7. \A k \in present : \E x \in T : x.key = k
  <2> SUFFICES ASSUME NEW k \in present
               PROVE  \E x \in T : x.key = k
    OBVIOUS
  <2>1. Msg(k, StatusOf(subscribers[k].online > 0)) \in T
    OBVIOUS
  <2>2. Msg(k, StatusOf(subscribers[k].online > 0)).key = k
    BY DEF Msg
  <2> QED BY <2>1, <2>2
<1>8. s \in Seq(T) /\ \A x \in T : \E i \in 1..Len(s) : s[i] = x
  BY <1>5, SetToSeqHolds
<1> HIDE DEF T, s
<1>9. \A i \in 1..Len(s) : s[i] \in T
  BY <1>8
<1>10. s \in Seq(Messages)
  <2>1. T \subseteq Messages
    BY <1>6
  <2> QED BY <1>8, <2>1
<1>11. ASSUME NEW k \in Keys
       PROVE  About(s, k) <=> k \in present
  BY <1>6, <1>7, <1>8, <1>9 DEF About
<1>12. ASSUME NEW k \in Keys
       PROVE  LastSays(s, k, Status(k))
  BY <1>6, <1>9 DEF LastSays
<1> QED BY <1>1, <1>10, <1>11, <1>12

\* A step that leaves the counts and the clients alone keeps what is said of them.
LEMMA ImKeeps ==
  ASSUME UNCHANGED imVars, CountsExact, HoldsOwn
  PROVE  /\ CountsExact' /\ HoldsOwn'
         /\ \A k : Status(k)' = Status(k) /\ (Held(k)' <=> Held(k))
<1>1. subscribers' = subscribers /\ state' = state /\ msg' = msg
  BY DEF imVars
<1>2. CountsExact' /\ HoldsOwn'
  BY <1>1 DEF CountsExact, HoldsOwn, Present
<1>3. \A k : Status(k)' = Status(k) /\ (Held(k)' <=> Held(k))
  BY <1>1 DEF Status, Held, Holds
<1> QED BY <1>2, <1>3

\* What such a step has to show to keep a key agreed.
LEMMA AgreedKeeps ==
  ASSUME UNCHANGED imVars, NEW k \in Keys, Agreed(k),
         ~Held(k) => LastSays(wt', k, Status(k)),
         ~Held(k) /\ ~About(wt', k) /\ ToldAnew(k)' /\ conn' \in clients' => ConnAgrees(k)'
  PROVE  Agreed(k)'
<1>1. subscribers' = subscribers /\ msg' = msg
  BY DEF imVars
<1>2. Status(k)' = Status(k) /\ (Held(k)' <=> Held(k))
      /\ (\A c \in Clients : Holds(c, k)' <=> Holds(c, k))
  BY <1>1 DEF Status, Held, Holds
<1>3. /\ \A c \in Clients : Holds(c, k) => msg[c].status = Status(k)
      /\ \A c, d \in Clients : Holds(c, k) /\ Holds(d, k) => c = d
  BY DEF Agreed
<1>4. /\ \A c \in Clients : Holds(c, k)' => msg'[c].status = Status(k)'
      /\ \A c, d \in Clients : Holds(c, k)' /\ Holds(d, k)' => c = d
  BY <1>1, <1>2, <1>3
<1>5. ~Held(k)' => LastSays(wt', k, Status(k)')
  BY <1>2
<1>6. ~Held(k)' /\ ~About(wt', k) /\ ToldAnew(k)' /\ conn' \in clients' => ConnAgrees(k)'
  BY <1>2
<1> QED BY <1>4, <1>5, <1>6 DEF Agreed

\* A key whose race is forgotten is under way in neither a client nor channel.wt.
LEMMA ForgottenKeys ==
  ASSUME Typed, NEW keys \in SUBSET Keys, Forget(keys), NEW k \in Keys \ raced'
  PROVE  k \notin raced \/ (k \in keys /\ ~Held(k) /\ ~About(wt, k))
<1>1. DOMAIN wt = 1..Len(wt)
  BY DEF Typed
<1>2. ASSUME k \in raced
      PROVE  k \in keys /\ ~Held(k) /\ ~About(wt, k)
  <2>1. /\ k \in keys /\ \A c \in Clients : msg[c] = NoMsg \/ msg[c].key # k
        /\ \A m \in ToSet(wt) : m.key # k
    BY <1>2 DEF Forget
  <2> QED BY <1>1, <2>1 DEF Held, Holds, About, ToSet
<1> QED BY <1>2

\* A key of which nothing is held nor in channel.wt is agreed if the connection is.
LEMMA AgreedAnew ==
  ASSUME UNCHANGED <<imVars, wt>>, NEW k \in Keys, ~Held(k), ~About(wt, k),
         ToldAnew(k)' /\ conn' \in clients' => ConnAgrees(k)'
  PROVE  Agreed(k)'
<1>1. msg' = msg /\ wt' = wt
  BY DEF imVars
<1>2. \A c \in Clients : ~Holds(c, k)'
  BY <1>1 DEF Held, Holds
<1>3. ~Held(k)'
  BY <1>2 DEF Held
<1>4. LastSays(wt', k, Status(k)')
  BY <1>1 DEF LastSays, About
<1> QED BY <1>1, <1>2, <1>3, <1>4 DEF Agreed

-----------------------------------------------------------------------------
\* A new connection: all users are told again, and nothing older is sent over it.
LEMMA ConnectKeeps ==
  ASSUME RoutingAssumption, IInv, NEW n \in Conns, Connect(n)
  PROVE  IInv'
<1> DEFINE subs == Subscriptions(Keys \ Rooms)
<1>1. /\ link' = "rooms" /\ conn' = n /\ n \notin clients /\ clients' = clients \cup {n}
      /\ route' = [route EXCEPT ![n] = NoKeys] /\ UNCHANGED imVars /\ wt' = wt
      /\ Forget(Keys \ Rooms)
      /\ wire' = [wire EXCEPT ![n] = @ \o subs]
  BY DEF Connect, Transmit
<1>2. /\ wire \in [Conns -> Seq(Messages)] /\ route \in [Conns -> [Keys -> Statuses]]
      /\ wt \in Seq(Messages) /\ Typed /\ CountsExact /\ HoldsOwn
      /\ wire[n] = << >> /\ Rooms \subseteq Keys /\ raced \subseteq Keys
  BY <1>1 DEF IInv, Typed, WireSound, RoutingAssumption
<1>3. /\ subs \in Seq(Messages)
      /\ \A k \in Keys : /\ About(subs, k) <=> k \in Keys \ Rooms /\ subscribers[k].all > 0
                         /\ LastSays(subs, k, Status(k))
  BY <1>2, SubscriptionsSay
<1>4. wire'[n] = subs /\ wire' \in [Conns -> Seq(Messages)]
      /\ \A i \in Conns \ {n} : wire'[i] = wire[i]
  <2>1. << >> \o subs = subs
    BY <1>3
  <2> QED BY <1>1, <1>2, <1>3, <2>1
<1>5. route'[n] = NoKeys /\ route' \in [Conns -> [Keys -> Statuses]]
  <2>1. NoKeys \in [Keys -> Statuses]
    BY DEF NoKeys, Statuses
  <2> QED BY <1>1, <1>2, <2>1
<1>6. raced' \subseteq Keys
  BY <1>1, <1>2 DEF Forget
<1>7. Typed'
  BY <1>1, <1>2, <1>4, <1>5, <1>6 DEF Typed, imVars
<1>8. CountsExact' /\ HoldsOwn' /\ \A k : Status(k)' = Status(k)
  BY <1>1, <1>2, ImKeeps
<1>9. WireSound'
  <2>1. \A i \in Conns \ clients' : wire'[i] = << >>
    BY <1>1, <1>4 DEF IInv, WireSound
  <2>2. \A k \in Rooms : ~About(wire'[conn'], k) /\ route'[conn'][k] = "none"
    BY <1>1, <1>2, <1>3, <1>4, <1>5 DEF NoKeys
  <2> QED BY <2>1, <2>2 DEF WireSound
<1>10. ASSUME NEW k \in Keys, ToldAnew(k)'
       PROVE  ConnAgrees(k)'
  <2>1. k \notin Rooms
    BY <1>1, <1>10 DEF ToldAnew
  <2>2. wire'[conn'] = subs /\ route'[conn'][k] = "none"
    BY <1>1, <1>4, <1>5 DEF NoKeys
  <2>3. ~About(subs, k) => Status(k) = "none"
    <3>1. subscribers[k].all \in Nat
      BY <1>2 DEF Typed
    <3>2. About(subs, k) <=> subscribers[k].all > 0
      BY <1>3, <2>1
    <3> QED BY <3>1, <3>2 DEF Status
  <2>4. LastSays(subs, k, Status(k))
    BY <1>3
  <2> HIDE DEF subs
  <2> QED BY <1>8, <2>2, <2>3, <2>4 DEF ConnAgrees
<1>11. ASSUME NEW k \in Keys \ raced'
       PROVE  Agreed(k)'
  <2>1. CASE k \notin raced
    <3>1. Agreed(k)
      BY <2>1 DEF IInv
    <3>2. ~Held(k) => LastSays(wt', k, Status(k))
      BY <1>1, <3>1 DEF Agreed
    <3> QED BY <1>1, <1>10, <3>1, <3>2, AgreedKeeps
  <2>2. CASE ~Held(k) /\ ~About(wt, k)
    BY <1>1, <1>10, <2>2, AgreedAnew
  <2> QED BY <1>1, <1>2, <2>1, <2>2, ForgottenKeys
<1> QED BY <1>7, <1>8, <1>9, <1>11 DEF IInv

\* All rooms are told again, the first messages about rooms on the connection.
LEMMA ReSubscribeRoomKeeps ==
  ASSUME RoutingAssumption, IInv, ReSubscribeRoom
  PROVE  IInv'
<1> DEFINE subs == Subscriptions(Rooms)
<1>1. /\ link = "rooms" /\ link' = "up" /\ conn' = conn /\ clients' = clients
      /\ route' = route /\ UNCHANGED imVars /\ wt' = wt /\ Forget(Rooms)
      /\ wire' = IF conn \in clients THEN [wire EXCEPT ![conn] = @ \o subs] ELSE wire
  BY DEF ReSubscribeRoom, Transmit, imrVars
<1>2. /\ wire \in [Conns -> Seq(Messages)] /\ route \in [Conns -> [Keys -> Statuses]]
      /\ wt \in Seq(Messages) /\ Typed /\ CountsExact /\ HoldsOwn /\ conn \in Conns
      /\ Rooms \subseteq Keys /\ raced \subseteq Keys
  BY <1>1 DEF IInv, Typed, RoutingAssumption
<1>3. /\ subs \in Seq(Messages)
      /\ \A k \in Keys : /\ About(subs, k) <=> k \in Rooms /\ subscribers[k].all > 0
                         /\ LastSays(subs, k, Status(k))
  BY <1>2, SubscriptionsSay
<1>4. wire[conn] \o subs \in Seq(Messages)
  <2>1. wire[conn] \in Seq(Messages)
    BY <1>2
  <2> QED BY <1>3, <2>1
<1>5. wire' \in [Conns -> Seq(Messages)]
      /\ (conn \in clients => wire'[conn] = wire[conn] \o subs)
      /\ \A i \in Conns \ clients : wire'[i] = wire[i]
  BY <1>1, <1>2, <1>4
<1>6. raced' \subseteq Keys
  BY <1>1, <1>2 DEF Forget
<1>7. Typed'
  BY <1>1, <1>2, <1>5, <1>6 DEF Typed, imVars
<1>8. CountsExact' /\ HoldsOwn' /\ \A k : Status(k)' = Status(k)
  BY <1>1, <1>2, ImKeeps
<1>9. WireSound'
  BY <1>1, <1>5 DEF IInv, WireSound
<1>10. ASSUME NEW k \in Keys, conn \in clients, k \in Rooms \/ ConnAgrees(k)
       PROVE  ConnAgrees(k)'
  <2>1. wire[conn] \in Seq(Messages) /\ wire'[conn'] = wire[conn] \o subs
    BY <1>1, <1>2, <1>5, <1>10
  <2>2. /\ About(wire[conn] \o subs, k) <=> About(wire[conn], k) \/ About(subs, k)
        /\ About(subs, k) /\ LastSays(subs, k, Status(k)) => LastSays(wire[conn] \o subs, k, Status(k))
        /\ ~About(subs, k) /\ LastSays(wire[conn], k, Status(k))
             => LastSays(wire[conn] \o subs, k, Status(k))
    BY <1>3, <2>1, ConcatSays
  <2>3. CASE About(subs, k)
    BY <1>3, <1>8, <2>1, <2>2, <2>3 DEF ConnAgrees
  <2>4. CASE ~About(subs, k) /\ k \in Rooms
    <3>1. subscribers[k].all \in Nat
      BY <1>2 DEF Typed
    <3>2. Status(k) = "none"
      BY <1>3, <2>4, <3>1 DEF Status
    <3>3. ~About(wire[conn], k) /\ route[conn][k] = "none"
      BY <1>1, <1>10, <2>4 DEF IInv, WireSound
    <3>4. ~About(wire'[conn'], k) /\ route'[conn'][k] = Status(k)'
      BY <1>1, <1>8, <2>1, <2>2, <2>4, <3>2, <3>3
    <3> QED BY <3>4 DEF ConnAgrees
  <2>5. CASE ~About(subs, k) /\ ConnAgrees(k)
    <3>1. CASE About(wire[conn], k)
      BY <1>8, <2>1, <2>2, <2>5, <3>1 DEF ConnAgrees
    <3>2. CASE ~About(wire[conn], k)
      <4>1. route[conn][k] = Status(k)
        BY <2>5, <3>2 DEF ConnAgrees
      <4>2. ~About(wire'[conn'], k) /\ route'[conn'][k] = Status(k)'
        BY <1>1, <1>8, <2>1, <2>2, <2>5, <3>2, <4>1
      <4> QED BY <4>2 DEF ConnAgrees
    <3> QED BY <3>1, <3>2
  <2> QED BY <1>10, <2>3, <2>4, <2>5
<1>11. ASSUME NEW k \in Keys \ raced'
       PROVE  Agreed(k)'
  <2>1. CASE k \notin raced
    <3>1. Agreed(k)
      BY <2>1 DEF IInv
    <3>2. ~Held(k) => LastSays(wt', k, Status(k))
      BY <1>1, <3>1 DEF Agreed
    <3>3. ~Held(k) /\ ~About(wt', k) /\ conn' \in clients' => ConnAgrees(k)'
      <4>1. ~Held(k) /\ ~About(wt, k) /\ conn \in clients => k \in Rooms \/ ConnAgrees(k)
        BY <1>1, <3>1 DEF Agreed, ToldAnew
      <4> QED BY <1>1, <1>10, <4>1
    <3> QED BY <1>1, <3>1, <3>2, <3>3, AgreedKeeps
  <2>2. CASE k \in Rooms /\ ~Held(k) /\ ~About(wt, k)
    <3>1. conn' \in clients' => ConnAgrees(k)'
      BY <1>1, <1>10, <2>2
    <3> QED BY <1>1, <2>2, <3>1, AgreedAnew
  <2> QED BY <1>1, <1>2, <2>1, <2>2, ForgottenKeys
<1> QED BY <1>7, <1>8, <1>9, <1>11 DEF IInv

\* The next message of channel.wt follows the others on the connection, or is lost
\* with it.
LEMMA ForwardKeeps ==
  ASSUME RoutingAssumption, IInv, Forward
  PROVE  IInv'
<1> DEFINE m == Head(wt)
<1>1. /\ link = "up" /\ wt # << >> /\ wt' = Tail(wt)
      /\ link' = link /\ conn' = conn /\ clients' = clients /\ route' = route /\ raced' = raced
      /\ UNCHANGED imVars
      /\ wire' = IF conn \in clients THEN [wire EXCEPT ![conn] = @ \o <<m>>] ELSE wire
  BY DEF Forward, Transmit, imrVars
<1>2. /\ wire \in [Conns -> Seq(Messages)] /\ wt \in Seq(Messages) /\ Len(wt) <= ChanSize
      /\ Typed /\ CountsExact /\ HoldsOwn /\ conn \in Conns /\ ChanSize \in Nat
  BY <1>1 DEF IInv, Typed, RoutingAssumption
<1>3. /\ m \in Messages /\ wt' \in Seq(Messages) /\ Len(wt') < Len(wt)
      /\ Len(wt) \in Nat /\ Len(wt') \in Nat
  BY <1>1, <1>2, TailSays
<1>4. wire[conn] \in Seq(Messages) /\ wire[conn] \o <<m>> = Append(wire[conn], m)
  <2>1. wire[conn] \in Seq(Messages)
    BY <1>2
  <2> HIDE DEF m
  <2> QED BY <1>3, <2>1
<1> HIDE DEF m
<1>5. wire' \in [Conns -> Seq(Messages)]
      /\ (conn \in clients => wire'[conn] = Append(wire[conn], m))
      /\ \A i \in Conns \ clients : wire'[i] = wire[i]
  <2>1. Append(wire[conn], m) \in Seq(Messages)
    BY <1>3, <1>4
  <2> QED BY <1>1, <1>2, <1>4, <2>1
<1>6. Typed'
  <2>1. Len(wt') <= ChanSize
    BY <1>2, <1>3
  <2> QED BY <1>1, <1>2, <1>3, <1>5, <2>1 DEF Typed, imVars
<1>7. CountsExact' /\ HoldsOwn' /\ \A k : Status(k)' = Status(k)
  BY <1>1, <1>2, ImKeeps
<1>8. WireSound'
  BY <1>1, <1>5 DEF IInv, WireSound
<1>9. ASSUME NEW k \in Keys \ raced'
      PROVE  Agreed(k)'
  <2>1. /\ Agreed(k) /\ ToldAnew(k)
        /\ ~Held(k) => LastSays(wt, k, Status(k))
        /\ ~Held(k) /\ ~About(wt, k) /\ conn \in clients => ConnAgrees(k)
    BY <1>1 DEF IInv, Agreed, ToldAnew
  <2>2. /\ About(wt, k) <=> m.key = k \/ About(wt', k)
        /\ LastSays(wt, k, Status(k)) => LastSays(wt', k, Status(k))
        /\ LastSays(wt, k, Status(k)) /\ ~About(wt', k) /\ m.key = k => m.status = Status(k)
    BY <1>1, <1>2, TailSays DEF m
  <2>3. ASSUME ~Held(k), ~About(wt', k), conn \in clients
        PROVE  ConnAgrees(k)'
    <3>1. wire'[conn'] = Append(wire[conn], m)
      BY <1>1, <1>5, <2>3
    <3>2. /\ About(Append(wire[conn], m), k) <=> About(wire[conn], k) \/ m.key = k
          /\ m.key = k /\ m.status = Status(k) => LastSays(Append(wire[conn], m), k, Status(k))
          /\ m.key # k /\ LastSays(wire[conn], k, Status(k))
               => LastSays(Append(wire[conn], m), k, Status(k))
      BY <1>3, <1>4, AppendSays
    <3>3. CASE m.key = k
      <4>1. About(wire'[conn'], k) /\ LastSays(wire'[conn'], k, Status(k)')
        BY <1>7, <2>1, <2>2, <2>3, <3>1, <3>2, <3>3
      <4> QED BY <4>1 DEF ConnAgrees
    <3>4. CASE m.key # k
      <4>1. ConnAgrees(k)
        BY <2>1, <2>2, <2>3, <3>4
      <4>2. CASE About(wire[conn], k)
        <5>1. LastSays(wire[conn], k, Status(k))
          BY <4>1, <4>2 DEF ConnAgrees
        <5>2. About(wire'[conn'], k) /\ LastSays(wire'[conn'], k, Status(k)')
          BY <1>7, <3>1, <3>2, <3>4, <4>2, <5>1
        <5> QED BY <5>2 DEF ConnAgrees
      <4>3. CASE ~About(wire[conn], k)
        <5>1. route[conn][k] = Status(k)
          BY <4>1, <4>3 DEF ConnAgrees
        <5>2. ~About(wire'[conn'], k) /\ route'[conn'][k] = Status(k)'
          BY <1>1, <1>7, <3>1, <3>2, <3>4, <4>3, <5>1
        <5> QED BY <5>2 DEF ConnAgrees
      <4> QED BY <4>2, <4>3
    <3> QED BY <3>3, <3>4
  <2>4. ~Held(k) => LastSays(wt', k, Status(k))
    BY <2>1, <2>2
  <2>5. ~Held(k) /\ ~About(wt', k) /\ conn' \in clients' => ConnAgrees(k)'
    BY <1>1, <2>3
  <2> QED BY <1>1, <2>1, <2>4, <2>5, AgreedKeeps
<1> QED BY <1>6, <1>7, <1>8, <1>9 DEF IInv

\* The connection fails: a new one will tell everything again.
LEMMA LinkDownKeeps ==
  ASSUME RoutingAssumption, IInv, LinkDown
  PROVE  IInv'
<1>1. /\ link' = "down" /\ conn' = conn /\ wire' = wire /\ clients' = clients /\ route' = route
      /\ raced' = raced /\ wt' = wt /\ UNCHANGED imVars
  BY DEF LinkDown, imrVars
<1>2. Typed'
  BY <1>1 DEF IInv, Typed, imVars
<1>3. CountsExact' /\ HoldsOwn' /\ WireSound'
  BY <1>1, ImKeeps DEF IInv, WireSound
<1>4. ASSUME NEW k \in Keys \ raced'
      PROVE  Agreed(k)'
  <2>1. Agreed(k) /\ ~ToldAnew(k)' /\ (~Held(k) => LastSays(wt', k, Status(k)))
    BY <1>1 DEF IInv, Agreed, ToldAnew
  <2> QED BY <1>1, <2>1, AgreedKeeps
<1> QED BY <1>2, <1>3, <1>4 DEF IInv

\* The route server handles the first message of a connection.
LEMMA HandleKeeps ==
  ASSUME RoutingAssumption, IInv, NEW n \in Conns, Handle(n)
  PROVE  IInv'
<1> DEFINE m == Head(wire[n])
<1>1. /\ n \in clients /\ wire[n] # << >>
      /\ route' = [route EXCEPT ![n][m.key] = m.status]
      /\ wire' = [wire EXCEPT ![n] = Tail(@)]
      /\ link' = link /\ conn' = conn /\ clients' = clients /\ raced' = raced
      /\ UNCHANGED imVars /\ wt' = wt
  BY DEF Handle
<1>2. /\ wire \in [Conns -> Seq(Messages)] /\ route \in [Conns -> [Keys -> Statuses]]
      /\ Typed /\ CountsExact /\ HoldsOwn /\ conn \in Conns /\ wire[n] \in Seq(Messages)
  BY <1>1 DEF IInv, Typed
<1>3. m \in Messages /\ Tail(wire[n]) \in Seq(Messages)
  BY <1>1, <1>2, TailSays
<1>4. m.key \in Keys /\ m.status \in Statuses
  BY <1>3 DEF Messages
<1>5. /\ wire' \in [Conns -> Seq(Messages)] /\ wire'[n] = Tail(wire[n])
      /\ \A i \in Conns \ {n} : wire'[i] = wire[i]
  BY <1>1, <1>2, <1>3
<1> HIDE DEF m
<1>6. /\ route' \in [Conns -> [Keys -> Statuses]]
      /\ \A i \in Conns, k \in Keys :
           route'[i][k] = IF i = n /\ k = m.key THEN m.status ELSE route[i][k]
  BY <1>1, <1>2, <1>4
<1>7. Typed'
  BY <1>1, <1>2, <1>5, <1>6 DEF Typed, imVars
<1>8. CountsExact' /\ HoldsOwn' /\ \A k : Status(k)' = Status(k)
  BY <1>1, <1>2, ImKeeps
<1>9. ASSUME NEW k \in Keys
      PROVE  /\ About(wire[n], k) <=> m.key = k \/ About(wire'[n], k)
             /\ LastSays(wire[n], k, Status(k)) => LastSays(wire'[n], k, Status(k))
             /\ LastSays(wire[n], k, Status(k)) /\ ~About(wire'[n], k) /\ m.key = k
                  => m.status = Status(k)
  BY <1>1, <1>2, <1>5, TailSays DEF m
<1>10. WireSound'
  <2>1. \A i \in Conns \ clients' : wire'[i] = << >>
    BY <1>1, <1>5 DEF IInv, WireSound
  <2>2. ASSUME link = "rooms", conn \in clients, NEW k \in Rooms
        PROVE  ~About(wire'[conn], k) /\ route'[conn][k] = "none"
    <3>1. ~About(wire[conn], k) /\ route[conn][k] = "none" /\ k \in Keys
      BY <2>2 DEF IInv, WireSound, RoutingAssumption
    <3>2. CASE conn = n
      BY <1>2, <1>6, <1>9, <3>1, <3>2
    <3>3. CASE conn # n
      BY <1>2, <1>5, <1>6, <3>1, <3>3
    <3> QED BY <3>2, <3>3
  <2> QED BY <1>1, <2>1, <2>2 DEF WireSound
<1>11. ASSUME NEW k \in Keys, ConnAgrees(k)
       PROVE  ConnAgrees(k)'
  <2>1. CASE conn # n
    <3>1. wire'[conn'] = wire[conn] /\ route'[conn'][k] = route[conn][k]
      BY <1>1, <1>2, <1>5, <1>6, <2>1
    <3> QED BY <1>8, <1>11, <3>1 DEF ConnAgrees
  <2>2. CASE conn = n
    <3>1. CASE About(wire'[n], k)
      <4>1. LastSays(wire[n], k, Status(k))
        BY <1>9, <1>11, <2>2, <3>1 DEF ConnAgrees
      <4>2. LastSays(wire'[conn'], k, Status(k)') /\ About(wire'[conn'], k)
        BY <1>1, <1>8, <1>9, <2>2, <3>1, <4>1
      <4> QED BY <4>2 DEF ConnAgrees
    <3>2. CASE ~About(wire'[n], k) /\ m.key = k
      <4>1. LastSays(wire[n], k, Status(k))
        BY <1>9, <1>11, <2>2, <3>2 DEF ConnAgrees
      <4>2. ~About(wire'[conn'], k) /\ route'[conn'][k] = Status(k)'
        BY <1>1, <1>6, <1>8, <1>9, <2>2, <3>2, <4>1
      <4> QED BY <4>2 DEF ConnAgrees
    <3>3. CASE ~About(wire'[n], k) /\ m.key # k
      <4>1. route[n][k] = Status(k)
        BY <1>9, <1>11, <2>2, <3>3 DEF ConnAgrees
      <4>2. ~About(wire'[conn'], k) /\ route'[conn'][k] = Status(k)'
        BY <1>1, <1>6, <1>8, <2>2, <3>3, <4>1
      <4> QED BY <4>2 DEF ConnAgrees
    <3> QED BY <3>1, <3>2, <3>3
  <2> QED BY <2>1, <2>2
<1>12. ASSUME NEW k \in Keys \ raced'
       PROVE  Agreed(k)'
  <2>1. /\ Agreed(k) /\ (ToldAnew(k)' <=> ToldAnew(k))
        /\ ~Held(k) => LastSays(wt', k, Status(k))
        /\ ~Held(k) /\ ~About(wt', k) /\ ToldAnew(k) /\ conn' \in clients' => ConnAgrees(k)
    BY <1>1 DEF IInv, Agreed, ToldAnew
  <2> QED BY <1>1, <1>11, <2>1, AgreedKeeps
<1> QED BY <1>7, <1>8, <1>10, <1>12 DEF IInv

\* The route server gives a connection up, with all that is under way on it.
LEMMA RemoveClientKeeps ==
  ASSUME RoutingAssumption, IInv, NEW n \in Conns, RemoveClient(n)
  PROVE  IInv'
<1>1. /\ clients' = clients \ {n} /\ wire' = [wire EXCEPT ![n] = << >>]
      /\ route' = [route EXCEPT ![n] = NoKeys]
      /\ link' = link /\ conn' = conn /\ raced' = raced /\ UNCHANGED imVars /\ wt' = wt
  BY DEF RemoveClient
<1>2. /\ wire \in [Conns -> Seq(Messages)] /\ route \in [Conns -> [Keys -> Statuses]]
      /\ Typed /\ CountsExact /\ HoldsOwn /\ conn \in Conns
  BY DEF IInv, Typed
<1>3. /\ wire' \in [Conns -> Seq(Messages)] /\ wire'[n] = << >>
      /\ \A i \in Conns \ {n} : wire'[i] = wire[i] /\ route'[i] = route[i]
  BY <1>1, <1>2
<1>4. route' \in [Conns -> [Keys -> Statuses]]
  <2>1. NoKeys \in [Keys -> Statuses]
    BY DEF NoKeys, Statuses
  <2> QED BY <1>1, <1>2, <2>1
<1>5. Typed'
  BY <1>1, <1>2, <1>3, <1>4 DEF Typed, imVars
<1>6. CountsExact' /\ HoldsOwn' /\ \A k : Status(k)' = Status(k)
  BY <1>1, <1>2, ImKeeps
<1>7. WireSound'
  BY <1>1, <1>2, <1>3 DEF IInv, WireSound
<1>8. ASSUME NEW k \in Keys \ raced'
      PROVE  Agreed(k)'
  <2>1. /\ Agreed(k) /\ (ToldAnew(k)' <=> ToldAnew(k))
        /\ ~Held(k) => LastSays(wt', k, Status(k))
        /\ ~Held(k) /\ ~About(wt', k) /\ ToldAnew(k) /\ conn \in clients => ConnAgrees(k)
    BY <1>1 DEF IInv, Agreed, ToldAnew
  <2>2. conn' \in clients' => conn \in clients /\ (ConnAgrees(k)' <=> ConnAgrees(k))
    BY <1>1, <1>2, <1>3, <1>6 DEF ConnAgrees
  <2> QED BY <1>1, <2>1, <2>2, AgreedKeeps
<1> QED BY <1>5, <1>6, <1>7, <1>8 DEF IInv

-----------------------------------------------------------------------------
\* Nobody is connected and nothing was told.
LEMMA InitHolds ==
  ASSUME RoutingAssumption, Init
  PROVE  IInv
<1>1. /\ subscribers = [k \in Keys |-> [all |-> 0, online |-> 0]]
      /\ state = [c \in Clients |-> "out"] /\ msg = [c \in Clients |-> NoMsg]
      /\ wt = << >> /\ link = "down" /\ conn \in Conns /\ wire = [n \in Conns |-> << >>]
      /\ clients = {} /\ route = [n \in Conns |-> NoKeys] /\ raced = {} /\ ChanSize \in Nat
  BY DEF Init, RoutingAssumption
<1>2. Typed
  <2>1. NoKeys \in [Keys -> Statuses]
    BY DEF NoKeys, Statuses
  <2>2. Len(wt) = 0 /\ wt \in Seq(Messages) /\ wire \in [Conns -> Seq(Messages)]
    BY <1>1
  <2> QED BY <1>1, <2>1, <2>2 DEF Typed
<1>3. CountsExact
  <2> SUFFICES ASSUME NEW k \in Keys
               PROVE  subscribers[k] = [all    |-> Cardinality(Present(k)),
                                        online |-> Cardinality(Present(k) \cap Online)]
    BY DEF CountsExact
  <2>1. Present(k) = {} /\ Present(k) \cap Online = {}
    BY <1>1 DEF Present
  <2> QED BY <1>1, <2>1, FS_EmptySet
<1>4. HoldsOwn /\ WireSound
  BY <1>1 DEF HoldsOwn, WireSound
<1>5. ASSUME NEW k \in Keys
      PROVE  Agreed(k)
  <2>1. \A c \in Clients : ~Holds(c, k)
    BY <1>1 DEF Holds
  <2>2. Len(wt) = 0
    BY <1>1
  <2>3. LastSays(wt, k, Status(k))
    BY <2>2 DEF LastSays
  <2> QED BY <1>1, <2>1, <2>3 DEF Agreed
<1> QED BY <1>2, <1>3, <1>4, <1>5 DEF IInv

\* A step that changes nothing.
LEMMA StutterKeeps ==
  ASSUME IInv, UNCHANGED vars
  PROVE  IInv'
<1>1. /\ subscribers' = subscribers /\ state' = state /\ msg' = msg /\ wt' = wt /\ link' = link
      /\ conn' = conn /\ wire' = wire /\ clients' = clients /\ route' = route /\ raced' = raced
  BY DEF vars
<1>2. Typed' /\ HoldsOwn' /\ WireSound'
  BY <1>1 DEF IInv, Typed, HoldsOwn, WireSound
<1>3. CountsExact'
  BY <1>1 DEF IInv, CountsExact, Present
<1>4. ASSUME NEW k \in Keys \ raced'
      PROVE  Agreed(k)'
  <2>1. Agreed(k) /\ (Agreed(k)' <=> Agreed(k))
    BY <1>1 DEF IInv, Agreed, Holds, Held, Status, ToldAnew, ConnAgrees
  <2> QED BY <2>1
<1> QED BY <1>2, <1>3, <1>4 DEF IInv

\* The invariant holds in every state.
LEMMA Invariance ==
  ASSUME RoutingAssumption
  PROVE  SafetySpec => []IInv
<1>1. Init => IInv
  BY InitHolds
<1>2. IInv /\ [Next]_vars => IInv'
  <2> SUFFICES ASSUME IInv, [Next]_vars
               PROVE  IInv'
    OBVIOUS
  <2>1. ASSUME NEW c \in Clients, Subscribe(c)
        PROVE  IInv'
    BY <2>1, SubscribeKeeps
  <2>2. ASSUME NEW c \in Clients, Unsubscribe(c)
        PROVE  IInv'
    BY <2>2, UnsubscribeKeeps
  <2>3. ASSUME NEW c \in Clients, SendWt(c)
        PROVE  IInv'
    BY <2>3, SendWtKeeps
  <2>4. CASE ReSubscribeRoom
    BY <2>4, ReSubscribeRoomKeeps
  <2>5. CASE Forward
    BY <2>5, ForwardKeeps
  <2>6. CASE LinkDown
    BY <2>6, LinkDownKeeps
  <2>7. ASSUME NEW n \in Conns, Connect(n)
        PROVE  IInv'
    BY <2>7, ConnectKeeps
  <2>8. ASSUME NEW n \in Conns, Handle(n)
        PROVE  IInv'
    BY <2>8, HandleKeeps
  <2>9. ASSUME NEW n \in Conns, RemoveClient(n)
        PROVE  IInv'
    BY <2>9, RemoveClientKeeps
  <2>10. CASE UNCHANGED vars
    BY <2>10, StutterKeeps
  <2> QED BY <2>1, <2>2, <2>3, <2>4, <2>5, <2>6, <2>7, <2>8, <2>9, <2>10 DEF Next
<1> QED BY <1>1, <1>2, PTL DEF SafetySpec

\* The maps of Channel and Route keep their shape, and removeSubscribe never takes
\* a count below zero: "assert c2 >= 0" holds for any number of clients.
THEOREM RoutingTypes ==
  ASSUME RoutingAssumption
  PROVE  SafetySpec => []TypeOK
<1>1. IInv => TypeOK
  <2> SUFFICES ASSUME IInv
               PROVE  TypeOK
    OBVIOUS
  <2>1. Typed /\ CountsExact
    BY DEF IInv
  <2>2. \A k \in Keys : /\ subscribers[k].all \in 0..Cardinality(Clients)
                        /\ subscribers[k].online \in 0..Cardinality(Online)
    BY <2>1, CountsBound
  <2>3. subscribers \in [Keys -> [all : 0..Cardinality(Clients), online : 0..Cardinality(Online)]]
    <3>1. \A k \in Keys : subscribers[k] \in [all : Nat, online : Nat]
      BY <2>1 DEF Typed
    <3>2. \A k \in Keys : subscribers[k] \in [all : 0..Cardinality(Clients),
                                              online : 0..Cardinality(Online)]
      BY <2>2, <3>1
    <3> QED BY <2>1, <3>2 DEF Typed
  <2> QED BY <2>1, <2>3 DEF Typed, TypeOK
<1> QED BY <1>1, Invariance, PTL

\* Once Channel has told everything, the route server knows of every user and room
\* what their clients call for, whatever connections broke and messages were lost
\* or sent again, unless two messages about the key raced.
THEOREM RoutesAgree ==
  ASSUME RoutingAssumption
  PROVE  SafetySpec => []RouteAgrees
<1>1. IInv => RouteAgrees
  <2> SUFFICES ASSUME IInv, NEW k \in Keys \ raced, Settled(k)
               PROVE  route[conn][k] = Wanted(k)
    BY DEF RouteAgrees
  <2>1. /\ wt \in Seq(Messages) /\ wire[conn] \in Seq(Messages) /\ CountsExact /\ Agreed(k)
    BY DEF IInv, Typed
  <2>2. link = "up" /\ conn \in clients
        /\ \A m \in ToSet(wire[conn]) \cup ToSet(wt) \cup {msg[c] : c \in Clients} : m.key # k
    BY DEF Settled
  <2>3. ~Held(k)
    BY <2>2 DEF Held, Holds
  <2>4. ~About(wt, k)
    BY <2>1, <2>2 DEF About, ToSet
  <2>5. ~About(wire[conn], k)
    BY <2>1, <2>2 DEF About, ToSet
  <2>6. route[conn][k] = Status(k)
    BY <2>1, <2>2, <2>3, <2>4, <2>5 DEF Agreed, ToldAnew, ConnAgrees
  <2> QED BY <2>1, <2>6, StatusIsWanted
<1> QED BY <1>1, Invariance, PTL
===============================================================================
