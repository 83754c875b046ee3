--------------------------- MODULE DeliveryProofs ---------------------------
(***************************************************************************)
(* Proofs about PeerDelivery, for any number of users' devices, senders,   *)
(* messages and failures and any limits.                                   *)
(***************************************************************************)
EXTENDS PeerDelivery, FiniteSetTheorems, WellFoundedInduction, TLAPS

\* PeerDelivery without its fairness.
SafetySpec == Init /\ [][Next]_vars

-----------------------------------------------------------------------------
Steps    == {"save", "toReceiver", "toSender", "ack"}
Handlers == [kind : DOMAIN Work, todo : Seq(Steps), msg : Nat, msgid : Nat, msgid2 : Nat]
Items    == [kind : {"im", "notify"}, key : Nat, about : Nat]
Pieces   == [ids : SUBSET Nat, end : Nat]
Reasons  == {"untold", "dropped", "unsubscribed", "unanswered", "wrong key"}

\* The types, but for the bounds of ids, which follow from BoundOK.
Typed ==
  /\ queue \in [Users -> Seq([id : Nat, msg : Nat])]
  /\ sending \in [Senders -> Handlers \cup {None}]
  /\ sent \in 0..MaxMsgs /\ failures \in Nat /\ acked \subseteq 1..sent
  /\ net \in [Devices -> Seq(Items)]
  /\ conn \in [Devices -> {"off", "auth", "added", "in", "closed"}]
  /\ \A d \in subscribed \cup subscribing : d \in Remote /\ conn[d] \in {"in", "closed"}
  /\ messages \in [Devices -> Seq(Items)]
  /\ \A d \in Devices : Len(messages[d]) <= MESSAGE_QUEUE_LIMIT /\ Len(pwt[d]) <= PwtSize
  /\ wt \in [Devices -> Seq(Nat)] /\ pwt \in [Devices -> Seq(Pieces)]
  /\ tc \in [Devices -> BOOLEAN] /\ req \in [Devices -> Seq(Nat)]
  /\ sync_key \in [Devices -> Nat] /\ got \in [Devices -> SUBSET Nat]
  /\ excused \in [Devices -> SUBSET [id : Nat, why : Reasons]]

\* A step that a handler has still to do.
Has(h, step) == \E i \in DOMAIN h.todo : h.todo[i] = step

\* Handlers that have still to save for the sender.
Unsaved == {s \in Senders : sending[s] # None /\ Has(sending[s], "save")}

\* Ids count what the storage server holds.
QueueOK ==
  /\ IsFiniteSet(Stored(Users)) /\ IsFiniteSet(Unsaved)
  /\ Cardinality(Stored(Users)) + Cardinality(Unsaved) <= 2 * sent
  /\ \A u \in Users : /\ \A id \in Ids(u) : 0 < id /\ id < NextId(u)
                      /\ \A i, j \in DOMAIN queue[u] : i < j => queue[u][i].id < queue[u][j].id

\* Each step once, the save first and the acknowledgement last.
TodoOK(todo) ==
  /\ todo # << >> /\ \A i, j \in DOMAIN todo : todo[i] = todo[j] => i = j
  /\ \A i \in DOMAIN todo : (todo[i] = "save" => i = 1) /\ (todo[i] = "ack" => i = Len(todo))

\* The message is in the queue, and nothing kept u from being told of it.
Holds(u, id, m) ==
  /\ \E e \in ToSet(queue[u]) : e.id = id /\ e.msg = m
  /\ \A d \in Devices : UserOf[d] = u => [id |-> id, why |-> "untold"] \notin excused[d]

SavedToo(h) == ~Has(h, "save") /\ (Has(h, "toSender") \/ Has(h, "ack"))

HandlersOK ==
  \A s \in Senders : sending[s] # None =>
    LET h == sending[s] IN
    /\ TodoOK(h.todo) /\ (Has(h, "save") => Has(h, "toSender")) /\ h.msg \in 1..sent /\ h.msg \notin acked
    /\ \A t \in Senders : sending[t] # None /\ sending[t].msg = h.msg => s = t
    /\ Holds(Receiver, h.msgid, h.msg)
    /\ SavedToo(h) => Holds(Sender, h.msgid2, h.msg)

AckedOK == \A m \in acked, u \in Users : \E id \in Ids(u) : Holds(u, id, m)

Known(d) == {0} \cup Ids(UserOf[d])
End(d, asked) == AnswerKey(asked, New(d, asked))

ClientOK(d) ==
  /\ sync_key[d] \in Known(d) /\ got[d] \subseteq Ids(UserOf[d]) /\ Excused(d) \subseteq Ids(UserOf[d])
  /\ \A i \in DOMAIN req[d] : req[d][i] \in Known(d) /\ req[d][i] <= sync_key[d]
  /\ \A i \in DOMAIN pwt[d] : pwt[d][i].end \in Known(d) /\ pwt[d][i].ids \subseteq Ids(UserOf[d])

NoGap(d) ==
  /\ {id \in Ids(UserOf[d]) : id <= sync_key[d]} \subseteq got[d]
  /\ \A i \in DOMAIN pwt[d] : {id \in Ids(UserOf[d]) : id <= pwt[d][i].end} \subseteq got[d] \cup pwt[d][i].ids

\* Answers do not go back.
InOrder(d) ==
  /\ \A i, j \in DOMAIN req[d] : i <= j => req[d][i] <= req[d][j]
  /\ \A i \in DOMAIN req[d] : sync_key[d] <= End(d, req[d][i])
  /\ \A i \in DOMAIN pwt[d] : /\ pwt[d][i].end <= End(d, sync_key[d])
                              /\ \A j \in DOMAIN req[d] : pwt[d][i].end <= End(d, req[d][j])

Live(d) == conn[d] \in {"auth", "added", "in"} /\ ~tc[d]

ConnOK(d) ==
  /\ conn[d] # "in" /\ conn[d] # "closed" => ~tc[d]
  /\ conn[d] \in {"auth", "added"} => req[d] # << >>
  /\ conn[d] \in {"off", "auth"} => messages[d] = << >>

\* A notification follows the message itself, in the list or as the next on the
\* way to it.
Follows(n, item) == n.kind = "notify" /\ n.about = item.about
PairedIn(list, next) ==
  \A i \in DOMAIN list : list[i].kind = "im" =>
    \/ \E j \in DOMAIN list : i < j /\ Follows(list[j], list[i])
    \/ i = Len(list) /\ next # << >> /\ Follows(Head(next), list[i])
NetPaired(d) ==
  /\ d \notin Remote => net[d] = << >>
  /\ \A i \in DOMAIN net[d] : net[d][i].kind = "im" => i < Len(net[d]) /\ Follows(net[d][i + 1], net[d][i])
Paired(d) == PairedIn(messages[d], net[d])

ToTell(s, u, id) ==
  /\ sending[s] # None
  /\ \/ Has(sending[s], "toReceiver") /\ u = Receiver /\ id = sending[s].msgid
     \/ Has(sending[s], "toSender") /\ ~Has(sending[s], "save") /\ u = Sender /\ id = sending[s].msgid2

\* Above every key that the client has, or will have from the answers on the way.
MoreCovers(d, k) == sync_key[d] < k /\ \A i \in DOMAIN pwt[d] : pwt[d][i].end < k

\* The message is excused, or the client has it, or something on the way to the
\* client will make it ask.
Coming(d, id) ==
  \/ id <= sync_key[d] \/ id \in Excused(d) \/ req[d] # << >>
  \/ \E i \in DOMAIN pwt[d] : id <= pwt[d][i].end
  \/ \E i \in DOMAIN wt[d] : MoreCovers(d, wt[d][i])
  \/ \E i \in DOMAIN messages[d] : id <= messages[d][i].about
  \/ \E i \in DOMAIN net[d] : net[d][i].kind = "notify" /\ id <= net[d][i].about
Covered(d, id) == Coming(d, id) \/ \E s \in Senders : ToTell(s, UserOf[d], id)

DeviceOK(d) ==
  /\ ClientOK(d) /\ NoGap(d) /\ InOrder(d) /\ ConnOK(d) /\ NetPaired(d)
  /\ Live(d) => Paired(d) /\ \A id \in Ids(UserOf[d]) : Covered(d, id)

IInv == Typed /\ QueueOK /\ HandlersOK /\ AckedOK /\ \A d \in Devices : DeviceOK(d)

-----------------------------------------------------------------------------
\* A non-empty set of numbers has a least element.
LEMMA LeastElement ==
  ASSUME NEW T \in SUBSET Nat, T # {}
  PROVE  \E x \in T : \A y \in T : x <= y
<1> DEFINE R == OpToRel(<, Nat)
<1>1. IsWellFoundedOn(R, Nat)
  BY NatLessThanWellFounded
<1>2. ASSUME NEW x \in Nat, NEW y \in Nat, y < x PROVE <<y, x>> \in R
  BY <1>2 DEF OpToRel
<1> HIDE DEF R
<1>3. PICK x \in T : \A y \in T : ~ (<<y, x>> \in R)
  BY <1>1, WFMin, Zenon
<1>4. ASSUME NEW y \in T PROVE x <= y
  <2>1. x \in Nat /\ y \in Nat
    OBVIOUS
  <2>2. ~ (y < x)
    BY <1>2, <1>3, <2>1
  <2> QED BY <2>1, <2>2
<1> QED BY <1>4

\* A non-empty set of numbers with a bound has a greatest element, Max.
LEMMA MaxSays ==
  ASSUME NEW S \in SUBSET Nat, S # {}, NEW b \in Nat, \A x \in S : x <= b
  PROVE  Max(S) \in S /\ \A y \in S : y <= Max(S)
<1> DEFINE T == {n \in Nat : \A x \in S : x <= n}
<1>1. PICK n \in T : \A m \in T : n <= m
  <2>1. b \in T OBVIOUS
  <2> HIDE DEF T
  <2>2. T \in SUBSET Nat /\ T # {} BY <2>1 DEF T
  <2> QED BY <2>2, LeastElement
<1>2. n \in S
  <2> SUFFICES ASSUME n \notin S PROVE FALSE OBVIOUS
  <2>1. PICK x \in S : TRUE OBVIOUS
  <2>2. n - 1 \in Nat BY <2>1
  <2>3. \A y \in S : y <= n - 1 OBVIOUS
  <2>4. n - 1 \in T BY <2>2, <2>3
  <2> QED BY <1>1, <2>4
<1>3. \A y \in S : n >= y BY <1>1
<1>4. \E x \in S : \A y \in S : x >= y BY <1>2, <1>3
<1>5. Max(S) \in S /\ \A y \in S : Max(S) >= y BY <1>4, Zenon DEF Max
<1>6. \A x, y \in Nat : x >= y <=> y <= x OBVIOUS
<1> QED BY <1>5, <1>6

\* The answers to requests for what is after a key.
Later(S, asked) == {id \in S : id > asked}

\* An answer holds what is new up to its key; more is announced when there is more.
LEMMA AnswerSays ==
  ASSUME DeliveryAssumption, NEW S \in SUBSET Nat, NEW b \in Nat, \A x \in S : x <= b,
         NEW a \in Nat
  PROVE  LET new == Later(S, a)
             end == AnswerKey(a, new)
         IN /\ end \in {a} \cup new
            /\ InAnswer(new) = {id \in new : id <= end}
            /\ \A id \in new : id > end => HasMore(new)
<1> DEFINE new == Later(S, a)
           ans == InAnswer(new)
           end == AnswerKey(a, new)
           Rank(id) == {i \in new : i <= id}
<1>0. SyncLimit \in Nat /\ SyncLimit >= 1 BY DEF DeliveryAssumption
<1>1. new \in SUBSET Nat /\ ans \subseteq new /\ \A x \in new : x <= b BY DEF Later, InAnswer
<1>2. ans = {id \in new : Cardinality(Rank(id)) <= SyncLimit} BY DEF InAnswer
<1>3. end = IF ans = {} THEN a ELSE Max(ans) BY DEF AnswerKey, AnswerEnd
<1> HIDE DEF new, ans, end
<1>4. IsFiniteSet(new) BY <1>1, FS_BoundedSetOfNaturals
<1>5. ASSUME NEW x \in new, NEW y \in new, x <= y
      PROVE  Cardinality(Rank(x)) <= Cardinality(Rank(y)) /\ Cardinality(Rank(x)) \in Nat
                /\ Cardinality(Rank(y)) \in Nat
  <2>1. Rank(y) \in SUBSET new OBVIOUS
  <2>2. x \in Nat /\ y \in Nat BY <1>1
  <2>3. Rank(x) \in SUBSET Rank(y)
    <3> SUFFICES ASSUME NEW i \in Rank(x) PROVE i <= y OBVIOUS
    <3>1. i \in Nat /\ i <= x BY <1>1
    <3> QED BY <3>1, <2>2, <1>5
  <2> HIDE DEF Rank
  <2>4. IsFiniteSet(Rank(y)) BY <2>1, <1>4, FS_Subset
  <2>5. IsFiniteSet(Rank(x)) BY <2>3, <2>4, FS_Subset
  <2> QED BY <2>3, <2>4, <2>5, FS_Subset, FS_CardinalityType
<1>6. ASSUME new # {} PROVE ans # {}
  <2>1. PICK m \in new : \A y \in new : m <= y BY <1>1, <1>6, LeastElement
  <2>2. m \in Nat BY <1>1
  <2>3. Rank(m) = {m}
    <3>1. \A i \in new : i \in Nat /\ m <= i BY <1>1, <2>1
    <3>2. \A i \in new : i <= m => i = m BY <3>1, <2>2
    <3>3. m \in Rank(m) BY <2>2
    <3> QED BY <3>2, <3>3
  <2>4. Cardinality(Rank(m)) = 1 BY <2>3, FS_Singleton
  <2> QED BY <1>0, <1>2, <2>4
<1>7. ASSUME ans # {} PROVE end \in ans /\ \A y \in ans : y <= end
  <2>1. ans \in SUBSET Nat /\ \A x \in ans : x <= b BY <1>1
  <2> QED BY <1>3, <1>7, <2>1, MaxSays
<1>8. end \in {a} \cup new BY <1>1, <1>3, <1>7
<1>9. ASSUME NEW id \in new PROVE id \in ans <=> id <= end
  <2>1. ans # {} BY <1>6
  <2>2. end \in ans /\ end \in new BY <1>7, <2>1, <1>1
  <2>3. ASSUME id <= end PROVE id \in ans
    <3>1. Cardinality(Rank(id)) <= Cardinality(Rank(end)) /\ Cardinality(Rank(id)) \in Nat
            /\ Cardinality(Rank(end)) \in Nat
      BY <1>5, <2>2, <2>3
    <3>2. Cardinality(Rank(end)) <= SyncLimit BY <2>2, <1>2
    <3>3. Cardinality(Rank(id)) <= SyncLimit BY <3>1, <3>2, <1>0
    <3> QED BY <3>3, <1>2
  <2> QED BY <2>3, <2>1, <1>7
<1>10. ASSUME NEW id \in new, id > end PROVE HasMore(new)
  <2>0. id \in Nat /\ end \in Nat BY <1>8, <1>1
  <2>1. id \notin ans BY <1>9, <1>10, <2>0
  <2>2. ~(Cardinality(Rank(id)) <= SyncLimit) BY <2>1, <1>2
  <2>3. Rank(id) \in SUBSET new OBVIOUS
  <2> HIDE DEF Rank
  <2>4. Cardinality(Rank(id)) <= Cardinality(new) /\ Cardinality(new) \in Nat
          /\ IsFiniteSet(Rank(id))
    BY <2>3, <1>4, FS_Subset, FS_CardinalityType
  <2>5. Cardinality(Rank(id)) \in Nat BY <2>4, FS_CardinalityType
  <2> QED BY <2>2, <2>4, <2>5, <1>0 DEF HasMore
<1> QED BY <1>1, <1>8, <1>9, <1>10 DEF new, ans, end

\* A later request, or one that is answered later, gets no smaller key.
LEMMA AnswerGrows ==
  ASSUME DeliveryAssumption, NEW T \in SUBSET Nat, NEW b \in Nat, \A x \in T : x <= b,
         NEW S \in SUBSET T, \A x \in S, y \in T \ S : x < y,
         NEW a1 \in Nat, NEW a2 \in Nat, a1 <= a2
  PROVE  AnswerKey(a1, Later(S, a1)) <= AnswerKey(a2, Later(T, a2))
<1> DEFINE n1 == Later(S, a1)
           n2 == Later(T, a2)
           e1 == AnswerKey(a1, n1)
           e2 == AnswerKey(a2, n2)
<1>0. SyncLimit \in Nat /\ SyncLimit >= 1 BY DEF DeliveryAssumption
<1>1. /\ e1 \in {a1} \cup n1 /\ InAnswer(n1) = {id \in n1 : id <= e1}
      /\ e2 \in {a2} \cup n2 /\ InAnswer(n2) = {id \in n2 : id <= e2}
  <2>1. S \in SUBSET Nat /\ \A x \in S : x <= b OBVIOUS
  <2> QED BY <2>1, AnswerSays
<1>2. n1 \subseteq S /\ n2 \subseteq T /\ (\A x \in n1 : x > a1) /\ (\A x \in n2 : x > a2) BY DEF Later
<1> HIDE DEF n1, n2, e1, e2
<1>3. e1 \in Nat /\ e2 \in Nat /\ e2 >= a2
  <2>1. n1 \in SUBSET Nat /\ n2 \in SUBSET Nat BY <1>2
  <2>2. e1 \in Nat BY <1>1, <2>1
  <2>3. CASE e2 = a2 BY <2>2, <2>3
  <2>4. CASE e2 \in n2
    <3>1. e2 > a2 /\ e2 \in Nat BY <2>4, <1>2, <2>1
    <3> QED BY <3>1, <2>2
  <2> QED BY <2>3, <2>4, <1>1
<1>4. SUFFICES ASSUME e1 \in n1, e1 > a2 PROVE e1 <= e2
  BY <1>1, <1>3 DEF e1, e2, n1, n2
<1>5. e1 \in n2 BY <1>4, <1>2 DEF Later, n2
<1>6. e1 \in InAnswer(n1) BY <1>1, <1>4, <1>3
<1> DEFINE R1 == {i \in n1 : i <= e1}
           R2 == {i \in n2 : i <= e1}
<1>7. R2 \in SUBSET R1
  <2> SUFFICES ASSUME NEW i \in R2 PROVE i \in R1 OBVIOUS
  <2>1. i \in T /\ i > a2 /\ i <= e1 /\ i \in Nat BY <1>2
  <2>2. e1 \in S BY <1>4, <1>2
  <2>3. i \in S BY <2>1, <2>2, <1>3
  <2>4. i > a1 BY <2>1
  <2> QED BY <2>1, <2>3, <2>4 DEF Later, n1
<1>8. Cardinality(R1) <= SyncLimit BY <1>6 DEF InAnswer
<1>9. IsFiniteSet(R1)
  <2>1. R1 \in SUBSET Nat /\ \A x \in R1 : x <= b BY <1>2
  <2> HIDE DEF R1
  <2> QED BY <2>1, FS_BoundedSetOfNaturals
<1>10. Cardinality(R2) <= SyncLimit
  <2> HIDE DEF R1, R2
  <2>1. IsFiniteSet(R2) /\ Cardinality(R2) <= Cardinality(R1) BY <1>7, <1>9, FS_Subset
  <2>2. Cardinality(R2) \in Nat /\ Cardinality(R1) \in Nat BY <2>1, <1>9, FS_CardinalityType
  <2> QED BY <1>8, <2>1, <2>2, <1>0
<1>11. e1 \in InAnswer(n2) BY <1>5, <1>10 DEF InAnswer
<1> QED BY <1>11, <1>1

-----------------------------------------------------------------------------
\* A list without its first element.
LEMMA TailSays ==
  ASSUME NEW S, NEW s \in Seq(S), s # << >>
  PROVE  /\ Tail(s) \in Seq(S) /\ Len(Tail(s)) = Len(s) - 1 /\ Head(s) = s[1] /\ s[1] \in S
         /\ Len(s) \in Nat \ {0} /\ \A i \in 1..Len(s) - 1 : Tail(s)[i] = s[i + 1]
OBVIOUS

\* A list with one element more.
LEMMA AppendSays ==
  ASSUME NEW S, NEW s \in Seq(S), NEW x \in S
  PROVE  /\ Append(s, x) \in Seq(S) /\ Len(Append(s, x)) = Len(s) + 1 /\ Len(s) \in Nat
         /\ Append(s, x)[Len(s) + 1] = x /\ \A i \in 1..Len(s) : Append(s, x)[i] = s[i]
OBVIOUS

\* A list behind another.
LEMMA ConcatSays ==
  ASSUME NEW S, NEW s \in Seq(S), NEW t \in Seq(S)
  PROVE  /\ s \o t \in Seq(S) /\ Len(s \o t) = Len(s) + Len(t) /\ Len(s) \in Nat /\ Len(t) \in Nat
         /\ \A i \in 1..Len(s) : (s \o t)[i] = s[i]
         /\ \A i \in 1..Len(t) : (s \o t)[Len(s) + i] = t[i]
OBVIOUS

\* A list that was shortened is the end of what it was.
LEMMA ShortenedSays ==
  ASSUME DeliveryAssumption, NEW S, NEW list \in Seq(S)
  PROVE  /\ Shortened(list) \in Seq(S) /\ Len(Shortened(list)) <= MESSAGE_QUEUE_LIMIT
         /\ \E k \in 0..Len(list) :
              /\ Len(Shortened(list)) = Len(list) - k
              /\ \A i \in 1..Len(list) - k : Shortened(list)[i] = list[i + k]
         /\ list # << >> => Shortened(list) # << >> /\ Shortened(list)[Len(Shortened(list))] = list[Len(list)]
<1> DEFINE L == MESSAGE_QUEUE_LIMIT
           n == Len(list)
<1>1. L \in Nat /\ L >= 1 /\ n \in Nat BY DEF DeliveryAssumption
<1>2. CASE n > L
  <2>1. Shortened(list) = SubSeq(list, n - L + 1, n) BY <1>2 DEF Shortened
  <2>2. n - L + 1 \in 1..n /\ n - L \in 0..n BY <1>1, <1>2
  <2>3. SubSeq(list, n - L + 1, n) \in Seq(S) /\ Len(SubSeq(list, n - L + 1, n)) = L
    BY <2>2, <1>1
  <2>4. \A i \in 1..L : SubSeq(list, n - L + 1, n)[i] = list[i + (n - L)]
    BY <2>2, <2>3, <1>1
  <2> HIDE DEF L, n
  <2>5. Len(Shortened(list)) = n - (n - L) /\ \A i \in 1..n - (n - L) : Shortened(list)[i] = list[i + (n - L)]
    BY <2>1, <2>3, <2>4, <1>1
  <2>6. Shortened(list)[L] = list[n]
    BY <2>1, <2>4, <1>1
  <2>7. Shortened(list) \in Seq(S) /\ Len(Shortened(list)) = L BY <2>1, <2>3
  <2>8. Shortened(list) # << >> BY <2>7, <1>1
  <2>9. \E k \in 0..n :
          /\ Len(Shortened(list)) = n - k
          /\ \A i \in 1..n - k : Shortened(list)[i] = list[i + k]
    BY <2>2, <2>5
  <2>10. L <= L BY <1>1
  <2> QED BY <2>6, <2>7, <2>8, <2>9, <2>10 DEF n, L
<1>3. CASE ~(n > L)
  <2>1. Shortened(list) = list BY <1>3 DEF Shortened
  <2>2. n = n - 0 /\ \A i \in 1..n - 0 : list[i] = list[i + 0] BY <1>1
  <2>3. 0 \in 0..n /\ n <= L BY <1>1, <1>3
  <2>4. \E k \in 0..n : n = n - k /\ \A i \in 1..n - k : list[i] = list[i + k]
    BY <2>2, <2>3, Zenon
  <2> QED BY <2>1, <2>3, <2>4
<1> QED BY <1>2, <1>3

\* No handler is None.
LEMMA NoneSays == DeliveryAssumption => None \notin Handlers
BY DEF DeliveryAssumption, Handlers, Steps

\* What the handlers do.
LEMMA WorkSays ==
  ASSUME NEW k \in DOMAIN Work
  PROVE  /\ Work[k] \in Seq(Steps) /\ TodoOK(Work[k])
         /\ \E i \in DOMAIN Work[k] : Work[k][i] = "toReceiver"
         /\ \A i \in DOMAIN Work[k] : Work[k][i] \in {"toSender", "ack"} =>
              (\E j \in DOMAIN Work[k] : Work[k][j] = "save")
         /\ \A i \in DOMAIN Work[k] : Work[k][i] = "save" =>
              (\E j \in DOMAIN Work[k] : Work[k][j] = "toSender")
<1>1. k \in {"im", "customer", "http", "support", "system"} BY DEF Work
<1>2. Work[k] \in {HandleIMMessage, SendIMMessage, SendCustomerSupportMessage, SendSystemMessage}
  BY <1>1 DEF Work, CustomerClientMessage, HandleIMMessage
<1>3. CASE Work[k] = HandleIMMessage
  BY <1>3 DEF HandleIMMessage, TodoOK, Steps
<1>4. CASE Work[k] = SendIMMessage
  BY <1>4 DEF SendIMMessage, TodoOK, Steps
<1>5. CASE Work[k] = SendCustomerSupportMessage
  BY <1>5 DEF SendCustomerSupportMessage, TodoOK, Steps
<1>6. CASE Work[k] = SendSystemMessage
  BY <1>6 DEF SendSystemMessage, TodoOK, Steps
<1> QED BY <1>2, <1>3, <1>4, <1>5, <1>6

\* A handler that did a step has the others still to do; None has nothing to do.
LEMMA DoneSays ==
  ASSUME DeliveryAssumption, NEW h \in Handlers, TodoOK(h.todo)
  PROVE  /\ Has(h, Head(h.todo))
         /\ \/ Done(h) = None /\ \A step : Has(h, step) => step = Head(h.todo)
            \/ /\ Done(h) \in Handlers /\ Done(h) # None /\ TodoOK(Done(h).todo) /\ Head(h.todo) # "ack"
               /\ \A step : Has(Done(h), step) <=> Has(h, step) /\ step # Head(h.todo)
               /\ Done(h).kind = h.kind /\ Done(h).msg = h.msg
               /\ Done(h).msgid = h.msgid /\ Done(h).msgid2 = h.msgid2
<1> DEFINE t == h.todo
           g == [kind |-> h.kind, todo |-> Tail(t), msg |-> h.msg, msgid |-> h.msgid, msgid2 |-> h.msgid2]
<1>1. t \in Seq(Steps) /\ t # << >> BY DEF Handlers, TodoOK
<1>2. /\ Tail(t) \in Seq(Steps) /\ Len(Tail(t)) = Len(t) - 1 /\ Head(t) = t[1] /\ t[1] \in Steps
      /\ Len(t) \in Nat \ {0} /\ \A i \in 1..Len(t) - 1 : Tail(t)[i] = t[i + 1]
  BY <1>1, TailSays
<1>3. DOMAIN t = 1..Len(t) BY <1>1
<1>4. Has(h, Head(t)) BY <1>2, <1>3 DEF Has
<1>5. CASE Len(t) = 1
  <2>1. Done(h) = None BY <1>5 DEF Done
  <2>2. \A step : Has(h, step) => step = Head(t) BY <1>2, <1>3, <1>5 DEF Has
  <2> QED BY <2>1, <2>2, <1>4
<1>6. CASE Len(t) # 1
  <2>1. Done(h) = g
    <3>1. h = [kind |-> h.kind, todo |-> t, msg |-> h.msg, msgid |-> h.msgid, msgid2 |-> h.msgid2]
      BY DEF Handlers
    <3>2. Done(h) = [h EXCEPT !.todo = Tail(@)] BY <1>6 DEF Done
    <3> QED BY <3>1, <3>2
  <2>2. g \in Handlers BY <1>2 DEF Handlers
  <2>3. g # None BY <2>2, NoneSays
  <2>4. DOMAIN Tail(t) = 1..Len(t) - 1 BY <1>2
  <2>5. \A i, j \in DOMAIN t : t[i] = t[j] => i = j BY DEF TodoOK
  <2>6. \A i \in DOMAIN t : (t[i] = "save" => i = 1) /\ (t[i] = "ack" => i = Len(t)) BY DEF TodoOK
  <2>7. TodoOK(Tail(t))
    <3>1. Tail(t) # << >>
      <4>1. Len(Tail(t)) # 0 BY <1>2, <1>6
      <4> HIDE DEF t
      <4>2. Len(<< >>) = 0 OBVIOUS
      <4> QED BY <4>1, <4>2
    <3>2. ASSUME NEW i \in DOMAIN Tail(t)
          PROVE  i + 1 \in DOMAIN t /\ Tail(t)[i] = t[i + 1] /\ i \in Nat \ {0}
      BY <1>2, <1>3, <2>4
    <3>3. ASSUME NEW i \in DOMAIN Tail(t), NEW j \in DOMAIN Tail(t), Tail(t)[i] = Tail(t)[j]
          PROVE  i = j
      <4>1. i + 1 = j + 1 BY <3>2, <3>3, <2>5
      <4> QED BY <4>1, <3>2
    <3>4. ASSUME NEW i \in DOMAIN Tail(t)
          PROVE  (Tail(t)[i] = "save" => i = 1) /\ (Tail(t)[i] = "ack" => i = Len(Tail(t)))
      BY <3>2, <2>6, <1>2
    <3> HIDE DEF t
    <3> QED BY <3>1, <3>3, <3>4 DEF TodoOK
  <2>8. ASSUME NEW step PROVE Has(g, step) <=> Has(h, step) /\ step # Head(t)
    <3>1. ASSUME NEW i \in DOMAIN Tail(t), Tail(t)[i] = step PROVE Has(h, step) /\ step # Head(t)
      <4>1. i + 1 \in DOMAIN t /\ t[i + 1] = step /\ i + 1 # 1 BY <3>1, <1>2, <1>3, <2>4
      <4>2. t[i + 1] # t[1] BY <4>1, <2>5, <1>2, <1>3
      <4> QED BY <4>1, <4>2, <1>2 DEF Has
    <3>2. ASSUME NEW i \in DOMAIN t, t[i] = step, step # Head(t)
          PROVE  \E j \in DOMAIN Tail(t) : Tail(t)[j] = step
      <4>1. i # 1 BY <3>2, <1>2
      <4>2. i - 1 \in DOMAIN Tail(t) /\ Tail(t)[i - 1] = t[i] BY <4>1, <1>2, <1>3, <2>4
      <4> QED BY <4>2, <3>2
    <3> QED BY <3>1, <3>2 DEF Has
  <2>9. Head(t) # "ack" 
    <3>1. 1 \in DOMAIN t BY <1>2, <1>3
    <3> QED BY <3>1, <1>2, <1>6, <2>6
  <2>10. /\ g.todo = Tail(t) /\ g.kind = h.kind /\ g.msg = h.msg
         /\ g.msgid = h.msgid /\ g.msgid2 = h.msgid2
    OBVIOUS
  <2> HIDE DEF t, g
  <2> QED BY <2>1, <2>2, <2>3, <2>7, <2>8, <2>9, <2>10, <1>4 DEF t
<1> QED BY <1>5, <1>6

-----------------------------------------------------------------------------
\* The users whose queues one storage server holds.
Same(u) == {v \in Users : StoreOf[v] = StoreOf[u]}

\* Pairs of a user and an id.
LEMMA StoredSays ==
  ASSUME NEW W, NEW p
  PROVE  p \in Stored(W) <=> \E v \in W : \E id \in Ids(v) : p = <<v, id>>
BY DEF Stored

\* What the queues are, but for the counts.
QueueTypes ==
  /\ queue \in [Users -> Seq([id : Nat, msg : Nat])]
  /\ IsFiniteSet(Stored(Users))
  /\ \A u \in Users : /\ \A id \in Ids(u) : 0 < id /\ id < NextId(u)
                      /\ \A i, j \in DOMAIN queue[u] : i < j => queue[u][i].id < queue[u][j].id

\* What the types of the queues say of one of them.
LEMMA QueueFacts ==
  ASSUME QueueTypes, NEW u \in Users
  PROVE  /\ queue[u] \in Seq([id : Nat, msg : Nat]) /\ DOMAIN queue[u] = 1..Len(queue[u])
         /\ Ids(u) \in SUBSET Nat /\ \A id \in Ids(u) : 0 < id /\ id < NextId(u)
         /\ NextId(u) \in Nat \ {0} /\ NextId(u) \notin Ids(u)
         /\ Stored(Same(u)) \in SUBSET Stored(Users) /\ IsFiniteSet(Stored(Same(u)))
         /\ NextId(u) = 1 + Cardinality(Stored(Same(u)))
         /\ Cardinality(Stored(Same(u))) <= Cardinality(Stored(Users))
         /\ Cardinality(Stored(Users)) \in Nat
<1>1. queue[u] \in Seq([id : Nat, msg : Nat]) BY DEF QueueTypes
<1>2. DOMAIN queue[u] = 1..Len(queue[u]) /\ \A i \in DOMAIN queue[u] : queue[u][i] \in [id : Nat, msg : Nat]
  <2> DEFINE q == queue[u]
             E == [id : Nat, msg : Nat]
  <2>1. q \in Seq(E) BY <1>1
  <2> HIDE DEF q, E
  <2>2. DOMAIN q = 1..Len(q) /\ \A i \in DOMAIN q : q[i] \in E BY <2>1
  <2> QED BY <2>2 DEF q, E
<1>3. Ids(u) \in SUBSET Nat BY <1>2 DEF Ids, ToSet
<1>4. \A id \in Ids(u) : 0 < id /\ id < NextId(u) BY DEF QueueTypes
<1>5. Stored(Same(u)) \in SUBSET Stored(Users) BY DEF Stored, Same
<1>6. NextId(u) = 1 + Cardinality(Stored(Same(u))) BY DEF NextId, Same
<1>7. IsFiniteSet(Stored(Users)) BY DEF QueueTypes
<1>8. IsFiniteSet(Stored(Same(u))) /\ Cardinality(Stored(Same(u))) <= Cardinality(Stored(Users))
  BY <1>5, <1>7, FS_Subset
<1>9. Cardinality(Stored(Same(u))) \in Nat /\ Cardinality(Stored(Users)) \in Nat
  BY <1>7, <1>8, FS_CardinalityType
<1>10. NextId(u) \in Nat \ {0} BY <1>6, <1>9
<1>11. NextId(u) \notin Ids(u) BY <1>4, <1>10
<1> QED BY <1>1, <1>2, <1>3, <1>4, <1>5, <1>6, <1>8, <1>9, <1>10, <1>11

\* A message that is saved gets the largest id of the storage server.
LEMMA SavedSays ==
  ASSUME QueueTypes, NEW u \in Users, NEW m \in Nat, Saved(u, m)
  PROVE  /\ QueueTypes'
         /\ Ids(u)' = Ids(u) \cup {NextId(u)}
         /\ ToSet(queue[u])' = ToSet(queue[u]) \cup {[id |-> NextId(u), msg |-> m]}
         /\ \A v \in Users : v # u => queue'[v] = queue[v]
         /\ Cardinality(Stored(Users))' = Cardinality(Stored(Users)) + 1
<1> DEFINE n == NextId(u)
           e == [id |-> n, msg |-> m]
           q == queue[u]
<1>1. /\ q \in Seq([id : Nat, msg : Nat]) /\ DOMAIN q = 1..Len(q)
      /\ Ids(u) \in SUBSET Nat /\ \A id \in Ids(u) : 0 < id /\ id < n
      /\ n \in Nat \ {0} /\ n \notin Ids(u)
  BY QueueFacts
<1>2. queue' = [queue EXCEPT ![u] = Append(q, e)] BY DEF Saved
<1>3. queue \in [Users -> Seq([id : Nat, msg : Nat])] BY DEF QueueTypes
<1>4. queue'[u] = Append(q, e) /\ \A v \in Users : v # u => queue'[v] = queue[v] BY <1>2, <1>3
<1>5. e \in [id : Nat, msg : Nat] BY <1>1
<1> HIDE DEF e, q
<1>6. /\ Append(q, e) \in Seq([id : Nat, msg : Nat]) /\ Len(Append(q, e)) = Len(q) + 1 /\ Len(q) \in Nat
      /\ Append(q, e)[Len(q) + 1] = e /\ \A i \in 1..Len(q) : Append(q, e)[i] = q[i]
  BY <1>1, <1>5, AppendSays
<1>7. DOMAIN Append(q, e) = 1..Len(q) + 1 BY <1>6
<1>8. queue' \in [Users -> Seq([id : Nat, msg : Nat])] BY <1>2, <1>3, <1>6 DEF q
<1>9. ToSet(queue'[u]) = ToSet(q) \cup {e}
  <2>1. ASSUME NEW x \in ToSet(queue'[u]) PROVE x \in ToSet(q) \cup {e}
    BY <2>1, <1>1, <1>4, <1>6, <1>7 DEF ToSet
  <2>2. ASSUME NEW x \in ToSet(q) \cup {e} PROVE x \in ToSet(queue'[u])
    <3>1. CASE x = e
      <4>1. Len(q) + 1 \in 1..Len(q) + 1 BY <1>6
      <4> QED BY <4>1, <3>1, <1>4, <1>6, <1>7 DEF ToSet
    <3>2. CASE x # e
      <4>1. PICK i \in 1..Len(q) : x = q[i] BY <2>2, <3>2, <1>1 DEF ToSet
      <4>2. i \in 1..Len(q) + 1 /\ Append(q, e)[i] = x BY <4>1, <1>6
      <4> QED BY <4>2, <1>4, <1>7 DEF ToSet
    <3> QED BY <3>1, <3>2
  <2> QED BY <2>1, <2>2
<1>10. Ids(u)' = Ids(u) \cup {n}
  <2>1. e.id = n BY DEF e
  <2> QED BY <2>1, <1>9 DEF Ids, q
<1>11. \A v \in Users : v # u => Ids(v)' = Ids(v) BY <1>4 DEF Ids
<1>12. ASSUME NEW W \in SUBSET Users
       PROVE  Stored(W)' = IF u \in W THEN Stored(W) \cup {<<u, n>>} ELSE Stored(W)
  <2>1. Stored(W)' = UNION {{<<v, id>> : id \in Ids(v)'} : v \in W} BY DEF Stored
  <2>2. ASSUME NEW p \in Stored(W)' PROVE p \in Stored(W) \/ (u \in W /\ p = <<u, n>>)
    <3>1. PICK v \in W : \E id \in Ids(v)' : p = <<v, id>> BY <2>1, <2>2
    <3>2. PICK id \in Ids(v)' : p = <<v, id>> BY <3>1
    <3>3. CASE v = u
      BY <3>2, <3>3, <1>10 DEF Stored
    <3>4. CASE v # u
      BY <3>2, <3>4, <1>11 DEF Stored
    <3> QED BY <3>3, <3>4
  <2>3. ASSUME NEW p \in Stored(W) PROVE p \in Stored(W)'
    <3>1. PICK v \in W : \E id \in Ids(v) : p = <<v, id>> BY StoredSays
    <3>2. PICK id \in Ids(v) : p = <<v, id>> BY <3>1
    <3>3. id \in Ids(v)' BY <1>10, <1>11
    <3> QED BY <3>2, <3>3, <2>1
  <2>4. ASSUME u \in W PROVE <<u, n>> \in Stored(W)'
    BY <2>4, <2>1, <1>10
  <2> QED BY <2>2, <2>3, <2>4
<1>13. <<u, n>> \notin Stored(Users)
  <2> SUFFICES ASSUME <<u, n>> \in Stored(Users) PROVE FALSE OBVIOUS
  <2>1. PICK v \in Users : \E id \in Ids(v) : <<u, n>> = <<v, id>> BY StoredSays
  <2> QED BY <2>1, <1>1
<1>14. IsFiniteSet(Stored(Users)) /\ Cardinality(Stored(Users)) \in Nat BY QueueFacts DEF QueueTypes
<1>15. Stored(Users)' = Stored(Users) \cup {<<u, n>>} BY <1>12
<1>16. IsFiniteSet(Stored(Users))' /\ Cardinality(Stored(Users))' = Cardinality(Stored(Users)) + 1
  <2> DEFINE T == Stored(Users)
  <2> HIDE DEF T, n
  <2>1. IsFiniteSet(T \cup {<<u, n>>}) /\ Cardinality(T \cup {<<u, n>>}) = Cardinality(T) + 1
    BY <1>13, <1>14, FS_AddElement DEF T
  <2> QED BY <2>1, <1>15 DEF T
<1>17. ASSUME NEW v \in Users
       PROVE  /\ NextId(v) \in Nat
              /\ NextId(v)' = IF v \in Same(u) THEN NextId(v) + 1 ELSE NextId(v)
              /\ v \in Same(u) => NextId(v) = n
  <2>1. IsFiniteSet(Stored(Same(v))) /\ Stored(Same(v)) \in SUBSET Stored(Users)
        /\ NextId(v) = 1 + Cardinality(Stored(Same(v))) /\ NextId(v) \in Nat
    BY QueueFacts
  <2>2. NextId(v)' = 1 + Cardinality(Stored(Same(v))') BY DEF NextId, Same, Stored
  <2>3. u \in Same(v) <=> v \in Same(u) BY DEF Same
  <2>4. Stored(Same(v))' = IF u \in Same(v) THEN Stored(Same(v)) \cup {<<u, n>>} ELSE Stored(Same(v))
    <3>1. Same(v) \in SUBSET Users BY DEF Same
    <3> QED BY <3>1, <1>12 DEF Same, Stored
  <2>5. <<u, n>> \notin Stored(Same(v)) BY <2>1, <1>13
  <2>6. CASE u \in Same(v)
    <3> DEFINE T == Stored(Same(v))
    <3> HIDE DEF T, n
    <3>1. Cardinality(T \cup {<<u, n>>}) = Cardinality(T) + 1 /\ Cardinality(T) \in Nat
      BY <2>1, <2>5, FS_AddElement, FS_CardinalityType DEF T
    <3>2. NextId(v)' = NextId(v) + 1 BY <3>1, <2>1, <2>2, <2>4, <2>6 DEF T
    <3>3. Same(v) = Same(u) BY <2>6 DEF Same
    <3>4. NextId(v) = n BY <3>3, <2>1, QueueFacts DEF n
    <3> QED BY <3>2, <3>4, <2>1, <2>3, <2>6
  <2>7. CASE u \notin Same(v) BY <2>1, <2>2, <2>3, <2>4, <2>7
  <2> QED BY <2>6, <2>7
<1>18. ASSUME NEW v \in Users, NEW id \in Ids(v)' PROVE 0 < id /\ id < NextId(v)'
  <2>1. \A i \in Ids(v) : i \in Nat /\ 0 < i /\ i < NextId(v) BY QueueFacts
  <2>2. u \in Same(u) BY DEF Same
  <2>3. id \in Ids(v) \/ (v = u /\ id = n) BY <1>10, <1>11
  <2>4. CASE id \in Ids(v) BY <2>1, <2>4, <1>17
  <2>5. CASE v = u /\ id = n BY <2>2, <2>5, <1>1, <1>17
  <2> QED BY <2>3, <2>4, <2>5
<1>19. ASSUME NEW v \in Users, NEW i \in DOMAIN queue'[v], NEW j \in DOMAIN queue'[v], i < j
       PROVE  queue'[v][i].id < queue'[v][j].id
  <2>1. CASE v # u
    BY <2>1, <1>4, <1>19 DEF QueueTypes
  <2>2. CASE v = u
    <3>1. i \in 1..Len(q) + 1 /\ j \in 1..Len(q) + 1 BY <2>2, <1>4, <1>7
    <3>2. i \in 1..Len(q) BY <3>1, <1>6, <1>19
    <3>3. q[i] = Append(q, e)[i] /\ q[i].id \in Ids(u)
      BY <3>2, <1>1, <1>6 DEF Ids, ToSet, q
    <3>4. CASE j \in 1..Len(q)
      <4>1. q[i].id < q[j].id BY <3>2, <3>4, <1>1, <1>19 DEF QueueTypes, q
      <4> QED BY <4>1, <3>3, <3>4, <2>2, <1>4, <1>6
    <3>5. CASE j = Len(q) + 1
      <4>1. queue'[u][j].id = n BY <3>5, <1>4, <1>6 DEF e
      <4>2. q[i].id < n BY <3>3, <1>1
      <4> QED BY <4>1, <4>2, <3>3, <2>2, <1>4
    <3> QED BY <3>1, <3>4, <3>5, <1>6
  <2> QED BY <2>1, <2>2
<1>20. QueueTypes'
  BY <1>8, <1>16, <1>18, <1>19 DEF QueueTypes
<1> QED BY <1>4, <1>9, <1>10, <1>16, <1>20 DEF e, q

-----------------------------------------------------------------------------
\* One entry of a queue has an id.
LEMMA IdIsUnique ==
  ASSUME QueueTypes, NEW u \in Users, NEW e \in ToSet(queue[u]), NEW f \in ToSet(queue[u]), e.id = f.id
  PROVE  e = f
<1>1. PICK i \in DOMAIN queue[u] : e = queue[u][i] BY DEF ToSet
<1>2. PICK j \in DOMAIN queue[u] : f = queue[u][j] BY DEF ToSet
<1>3. \A k, l \in DOMAIN queue[u] : k < l => queue[u][k].id < queue[u][l].id BY DEF QueueTypes
<1>4. i \in Nat /\ j \in Nat /\ e.id \in Nat
  <2>1. DOMAIN queue[u] = 1..Len(queue[u]) /\ Ids(u) \in SUBSET Nat BY QueueFacts
  <2>2. e.id \in Ids(u) BY DEF Ids
  <2> QED BY <2>1, <2>2
<1>5. ~(i < j) /\ ~(j < i) BY <1>1, <1>2, <1>3, <1>4
<1>6. i = j BY <1>4, <1>5
<1> QED BY <1>1, <1>2, <1>6

\* QueueOK has the types of the queues.
LEMMA QueueSays ==
  ASSUME Typed, QueueOK
  PROVE  QueueTypes
BY DEF Typed, QueueOK, QueueTypes

\* The devices of a user are excused only from what is in the user's queue.
ExcusedKnown == \A d \in Devices : Excused(d) \subseteq Ids(UserOf[d])

\* Nothing is added to what nobody was told of.
NoneUntold == \A d \in Devices : \A e \in excused'[d] : e \in excused[d] \/ e.why # "untold"

\* Holds, of the next state.
HoldsNext(u, id, m) ==
  /\ \E e \in ToSet(queue'[u]) : e.id = id /\ e.msg = m
  /\ \A d \in Devices : UserOf[d] = u => [id |-> id, why |-> "untold"] \notin excused'[d]

\* An entry stays in its queue; unless something comes between, the user was told.
LEMMA HoldsKept ==
  ASSUME NEW u \in Users, NEW id, NEW m, Holds(u, id, m), ToSet(queue[u]) \subseteq ToSet(queue'[u]),
         \A d \in Devices : UserOf[d] = u /\ [id |-> id, why |-> "untold"] \in excused'[d]
                               => [id |-> id, why |-> "untold"] \in excused[d]
  PROVE  HoldsNext(u, id, m)
<1>1. \E e \in ToSet(queue'[u]) : e.id = id /\ e.msg = m BY DEF Holds
<1>2. \A d \in Devices : UserOf[d] = u => [id |-> id, why |-> "untold"] \notin excused'[d] BY DEF Holds
<1> QED BY <1>1, <1>2 DEF HoldsNext

\* An entry stays as it is in a step that saves nothing and loses no notification
\* to a failed save.
LEMMA HoldsStays ==
  ASSUME NEW u \in Users, NEW id, NEW m, Holds(u, id, m), UNCHANGED queue, NoneUntold
  PROVE  HoldsNext(u, id, m)
<1>1. \A d \in Devices : [id |-> id, why |-> "untold"] \in excused'[d]
        => [id |-> id, why |-> "untold"] \in excused[d]
  BY DEF NoneUntold
<1> QED BY <1>1, HoldsKept

\* A handler that is at a step.
LEMMA HandlerSays ==
  ASSUME DeliveryAssumption, Typed, HandlersOK, NEW s \in Senders, sending[s] # None
  PROVE  /\ sending[s] \in Handlers /\ TodoOK(sending[s].todo) /\ sending[s].todo \in Seq(Steps)
         /\ sending[s].todo # << >> /\ sending[s].kind \in DOMAIN Work
         /\ sending[s].msg \in Nat /\ sending[s].msgid \in Nat /\ sending[s].msgid2 \in Nat
         /\ Has(sending[s], "save") => Has(sending[s], "toSender") /\ Head(sending[s].todo) = "save"
<1>1. sending[s] \in Handlers BY DEF Typed
<1>2. TodoOK(sending[s].todo) /\ (Has(sending[s], "save") => Has(sending[s], "toSender"))
  BY DEF HandlersOK
<1>3. sending[s].todo \in Seq(Steps) /\ sending[s].todo # << >> BY <1>1, <1>2 DEF Handlers, TodoOK
<1>4. ASSUME Has(sending[s], "save") PROVE Head(sending[s].todo) = "save"
  <2>1. PICK i \in DOMAIN sending[s].todo : sending[s].todo[i] = "save" BY <1>4 DEF Has
  <2>2. i = 1 BY <2>1, <1>2 DEF TodoOK
  <2> QED BY <2>1, <2>2, <1>3, TailSays
<1> QED BY <1>1, <1>2, <1>3, <1>4 DEF Handlers

\* The id of the storage server and the entries a handler made.
LEMMA HandlerIds ==
  ASSUME DeliveryAssumption, Typed, HandlersOK, NEW s \in Senders, sending[s] # None
  PROVE  /\ sending[s].msgid \in Ids(Receiver)
         /\ SavedToo(sending[s]) => sending[s].msgid2 \in Ids(Sender)
BY DEF HandlersOK, Holds, Ids

\* A step of a handler that saves nothing leaves the queues in order.
LEMMA CountsKept ==
  ASSUME Typed, QueueOK, UNCHANGED <<queue, sent>>, Unsaved' \subseteq Unsaved
  PROVE  QueueOK'
<1>1. \A u \in Users : Ids(u)' = Ids(u) /\ NextId(u)' = NextId(u) BY DEF Ids, NextId, Stored
<1>2. Stored(Users)' = Stored(Users) BY DEF Stored, Ids
<1>3. IsFiniteSet(Unsaved) /\ IsFiniteSet(Stored(Users)) BY DEF QueueOK
<1>4. IsFiniteSet(Unsaved') /\ Cardinality(Unsaved') <= Cardinality(Unsaved)
  <2> DEFINE T == Unsaved
             R == Unsaved'
  <2> HIDE DEF T, R
  <2>1. R \in SUBSET T /\ IsFiniteSet(T) BY <1>3 DEF R, T
  <2>2. IsFiniteSet(R) /\ Cardinality(R) <= Cardinality(T) BY <2>1, FS_Subset
  <2> QED BY <2>2 DEF R, T
<1>5. Cardinality(Unsaved) \in Nat /\ Cardinality(Unsaved') \in Nat /\ Cardinality(Stored(Users)) \in Nat
  BY <1>3, <1>4, FS_CardinalityType
<1>6. Cardinality(Stored(Users)') + Cardinality(Unsaved') <= 2 * sent'
  <2>1. Cardinality(Stored(Users)) + Cardinality(Unsaved) <= 2 * sent BY DEF QueueOK
  <2>2. sent' = sent /\ sent \in Nat BY DEF Typed
  <2> QED BY <2>1, <2>2, <1>2, <1>4, <1>5
<1>7. \A u \in Users : /\ \A id \in Ids(u)' : 0 < id /\ id < NextId(u)'
                       /\ \A i, j \in DOMAIN queue'[u] : i < j => queue'[u][i].id < queue'[u][j].id
  BY <1>1 DEF QueueOK
<1> QED BY <1>2, <1>3, <1>4, <1>6, <1>7 DEF QueueOK

\* A step of a handler that saves nothing, or a step of a device.
LEMMA HandlersStep ==
  ASSUME DeliveryAssumption, Typed, QueueOK, HandlersOK, AckedOK, NEW s \in Senders, NEW step,
         At(s, step), step # "save", sending' = [sending EXCEPT ![s] = Done(@)],
         UNCHANGED <<queue, sent>>, NoneUntold,
         IF step = "ack" THEN acked' = acked \cup {sending[s].msg} ELSE acked' = acked
  PROVE  QueueOK' /\ HandlersOK' /\ AckedOK' /\ sending' \in [Senders -> Handlers \cup {None}]
           /\ acked' \subseteq 1..sent
<1> DEFINE h == sending[s]
<1>1. h # None /\ Head(h.todo) = step BY DEF At
<1>2. h \in Handlers /\ TodoOK(h.todo) /\ (Has(h, "save") => Head(h.todo) = "save") BY <1>1, HandlerSays
<1>3. ~Has(h, "save") BY <1>1, <1>2
<1>4. /\ Has(h, step)
      /\ \/ Done(h) = None /\ \A t : Has(h, t) => t = step
         \/ /\ Done(h) \in Handlers /\ Done(h) # None /\ TodoOK(Done(h).todo) /\ step # "ack"
            /\ \A t : Has(Done(h), t) <=> Has(h, t) /\ t # step
            /\ Done(h).kind = h.kind /\ Done(h).msg = h.msg
            /\ Done(h).msgid = h.msgid /\ Done(h).msgid2 = h.msgid2
  BY <1>1, <1>2, DoneSays
<1>5. sending'[s] = Done(h) /\ \A t \in Senders : t # s => sending'[t] = sending[t] BY DEF Typed
<1>6. sending' \in [Senders -> Handlers \cup {None}] BY <1>4 DEF Typed
<1>7. /\ h.msg \in 1..sent /\ h.msg \notin acked /\ Holds(Receiver, h.msgid, h.msg)
      /\ \A t \in Senders : sending[t] # None /\ sending[t].msg = h.msg => s = t
      /\ SavedToo(h) => Holds(Sender, h.msgid2, h.msg)
  BY <1>1 DEF HandlersOK
<1>8. Receiver \in Users /\ Sender \in Users BY DEF DeliveryAssumption
<1>9. \A u \in Users : \A id, m : Holds(u, id, m) => HoldsNext(u, id, m) BY HoldsStays
<1>10. Unsaved' \subseteq Unsaved
  <2> SUFFICES ASSUME NEW t \in Unsaved' PROVE t \in Unsaved OBVIOUS
  <2>1. t \in Senders /\ sending'[t] # None /\ Has(sending'[t], "save") BY DEF Unsaved, Has
  <2>2. t # s BY <2>1, <1>3, <1>4, <1>5
  <2> QED BY <2>1, <2>2, <1>5 DEF Unsaved
<1>11. QueueOK' BY <1>10, CountsKept
<1>12. ASSUME NEW t \in Senders, sending'[t] # None, t # s
       PROVE  sending'[t].msg \notin acked'
  <2>1. sending'[t] = sending[t] BY <1>5, <1>12
  <2>2. sending[t].msg \notin acked /\ sending[t].msg # h.msg BY <2>1, <1>7, <1>12 DEF HandlersOK
  <2> QED BY <2>1, <2>2
<1>13. HandlersOK'
  <2> SUFFICES ASSUME NEW t \in Senders, sending'[t] # None
               PROVE  /\ TodoOK(sending'[t].todo) /\ (Has(sending'[t], "save") => Has(sending'[t], "toSender"))
                      /\ sending'[t].msg \in 1..sent' /\ sending'[t].msg \notin acked'
                      /\ \A r \in Senders : sending'[r] # None /\ sending'[r].msg = sending'[t].msg => t = r
                      /\ HoldsNext(Receiver, sending'[t].msgid, sending'[t].msg)
                      /\ SavedToo(sending'[t]) => HoldsNext(Sender, sending'[t].msgid2, sending'[t].msg)
    BY DEF HandlersOK, Has, SavedToo, TodoOK, Holds, HoldsNext
  <2>1. \A r \in Senders : sending'[r] # None => sending[r] # None /\ sending[r].msg = sending'[r].msg
    BY <1>1, <1>4, <1>5
  <2>2. \A r \in Senders : sending'[r] # None /\ sending'[r].msg = sending'[t].msg => t = r
    BY <2>1 DEF HandlersOK
  <2>3. CASE t # s
    <3>1. sending'[t] = sending[t] BY <2>3, <1>5
    <3>2. /\ TodoOK(sending[t].todo) /\ (Has(sending[t], "save") => Has(sending[t], "toSender"))
          /\ sending[t].msg \in 1..sent /\ Holds(Receiver, sending[t].msgid, sending[t].msg)
          /\ SavedToo(sending[t]) => Holds(Sender, sending[t].msgid2, sending[t].msg)
      BY <3>1 DEF HandlersOK
    <3>3. HoldsNext(Receiver, sending[t].msgid, sending[t].msg) BY <3>2, <1>8, <1>9
    <3>4. SavedToo(sending[t]) => HoldsNext(Sender, sending[t].msgid2, sending[t].msg) BY <3>2, <1>8, <1>9
    <3> QED BY <3>1, <3>2, <3>3, <3>4, <2>2, <2>3, <1>12
  <2>4. CASE t = s
    <3>1. /\ sending'[t] = Done(h) /\ Done(h) \in Handlers /\ TodoOK(Done(h).todo) /\ step # "ack"
          /\ \A x : Has(Done(h), x) <=> Has(h, x) /\ x # step
          /\ Done(h).msg = h.msg /\ Done(h).msgid = h.msgid /\ Done(h).msgid2 = h.msgid2
      BY <2>4, <1>4, <1>5
    <3>2. SavedToo(Done(h)) => SavedToo(h) BY <3>1, <1>3 DEF SavedToo
    <3>3. HoldsNext(Receiver, h.msgid, h.msg) BY <1>7, <1>8, <1>9
    <3>4. SavedToo(h) => HoldsNext(Sender, h.msgid2, h.msg) BY <1>7, <1>8, <1>9
    <3> HIDE DEF h
    <3> QED BY <3>1, <3>2, <3>3, <3>4, <2>2, <1>3, <1>7
  <2> QED BY <2>3, <2>4
<1>14. AckedOK'
  <2> SUFFICES ASSUME NEW m \in acked', NEW u \in Users PROVE \E id \in Ids(u)' : HoldsNext(u, id, m)
    BY DEF AckedOK, Holds, HoldsNext
  <2>0. Ids(u)' = Ids(u) BY DEF Ids
  <2>1. CASE m \in acked
    <3>1. PICK id \in Ids(u) : Holds(u, id, m) BY <2>1 DEF AckedOK
    <3> QED BY <3>1, <2>0, <1>9
  <2>2. CASE m \notin acked
    <3>1. m = h.msg /\ step = "ack" BY <2>2
    <3>2. SavedToo(h) BY <3>1, <1>3, <1>4 DEF SavedToo
    <3>3. u = Receiver \/ u = Sender BY DEF DeliveryAssumption
    <3>4. h.msgid \in Ids(Receiver) /\ h.msgid2 \in Ids(Sender) BY <3>2, <1>1, HandlerIds
    <3> QED BY <3>1, <3>2, <3>3, <3>4, <2>0, <1>7, <1>9
  <2> QED BY <2>1, <2>2
<1>15. acked' \subseteq 1..sent BY <1>7 DEF Typed
<1> QED BY <1>6, <1>11, <1>13, <1>14, <1>15

\* A step of a device.
LEMMA HandlersFixed ==
  ASSUME DeliveryAssumption, Typed, QueueOK, HandlersOK, AckedOK,
         UNCHANGED <<queue, sent, sending, acked>>, NoneUntold
  PROVE  QueueOK' /\ HandlersOK' /\ AckedOK'
<1>1. Receiver \in Users /\ Sender \in Users BY DEF DeliveryAssumption
<1>2. \A u \in Users : \A id, m : Holds(u, id, m) => HoldsNext(u, id, m) BY HoldsStays
<1>3. Unsaved' = Unsaved BY DEF Unsaved
<1>4. QueueOK' BY <1>3, CountsKept
<1>5. HandlersOK'
  <2> SUFFICES ASSUME NEW t \in Senders, sending[t] # None
               PROVE  /\ TodoOK(sending[t].todo) /\ (Has(sending[t], "save") => Has(sending[t], "toSender"))
                      /\ sending[t].msg \in 1..sent /\ sending[t].msg \notin acked
                      /\ \A r \in Senders : sending[r] # None /\ sending[r].msg = sending[t].msg => t = r
                      /\ HoldsNext(Receiver, sending[t].msgid, sending[t].msg)
                      /\ SavedToo(sending[t]) => HoldsNext(Sender, sending[t].msgid2, sending[t].msg)
    BY DEF HandlersOK, Has, SavedToo, TodoOK, Holds, HoldsNext
  <2> QED BY <1>1, <1>2 DEF HandlersOK
<1>6. AckedOK'
  <2> SUFFICES ASSUME NEW m \in acked, NEW u \in Users PROVE \E id \in Ids(u)' : HoldsNext(u, id, m)
    BY DEF AckedOK, Holds, HoldsNext
  <2>0. Ids(u)' = Ids(u) BY DEF Ids
  <2>1. PICK id \in Ids(u) : Holds(u, id, m) BY DEF AckedOK
  <2> QED BY <2>0, <2>1, <1>2
<1> QED BY <1>4, <1>5, <1>6

-----------------------------------------------------------------------------
\* What is said of the entries when a save fails.
ToldBefore(s) == IF sending[s] = None THEN {} ELSE {[user |-> Receiver, id |-> sending[s].msgid]}

\* How a save may end.
SaveGoesOn(s, u, m, then) ==
  Saved(u, m) /\ sending' = [sending EXCEPT ![s] = then] /\ UNCHANGED <<failures, excused>>
SaveFails(s, u, m) ==
  /\ failures < MaxFailures /\ failures' = failures + 1
  /\ sending' = [sending EXCEPT ![s] = None]
  /\ \/ UNCHANGED queue /\ Untold(ToldBefore(s))
     \/ Saved(u, m) /\ Untold(ToldBefore(s) \cup {[user |-> u, id |-> NextId(u)]})

\* A call of SaveMessage ends in one of these ways.
LEMMA SaveSays ==
  ASSUME NEW s, NEW u, NEW m, NEW then, Save(s, u, m, then)
  PROVE  SaveGoesOn(s, u, m, then) \/ SaveFails(s, u, m)
BY DEF Save, SaveGoesOn, SaveFails, ToldBefore

\* Nobody is told of the entries of a handler whose save failed.
LEMMA FailSays ==
  ASSUME DeliveryAssumption, Typed, QueueOK, NEW s \in Senders, NEW u \in Users, NEW m \in Nat,
         SaveFails(s, u, m), HandlersOK
  PROVE  /\ excused' \in [Devices -> SUBSET [id : Nat, why : Reasons]]
         /\ \A d \in Devices : \A id \in Nat :
              [id |-> id, why |-> "untold"] \in excused'[d] /\ [id |-> id, why |-> "untold"] \notin excused[d] =>
                \/ sending[s] # None /\ UserOf[d] = Receiver /\ id = sending[s].msgid
                \/ UserOf[d] = u /\ id = NextId(u) /\ Saved(u, m)
         /\ \A d \in Devices : excused[d] \subseteq excused'[d]
         /\ \A d \in Devices : sending[s] # None /\ UserOf[d] = Receiver => sending[s].msgid \in Excused(d)'
         /\ \A d \in Devices : UserOf[d] = u /\ ~UNCHANGED queue => NextId(u) \in Excused(d)'
         /\ \A d \in Devices : \A id \in Excused(d)' :
              \/ id \in Excused(d)
              \/ sending[s] # None /\ UserOf[d] = Receiver /\ id = sending[s].msgid
              \/ UserOf[d] = u /\ id = NextId(u) /\ Saved(u, m)
<1> DEFINE N == [user |-> u, id |-> NextId(u)]
           R == [user |-> Receiver, id |-> sending[s].msgid]
<1>1. PICK X : /\ Untold(X)
               /\ \/ X = ToldBefore(s) /\ UNCHANGED queue
                  \/ X = ToldBefore(s) \cup {N} /\ Saved(u, m)
  BY DEF SaveFails
<1>2. ToldBefore(s) = IF sending[s] = None THEN {} ELSE {R} BY DEF ToldBefore
<1>3. NextId(u) \in Nat BY QueueSays, QueueFacts
<1>4. sending[s] # None => sending[s].msgid \in Nat BY HandlerSays
<1>5. ASSUME NEW d \in Devices
      PROVE  excused'[d] = excused[d] \cup Excuse({e.id : e \in {f \in X : f.user = UserOf[d]}}, "untold")
  BY <1>1 DEF Untold
<1>6. ASSUME NEW f \in X
      PROVE  \/ sending[s] # None /\ f = R
             \/ f = N /\ Saved(u, m)
  BY <1>1, <1>2
<1>7. ASSUME NEW d \in Devices, NEW e \in excused'[d], e \notin excused[d]
      PROVE  /\ e \in [id : Nat, why : Reasons] /\ e.why = "untold"
             /\ \/ sending[s] # None /\ UserOf[d] = Receiver /\ e.id = sending[s].msgid
                \/ UserOf[d] = u /\ e.id = NextId(u) /\ Saved(u, m)
  <2>1. PICK f \in X : f.user = UserOf[d] /\ e = [id |-> f.id, why |-> "untold"]
    BY <1>5, <1>7 DEF Excuse
  <2>2. CASE sending[s] # None /\ f = R
    BY <2>1, <2>2, <1>4 DEF Reasons
  <2>3. CASE f = N /\ Saved(u, m)
    BY <2>1, <2>3, <1>3 DEF Reasons
  <2> QED BY <2>2, <2>3, <1>6
<1>8. ASSUME NEW d \in Devices, NEW f \in X, f.user = UserOf[d]
      PROVE  f.id \in Excused(d)'
  <2>1. [id |-> f.id, why |-> "untold"] \in excused'[d] BY <1>5, <1>8 DEF Excuse
  <2>2. [id |-> f.id, why |-> "untold"].id = f.id OBVIOUS
  <2> QED BY <2>1, <2>2 DEF Excused
<1>9. excused' \in [Devices -> SUBSET [id : Nat, why : Reasons]]
  <2>1. excused' = [d \in Devices |-> excused[d] \cup Excuse({e.id : e \in {f \in X : f.user = UserOf[d]}}, "untold")]
    BY <1>1 DEF Untold
  <2>2. \A d \in Devices : excused[d] \subseteq [id : Nat, why : Reasons] BY DEF Typed
  <2>3. ASSUME NEW d \in Devices PROVE excused'[d] \in SUBSET [id : Nat, why : Reasons] BY <1>7, <2>2
  <2>4. DOMAIN excused' = Devices /\ excused' = [d \in Devices |-> excused'[d]] BY <2>1
  <2> QED BY <2>3, <2>4
<1>10. ASSUME NEW d \in Devices, NEW id \in Excused(d)', id \notin Excused(d)
       PROVE  \/ sending[s] # None /\ UserOf[d] = Receiver /\ id = sending[s].msgid
              \/ UserOf[d] = u /\ id = NextId(u) /\ Saved(u, m)
  <2>1. PICK e \in excused'[d] : e.id = id BY DEF Excused
  <2>2. e \notin excused[d] BY <2>1, <1>10 DEF Excused
  <2> QED BY <2>1, <2>2, <1>7
<1>11. ASSUME NEW d \in Devices, sending[s] # None, UserOf[d] = Receiver
       PROVE  sending[s].msgid \in Excused(d)'
  <2>1. R \in X /\ R.user = UserOf[d] /\ R.id = sending[s].msgid BY <1>1, <1>2, <1>11
  <2> HIDE DEF R
  <2> QED BY <2>1, <1>8
<1>12. ASSUME NEW d \in Devices, UserOf[d] = u, ~UNCHANGED queue
       PROVE  NextId(u) \in Excused(d)'
  <2>1. N \in X /\ N.user = UserOf[d] /\ N.id = NextId(u) BY <1>1, <1>12
  <2> HIDE DEF N
  <2> QED BY <2>1, <1>8
<1>13. ASSUME NEW d \in Devices, NEW id \in Nat, [id |-> id, why |-> "untold"] \in excused'[d],
              [id |-> id, why |-> "untold"] \notin excused[d]
       PROVE  \/ sending[s] # None /\ UserOf[d] = Receiver /\ id = sending[s].msgid
              \/ UserOf[d] = u /\ id = NextId(u) /\ Saved(u, m)
  <2>1. [id |-> id, why |-> "untold"].id = id OBVIOUS
  <2> QED BY <2>1, <1>7, <1>13
<1>14. \A d \in Devices : excused[d] \subseteq excused'[d] BY <1>5
<1> QED BY <1>9, <1>10, <1>11, <1>12, <1>13, <1>14

\* Saving, by the handler s, that goes on as then.
LEMMA SaveStep ==
  ASSUME DeliveryAssumption, Typed, QueueOK, HandlersOK, AckedOK, ExcusedKnown,
         NEW s \in Senders, NEW u \in Users, NEW m \in Nat, NEW then \in Handlers \cup {None},
         Save(s, u, m, then), acked' = acked, sent <= sent', sent' \in 0..MaxMsgs,
         sending[s] = None => sent' = sent + 1,
         sending[s] # None => Has(sending[s], "save") /\ (then # None => ~Has(then, "save")),
         then # None => /\ TodoOK(then.todo) /\ (Has(then, "save") => Has(then, "toSender"))
                        /\ then.msg = m /\ m \in 1..sent' /\ m \notin acked
                        /\ \A t \in Senders \ {s} : sending[t] # None => sending[t].msg # m
                        /\ \/ u = Receiver /\ then.msgid = NextId(u)
                           \/ Holds(Receiver, then.msgid, m)
                        /\ SavedToo(then) => u = Sender /\ then.msgid2 = NextId(u)
  PROVE  /\ QueueOK' /\ HandlersOK' /\ AckedOK'
         /\ sending' \in [Senders -> Handlers \cup {None}] /\ acked' \subseteq 1..sent'
         /\ queue' \in [Users -> Seq([id : Nat, msg : Nat])] /\ failures' \in Nat
         /\ excused' \in [Devices -> SUBSET [id : Nat, why : Reasons]]
<1> DEFINE n == NextId(u)
<1>1. Receiver \in Users /\ Sender \in Users BY DEF DeliveryAssumption
<1>2. SaveGoesOn(s, u, m, then) \/ SaveFails(s, u, m) BY SaveSays
<1>3. QueueTypes BY QueueSays
<1>4. n \in Nat \ {0} /\ n \notin Ids(u) BY <1>3, QueueFacts
<1>5. \/ UNCHANGED queue
      \/ /\ Saved(u, m) /\ QueueTypes'
         /\ Ids(u)' = Ids(u) \cup {n} /\ ToSet(queue[u])' = ToSet(queue[u]) \cup {[id |-> n, msg |-> m]}
         /\ \A v \in Users : v # u => queue'[v] = queue[v]
         /\ Cardinality(Stored(Users))' = Cardinality(Stored(Users)) + 1
  BY <1>2, <1>3, SavedSays DEF SaveGoesOn, SaveFails
<1>6. \A v \in Users : ToSet(queue[v]) \subseteq ToSet(queue'[v])
  <2> SUFFICES ASSUME NEW v \in Users PROVE ToSet(queue[v]) \subseteq ToSet(queue'[v]) OBVIOUS
  <2>1. CASE v = u BY <2>1, <1>5
  <2>2. CASE v # u BY <2>2, <1>5
  <2> QED BY <2>1, <2>2
<1>7. \A v \in Users : Ids(v) \subseteq Ids(v)' BY <1>6 DEF Ids
<1>8. excused' \in [Devices -> SUBSET [id : Nat, why : Reasons]] /\ failures' \in Nat
  <2>1. CASE SaveGoesOn(s, u, m, then) BY <2>1 DEF SaveGoesOn, Typed
  <2>2. CASE SaveFails(s, u, m)
    <3>1. excused' \in [Devices -> SUBSET [id : Nat, why : Reasons]] BY <2>2, FailSays
    <3>2. failures' = failures + 1 /\ failures \in Nat BY <2>2 DEF SaveFails, Typed
    <3> QED BY <3>1, <3>2
  <2> QED BY <1>2, <2>1, <2>2
<1>9. ASSUME NEW v \in Users, NEW id, NEW mm, Holds(v, id, mm),
             SaveFails(s, u, m) /\ sending[s] # None => mm # sending[s].msg
      PROVE  HoldsNext(v, id, mm)
  <2>1. PICK e \in ToSet(queue[v]) : e.id = id /\ e.msg = mm BY <1>9 DEF Holds
  <2>2. id \in Ids(v) /\ id \in Nat
    <3>1. Ids(v) \subseteq Nat BY <1>3, QueueFacts
    <3> QED BY <3>1, <2>1 DEF Ids
  <2>3. ASSUME NEW d \in Devices, UserOf[d] = v, [id |-> id, why |-> "untold"] \in excused'[d]
        PROVE  [id |-> id, why |-> "untold"] \in excused[d]
    <3>1. CASE SaveGoesOn(s, u, m, then) BY <2>3, <3>1 DEF SaveGoesOn
    <3>2. CASE SaveFails(s, u, m)
      <4> SUFFICES ASSUME [id |-> id, why |-> "untold"] \notin excused[d] PROVE FALSE OBVIOUS
      <4>1. \/ sending[s] # None /\ v = Receiver /\ id = sending[s].msgid
            \/ v = u /\ id = n
        BY <2>2, <2>3, <3>2, FailSays
      <4>2. CASE v = u /\ id = n BY <4>2, <2>2, <1>4
      <4>3. CASE sending[s] # None /\ v = Receiver /\ id = sending[s].msgid
        <5>1. Holds(Receiver, sending[s].msgid, sending[s].msg) BY <4>3 DEF HandlersOK
        <5>2. PICK f \in ToSet(queue[v]) : f.id = id /\ f.msg = sending[s].msg BY <5>1, <4>3 DEF Holds
        <5>3. e = f BY <2>1, <5>2, <1>3, IdIsUnique
        <5> QED BY <5>2, <5>3, <2>1, <3>2, <4>3, <1>9
      <4> QED BY <4>1, <4>2, <4>3
    <3> QED BY <1>2, <3>1, <3>2
  <2> QED BY <2>3, <1>6, <1>9, HoldsKept
<1>10. ASSUME NEW t \in Senders, t # s, sending[t] # None
       PROVE  /\ HoldsNext(Receiver, sending[t].msgid, sending[t].msg)
              /\ SavedToo(sending[t]) => HoldsNext(Sender, sending[t].msgid2, sending[t].msg)
  <2>1. /\ Holds(Receiver, sending[t].msgid, sending[t].msg)
        /\ SavedToo(sending[t]) => Holds(Sender, sending[t].msgid2, sending[t].msg)
    BY <1>10 DEF HandlersOK
  <2>2. sending[s] # None => sending[t].msg # sending[s].msg BY <1>10 DEF HandlersOK
  <2> QED BY <2>1, <2>2, <1>1, <1>9
<1>11. \/ sending' = [sending EXCEPT ![s] = then] /\ SaveGoesOn(s, u, m, then)
       \/ sending' = [sending EXCEPT ![s] = None] /\ SaveFails(s, u, m)
  BY <1>2 DEF SaveGoesOn, SaveFails
<1>12. /\ sending' \in [Senders -> Handlers \cup {None}]
       /\ \A t \in Senders : t # s => sending'[t] = sending[t]
       /\ sending'[s] # None => sending'[s] = then /\ SaveGoesOn(s, u, m, then)
  BY <1>11 DEF Typed
<1>13. \A mm \in acked : sending[s] # None => mm # sending[s].msg BY DEF HandlersOK
<1>14. AckedOK'
  <2> SUFFICES ASSUME NEW mm \in acked, NEW v \in Users PROVE \E id \in Ids(v)' : HoldsNext(v, id, mm)
    BY DEF AckedOK, Holds, HoldsNext
  <2>1. PICK id \in Ids(v) : Holds(v, id, mm) BY DEF AckedOK
  <2> QED BY <2>1, <1>7, <1>9, <1>13
<1>15. sent \in Nat /\ sent' \in Nat BY DEF Typed
<1>16. acked' \subseteq 1..sent'
  <2>1. acked \subseteq 1..sent BY DEF Typed
  <2> QED BY <2>1, <1>15
<1>17. HandlersOK'
  <2> SUFFICES ASSUME NEW t \in Senders, sending'[t] # None
               PROVE  /\ TodoOK(sending'[t].todo) /\ (Has(sending'[t], "save") => Has(sending'[t], "toSender"))
                      /\ sending'[t].msg \in 1..sent' /\ sending'[t].msg \notin acked
                      /\ \A r \in Senders : sending'[r] # None /\ sending'[r].msg = sending'[t].msg => t = r
                      /\ HoldsNext(Receiver, sending'[t].msgid, sending'[t].msg)
                      /\ SavedToo(sending'[t]) => HoldsNext(Sender, sending'[t].msgid2, sending'[t].msg)
    BY DEF HandlersOK, Has, SavedToo, TodoOK, Holds, HoldsNext
  <2>1. CASE t # s
    <3>1. sending'[t] = sending[t] /\ sending[t] # None BY <2>1, <1>12
    <3>2. /\ TodoOK(sending[t].todo) /\ (Has(sending[t], "save") => Has(sending[t], "toSender"))
          /\ sending[t].msg \in 1..sent /\ sending[t].msg \notin acked
      BY <3>1 DEF HandlersOK
    <3>3. sending[t].msg \in 1..sent' BY <3>2, <1>15
    <3>4. ASSUME NEW r \in Senders, sending'[r] # None, sending'[r].msg = sending[t].msg PROVE t = r
      <4>1. CASE r = s
        <5>1. sending'[r] = then /\ then # None BY <4>1, <3>4, <1>12
        <5> QED BY <5>1, <3>1, <3>4, <2>1
      <4>2. CASE r # s
        <5>1. sending'[r] = sending[r] BY <4>2, <1>12
        <5> QED BY <5>1, <3>1, <3>4 DEF HandlersOK
      <4> QED BY <4>1, <4>2
    <3> QED BY <3>1, <3>2, <3>3, <3>4, <2>1, <1>10
  <2>2. CASE t = s
    <3>1. sending'[t] = then /\ then # None /\ SaveGoesOn(s, u, m, then) BY <2>2, <1>12
    <3>2. /\ TodoOK(then.todo) /\ (Has(then, "save") => Has(then, "toSender"))
          /\ then.msg = m /\ m \in 1..sent' /\ m \notin acked
      BY <3>1
    <3>3. ASSUME NEW r \in Senders, sending'[r] # None, sending'[r].msg = m PROVE t = r
      <4> SUFFICES ASSUME r # s PROVE FALSE BY <2>2
      <4>1. sending'[r] = sending[r] BY <1>12
      <4> QED BY <4>1, <3>1, <3>3
    <3>4. HoldsNext(u, n, m)
      <4>1. Saved(u, m) /\ excused' = excused BY <3>1 DEF SaveGoesOn
      <4>2. ToSet(queue[u])' = ToSet(queue[u]) \cup {[id |-> n, msg |-> m]}
        BY <4>1, <1>3, SavedSays
      <4>3. [id |-> n, msg |-> m] \in ToSet(queue'[u]) BY <4>2
      <4>4. ASSUME NEW d \in Devices, UserOf[d] = u PROVE [id |-> n, why |-> "untold"] \notin excused'[d]
        <5>1. n \notin Excused(d) BY <4>4, <1>4 DEF ExcusedKnown
        <5>2. [id |-> n, why |-> "untold"].id = n OBVIOUS
        <5> QED BY <5>1, <5>2, <4>1 DEF Excused
      <4>5. [id |-> n, msg |-> m].id = n /\ [id |-> n, msg |-> m].msg = m OBVIOUS
      <4> HIDE DEF n
      <4> QED BY <4>3, <4>4, <4>5 DEF HoldsNext
    <3>5. HoldsNext(Receiver, then.msgid, m)
      <4>1. CASE u = Receiver /\ then.msgid = n BY <4>1, <3>4
      <4>2. CASE Holds(Receiver, then.msgid, m)
        <5>1. ~SaveFails(s, u, m) \/ sending[s] = None \/ m # sending[s].msg
          <6> SUFFICES ASSUME SaveFails(s, u, m) PROVE sending[s] = None \/ m # sending[s].msg OBVIOUS
          <6>1. failures' = failures + 1 /\ failures' = failures /\ failures \in Nat
            BY <3>1 DEF SaveFails, SaveGoesOn, Typed
          <6> QED BY <6>1
        <5> QED BY <5>1, <4>2, <1>1, <1>9
      <4> QED BY <4>1, <4>2, <3>1
    <3>6. SavedToo(then) => HoldsNext(Sender, then.msgid2, m) BY <3>1, <3>4
    <3> HIDE DEF n
    <3> QED BY <3>1, <3>2, <3>3, <3>5, <3>6
  <2> QED BY <2>1, <2>2
<1>18. QueueTypes' /\ Cardinality(Stored(Users)') \in Nat
         /\ Cardinality(Stored(Users)') <= Cardinality(Stored(Users)) + 1 /\ Cardinality(Stored(Users)) \in Nat
  <2>1. Cardinality(Stored(Users)) \in Nat BY <1>3, <1>1, QueueFacts
  <2>2. CASE UNCHANGED queue
    <3>1. \A v \in Users : Ids(v)' = Ids(v) /\ NextId(v)' = NextId(v) BY <2>2 DEF Ids, NextId, Stored
    <3>2. Stored(Users)' = Stored(Users) BY <2>2 DEF Stored, Ids
    <3>3. QueueTypes' BY <3>1, <3>2, <2>2, <1>3 DEF QueueTypes
    <3> QED BY <3>2, <3>3, <2>1
  <2>3. CASE ~UNCHANGED queue BY <2>1, <2>3, <1>5
  <2> QED BY <2>2, <2>3
<1>19. IsFiniteSet(Unsaved') /\ Cardinality(Stored(Users)') + Cardinality(Unsaved') <= 2 * sent'
  <2> DEFINE T == Unsaved
             R == Unsaved'
  <2>1. IsFiniteSet(T) /\ Cardinality(Stored(Users)) + Cardinality(T) <= 2 * sent BY DEF QueueOK
  <2>2. CASE sending[s] = None
    <3>1. R \in SUBSET (T \cup {s})
      <4> SUFFICES ASSUME NEW t \in R, t # s PROVE t \in T OBVIOUS
      <4>1. t \in Senders /\ sending'[t] # None /\ Has(sending'[t], "save") BY DEF Unsaved, Has
      <4> QED BY <4>1, <1>12 DEF Unsaved
    <3>2. s \notin T BY <2>2 DEF Unsaved
    <3> HIDE DEF T, R
    <3>3. IsFiniteSet(T \cup {s}) /\ Cardinality(T \cup {s}) = Cardinality(T) + 1 BY <2>1, <3>2, FS_AddElement
    <3>4. IsFiniteSet(R) /\ Cardinality(R) <= Cardinality(T) + 1 BY <3>1, <3>3, FS_Subset
    <3>5. Cardinality(R) \in Nat /\ Cardinality(T) \in Nat BY <2>1, <3>4, FS_CardinalityType
    <3>6. sent' = sent + 1 BY <2>2
    <3> QED BY <3>4, <3>5, <3>6, <2>1, <1>15, <1>18 DEF R
  <2>3. CASE sending[s] # None
    <3>1. R \in SUBSET (T \ {s})
      <4> SUFFICES ASSUME NEW t \in R PROVE t \in T /\ t # s OBVIOUS
      <4>1. t \in Senders /\ sending'[t] # None /\ Has(sending'[t], "save") BY DEF Unsaved, Has
      <4>2. t # s BY <4>1, <2>3, <1>12
      <4> QED BY <4>1, <4>2, <1>12 DEF Unsaved
    <3>2. s \in T BY <2>3 DEF Unsaved
    <3> HIDE DEF T, R
    <3>3. IsFiniteSet(T \ {s}) /\ Cardinality(T \ {s}) = Cardinality(T) - 1 BY <2>1, <3>2, FS_RemoveElement
    <3>4. IsFiniteSet(R) /\ Cardinality(R) <= Cardinality(T) - 1 BY <3>1, <3>3, FS_Subset
    <3>5. Cardinality(R) \in Nat /\ Cardinality(T) \in Nat BY <2>1, <3>4, FS_CardinalityType
    <3> QED BY <3>4, <3>5, <2>1, <1>15, <1>18 DEF R
  <2> QED BY <2>2, <2>3
<1>20. QueueOK' /\ queue' \in [Users -> Seq([id : Nat, msg : Nat])]
  BY <1>18, <1>19 DEF QueueTypes, QueueOK
<1> QED BY <1>8, <1>12, <1>14, <1>16, <1>17, <1>20

-----------------------------------------------------------------------------
\* A device and its user.
LEMMA DeviceFacts ==
  ASSUME DeliveryAssumption, Typed, QueueTypes, NEW d \in Devices
  PROVE  /\ UserOf[d] \in Users /\ Ids(UserOf[d]) \in SUBSET Nat /\ NextId(UserOf[d]) \in Nat \ {0}
         /\ NextId(UserOf[d]) \notin Ids(UserOf[d])
         /\ \A id \in Ids(UserOf[d]) : 0 < id /\ id < NextId(UserOf[d])
         /\ \A k \in Known(d) : k \in Nat /\ k < NextId(UserOf[d])
         /\ sync_key[d] \in Nat /\ got[d] \subseteq Nat
         /\ req[d] \in Seq(Nat) /\ wt[d] \in Seq(Nat) /\ pwt[d] \in Seq(Pieces)
         /\ messages[d] \in Seq(Items) /\ net[d] \in Seq(Items) /\ tc[d] \in BOOLEAN
         /\ excused[d] \subseteq [id : Nat, why : Reasons]
<1>1. UserOf[d] \in Users BY DEF DeliveryAssumption
<1>2. /\ Ids(UserOf[d]) \in SUBSET Nat /\ \A id \in Ids(UserOf[d]) : 0 < id /\ id < NextId(UserOf[d])
      /\ NextId(UserOf[d]) \in Nat \ {0} /\ NextId(UserOf[d]) \notin Ids(UserOf[d])
  BY <1>1, QueueFacts
<1>3. \A k \in Known(d) : k \in Nat /\ k < NextId(UserOf[d]) BY <1>2 DEF Known
<1>4. /\ sync_key[d] \in Nat /\ got[d] \subseteq Nat
      /\ req[d] \in Seq(Nat) /\ wt[d] \in Seq(Nat) /\ pwt[d] \in Seq(Pieces)
      /\ messages[d] \in Seq(Items) /\ net[d] \in Seq(Items) /\ tc[d] \in BOOLEAN
      /\ excused[d] \subseteq [id : Nat, why : Reasons]
  BY DEF Typed
<1> QED BY <1>1, <1>2, <1>3, <1>4

\* Elements of the lists of a device.
LEMMA ListFacts ==
  ASSUME DeliveryAssumption, Typed, QueueTypes, NEW d \in Devices
  PROVE  /\ \A i \in DOMAIN req[d] : req[d][i] \in Nat
         /\ \A i \in DOMAIN wt[d] : wt[d][i] \in Nat
         /\ \A i \in DOMAIN pwt[d] : pwt[d][i].end \in Nat /\ pwt[d][i].ids \subseteq Nat
         /\ \A i \in DOMAIN messages[d] : messages[d][i].about \in Nat /\ messages[d][i].key \in Nat
         /\ \A i \in DOMAIN net[d] : net[d][i].about \in Nat /\ net[d][i].key \in Nat
<1>1. /\ req[d] \in Seq(Nat) /\ wt[d] \in Seq(Nat) /\ pwt[d] \in Seq(Pieces)
      /\ messages[d] \in Seq(Items) /\ net[d] \in Seq(Items)
  BY DeviceFacts
<1>2. ASSUME NEW S, NEW l \in Seq(S) PROVE \A i \in DOMAIN l : l[i] \in S OBVIOUS
<1>3. /\ \A i \in DOMAIN pwt[d] : pwt[d][i] \in Pieces
      /\ \A i \in DOMAIN messages[d] : messages[d][i] \in Items
      /\ \A i \in DOMAIN net[d] : net[d][i] \in Items
      /\ \A i \in DOMAIN wt[d] : wt[d][i] \in Nat
      /\ \A i \in DOMAIN req[d] : req[d][i] \in Nat
  BY <1>1, <1>2
<1> QED BY <1>3 DEF Pieces, Items

\* The key of an answer is that of AnswerSays.
LEMMA EndSays ==
  ASSUME DeliveryAssumption, Typed, QueueTypes, NEW d \in Devices, NEW a \in Nat
  PROVE  /\ End(d, a) \in {a} \cup New(d, a) /\ End(d, a) \in Nat /\ a <= End(d, a)
         /\ InAnswer(New(d, a)) = {id \in New(d, a) : id <= End(d, a)}
         /\ \A id \in New(d, a) : id > End(d, a) => HasMore(New(d, a))
         /\ \A b \in Nat : a <= b => End(d, a) <= End(d, b)
<1> DEFINE S == Ids(UserOf[d])
           n == NextId(UserOf[d])
<1>1. S \in SUBSET Nat /\ n \in Nat /\ \A x \in S : x <= n
  <2>1. S \in SUBSET Nat /\ n \in Nat /\ \A x \in S : x < n BY DeviceFacts
  <2> HIDE DEF S, n
  <2> QED BY <2>1
<1>2. \A b \in Nat : New(d, b) = Later(S, b) BY DEF New, Later
<1>3. \A b \in Nat : End(d, b) = AnswerKey(b, Later(S, b)) BY <1>2 DEF End
<1> HIDE DEF S, n
<1>4. /\ End(d, a) \in {a} \cup New(d, a)
      /\ InAnswer(New(d, a)) = {id \in New(d, a) : id <= End(d, a)}
      /\ \A id \in New(d, a) : id > End(d, a) => HasMore(New(d, a))
  BY <1>1, <1>2, <1>3, AnswerSays
<1>5. \A id \in New(d, a) : id \in Nat /\ id > a BY <1>1, <1>2 DEF Later
<1>6. ASSUME NEW b \in Nat, a <= b PROVE End(d, a) <= End(d, b)
  <2>1. S \in SUBSET S /\ \A x \in S, y \in S \ S : x < y OBVIOUS
  <2> QED BY <1>1, <1>3, <1>6, <2>1, AnswerGrows
<1> QED BY <1>4, <1>5, <1>6

\* The key of an answer does not get smaller when a message is saved.
LEMMA EndGrows ==
  ASSUME DeliveryAssumption, Typed, QueueTypes, QueueTypes', NEW d \in Devices, NEW a \in Nat,
         \/ Ids(UserOf[d])' = Ids(UserOf[d])
         \/ Ids(UserOf[d])' = Ids(UserOf[d]) \cup {NextId(UserOf[d])}
  PROVE  End(d, a)' \in Nat /\ End(d, a) <= End(d, a)'
<1> DEFINE S == Ids(UserOf[d])
           T == Ids(UserOf[d])'
           n == NextId(UserOf[d])'
<1>1. S \in SUBSET Nat /\ \A x \in S : x < NextId(UserOf[d]) BY DeviceFacts
<1>2. UserOf[d] \in Users BY DeviceFacts
<1>3. T \in SUBSET Nat /\ n \in Nat /\ \A x \in T : x <= n
  <2> DEFINE w == UserOf[d]
  <2>1. queue'[w] \in Seq([id : Nat, msg : Nat]) BY <1>2 DEF QueueTypes
  <2>2. \A e \in ToSet(queue'[w]) : e \in [id : Nat, msg : Nat]
    <3> DEFINE q == queue'[w]
               E == [id : Nat, msg : Nat]
    <3>1. q \in Seq(E) BY <2>1
    <3> HIDE DEF q, E
    <3>2. \A i \in DOMAIN q : q[i] \in E BY <3>1
    <3> QED BY <3>2 DEF q, E, ToSet
  <2>3. T \in SUBSET Nat BY <2>2 DEF Ids
  <2>4. IsFiniteSet(Stored(Users)') BY DEF QueueTypes
  <2>5. n \in Nat
    <3>1. n = 1 + Cardinality(Stored(Same(w))') BY DEF NextId, Same, Stored
    <3>2. Stored(Same(w))' \in SUBSET (Stored(Users)') BY DEF Stored, Same
    <3>3. IsFiniteSet(Stored(Same(w))') BY <2>4, <3>2, FS_Subset
    <3>4. Cardinality(Stored(Same(w))') \in Nat BY <3>3, FS_CardinalityType
    <3> QED BY <3>1, <3>4
  <2>6. \A x \in T : x < n BY <1>2 DEF QueueTypes
  <2> QED BY <2>3, <2>5, <2>6
<1>4. S \in SUBSET T /\ \A x \in S, y \in T \ S : x < y BY <1>1
<1>5. New(d, a) = Later(S, a) /\ New(d, a)' = Later(T, a) BY DEF New, Later
<1>6. End(d, a) = AnswerKey(a, Later(S, a)) /\ End(d, a)' = AnswerKey(a, Later(T, a))
  BY <1>5 DEF End
<1> HIDE DEF S, T, n
<1>7. AnswerKey(a, Later(S, a)) <= AnswerKey(a, Later(T, a)) BY <1>3, <1>4, AnswerGrows
<1>8. AnswerKey(a, Later(T, a)) \in {a} \cup Later(T, a) BY <1>3, AnswerSays
<1>9. Later(T, a) \subseteq Nat BY <1>3 DEF Later
<1> QED BY <1>6, <1>7, <1>8, <1>9

\* What a step of the storage server or of a handler leaves alone.
DeviceFixed(d) ==
  /\ net'[d] = net[d] /\ conn'[d] = conn[d] /\ messages'[d] = messages[d] /\ wt'[d] = wt[d]
  /\ pwt'[d] = pwt[d] /\ tc'[d] = tc[d] /\ req'[d] = req[d] /\ sync_key'[d] = sync_key[d]
  /\ got'[d] = got[d]

\* What comes to a device still comes, when only more is excused.
LEMMA ComingFixed ==
  ASSUME NEW d \in Devices, DeviceFixed(d), Excused(d) \subseteq Excused(d)', NEW id, Coming(d, id)
  PROVE  Coming(d, id)'
BY DEF DeviceFixed, Coming, MoreCovers

\* Saving leaves the devices in order.
LEMMA SaveDevice ==
  ASSUME DeliveryAssumption, Typed, QueueOK, QueueOK', HandlersOK, NEW d \in Devices, DeviceOK(d),
         NEW s \in Senders, NEW u \in Users, NEW m \in Nat, NEW then \in Handlers,
         Save(s, u, m, then), then # None,
         queue' \in [Users -> Seq([id : Nat, msg : Nat])],
         \/ u = Receiver /\ Has(then, "toReceiver") /\ then.msgid = NextId(u)
         \/ u = Sender /\ Has(then, "toSender") /\ ~Has(then, "save") /\ then.msgid2 = NextId(u),
         sending[s] # None => /\ Has(sending[s], "save")
                              /\ Has(sending[s], "toReceiver") => Has(then, "toReceiver")
                              /\ then.msgid = sending[s].msgid,
         DeviceFixed(d)
  PROVE  DeviceOK(d)'
<1> DEFINE w == UserOf[d]
           n == NextId(u)
<1>1. SaveGoesOn(s, u, m, then) \/ SaveFails(s, u, m) BY SaveSays
<1>2. QueueTypes BY QueueSays
<1>3. QueueTypes' BY DEF QueueTypes, QueueOK
<1>4. /\ w \in Users /\ Ids(w) \in SUBSET Nat /\ NextId(w) \in Nat \ {0}
      /\ \A id \in Ids(w) : 0 < id /\ id < NextId(w)
      /\ \A k \in Known(d) : k \in Nat /\ k < NextId(w)
  BY <1>2, DeviceFacts
<1>5. n \in Nat \ {0} /\ n \notin Ids(u) BY <1>2, QueueFacts
<1>6. \/ UNCHANGED queue
      \/ /\ Saved(u, m) /\ Ids(u)' = Ids(u) \cup {n} /\ ToSet(queue[u])' = ToSet(queue[u]) \cup {[id |-> n, msg |-> m]}
         /\ \A v \in Users : v # u => queue'[v] = queue[v]
  BY <1>1, <1>2, SavedSays DEF SaveGoesOn, SaveFails
<1>7. \/ Ids(w)' = Ids(w)
      \/ w = u /\ Ids(w)' = Ids(w) \cup {NextId(w)}
  <2>1. CASE UNCHANGED queue BY <2>1 DEF Ids
  <2>2. CASE w = u BY <2>2, <1>6 DEF Ids
  <2>3. CASE w # u BY <2>3, <1>4, <1>6 DEF Ids
  <2> QED BY <2>2, <2>3
<1>8. Saved(u, m) => Ids(u)' = Ids(u) \cup {n} BY <1>2, SavedSays
<1>9. Excused(d) \subseteq Excused(d)' /\ Excused(d)' \subseteq Ids(w)'
  <2>0. Excused(d) \subseteq Ids(w) BY DEF DeviceOK, ClientOK
  <2>1. CASE SaveGoesOn(s, u, m, then)
    <3>1. Excused(d)' = Excused(d) BY <2>1 DEF SaveGoesOn, Excused
    <3> QED BY <3>1, <2>0, <1>7
  <2>2. CASE SaveFails(s, u, m)
    <3>1. Excused(d) \subseteq Excused(d)'
      <4>1. excused[d] \subseteq excused'[d] BY <2>2, FailSays
      <4> QED BY <4>1 DEF Excused
    <3>2. ASSUME NEW id \in Excused(d)' PROVE id \in Ids(w)'
      <4>1. \/ id \in Excused(d)
            \/ sending[s] # None /\ w = Receiver /\ id = sending[s].msgid
            \/ w = u /\ id = n /\ Saved(u, m)
        BY <2>2, <3>2, FailSays
      <4>2. CASE id \in Excused(d) BY <4>2, <2>0, <1>7
      <4>3. CASE sending[s] # None /\ w = Receiver /\ id = sending[s].msgid
        BY <4>3, <1>7, HandlerIds
      <4>4. CASE w = u /\ id = n /\ Saved(u, m) BY <4>4, <1>8
      <4> QED BY <4>1, <4>2, <4>3, <4>4
    <3> QED BY <3>1, <3>2
  <2> QED BY <1>1, <2>1, <2>2
<1>10. Known(d) \subseteq Known(d)' BY <1>7 DEF Known
<1>11. /\ ClientOK(d) /\ NoGap(d) /\ InOrder(d) /\ ConnOK(d) /\ NetPaired(d)
       /\ Live(d) => Paired(d) /\ \A id \in Ids(w) : Covered(d, id)
  BY DEF DeviceOK
<1>12. ClientOK(d)'
  <2>1. Ids(w) \subseteq Ids(w)' BY <1>7
  <2> QED BY <2>1, <1>9, <1>10, <1>11 DEF ClientOK, DeviceFixed
<1>13. ASSUME NEW k \in Known(d), NEW id \in Ids(w)', id <= k PROVE id \in Ids(w)
  BY <1>4, <1>7, <1>13
<1>14. NoGap(d)'
  <2>1. sync_key[d] \in Known(d) /\ \A i \in DOMAIN pwt[d] : pwt[d][i].end \in Known(d) BY <1>11 DEF ClientOK
  <2> QED BY <2>1, <1>11, <1>13 DEF NoGap, DeviceFixed
<1>15. ASSUME NEW a \in Nat PROVE End(d, a) \in Nat /\ End(d, a)' \in Nat /\ End(d, a) <= End(d, a)'
  <2>1. End(d, a) \in Nat BY <1>2, EndSays
  <2> QED BY <2>1, <1>2, <1>3, <1>7, EndGrows
<1>16. InOrder(d)'
  <2>1. sync_key[d] \in Nat /\ (\A i \in DOMAIN req[d] : req[d][i] \in Nat)
        /\ \A i \in DOMAIN pwt[d] : pwt[d][i].end \in Nat
    BY <1>2, DeviceFacts, ListFacts
  <2> DEFINE E(a) == AnswerKey(a, {id \in Ids(w)' : id > a})
  <2>2. \A a \in Nat : End(d, a)' = E(a) BY DEF End, New
  <2>3. ASSUME NEW k \in Nat, NEW a \in Nat, k <= End(d, a) PROVE k <= E(a)
    <3> HIDE DEF E
    <3>1. E(a) \in Nat /\ End(d, a) \in Nat /\ End(d, a) <= E(a) BY <1>15, <2>2
    <3> QED BY <3>1, <2>3
  <2>6. \A i, j \in DOMAIN req[d] : i <= j => req[d][i] <= req[d][j] BY <1>11 DEF InOrder
  <2>8. /\ \A i \in DOMAIN req[d] : sync_key[d] <= E(req[d][i])
        /\ \A i \in DOMAIN pwt[d] : pwt[d][i].end <= E(sync_key[d])
        /\ \A i \in DOMAIN pwt[d] : \A j \in DOMAIN req[d] : pwt[d][i].end <= E(req[d][j])
    <3> HIDE DEF E
    <3> QED BY <2>1, <2>3, <1>11 DEF InOrder
  <2> QED BY <2>6, <2>8 DEF InOrder, DeviceFixed, End, New
<1>17. ConnOK(d)' /\ NetPaired(d)' /\ (Live(d)' => Live(d) /\ Paired(d)')
  BY <1>11 DEF ConnOK, NetPaired, Paired, PairedIn, Live, DeviceFixed
<1>18. ASSUME NEW id, ToTell(s, w, id) PROVE id \in Excused(d)' \/ ToTell(s, w, id)'
  <2>1. sending[s] # None /\ Has(sending[s], "save") BY <1>18 DEF ToTell
  <2>2. Has(sending[s], "toReceiver") /\ w = Receiver /\ id = sending[s].msgid
    BY <2>1, <1>18 DEF ToTell
  <2>3. CASE SaveGoesOn(s, u, m, then)
    <3>1. sending'[s] = then BY <2>3 DEF SaveGoesOn, Typed
    <3>2. Has(then, "toReceiver") /\ then.msgid = id BY <2>1, <2>2
    <3> QED BY <3>1, <3>2, <2>2 DEF ToTell, Has
  <2>4. CASE SaveFails(s, u, m) BY <2>1, <2>2, <2>4, FailSays
  <2> QED BY <1>1, <2>3, <2>4
<1>19. \A t \in Senders : t # s => sending'[t] = sending[t]
  BY <1>1 DEF SaveGoesOn, SaveFails, Typed
<1>20. ASSUME Live(d), NEW id \in Ids(w)' PROVE Covered(d, id)'
  <2>1. CASE id \in Ids(w)
    <3>1. CASE Coming(d, id)
      BY <3>1, <1>9, ComingFixed DEF Covered
    <3>2. CASE ~Coming(d, id)
      <4>1. PICK t \in Senders : ToTell(t, w, id) BY <2>1, <3>2, <1>11, <1>20 DEF Covered
      <4>2. id \in Excused(d)' \/ ToTell(t, w, id)'
        <5>1. CASE t = s BY <5>1, <4>1, <1>18
        <5>2. CASE t # s BY <5>2, <4>1, <1>19 DEF ToTell, Has
        <5> QED BY <5>1, <5>2
      <4>3. id \in Excused(d)' => Coming(d, id)' BY DEF Coming
      <4> QED BY <4>2, <4>3 DEF Covered
    <3> QED BY <3>1, <3>2
  <2>2. CASE id \notin Ids(w)
    <3>1. w = u /\ id = n /\ ~UNCHANGED queue BY <2>2, <1>7, <1>20 DEF Ids
    <3>2. CASE SaveGoesOn(s, u, m, then)
      <4>1. sending'[s] = then BY <3>2 DEF SaveGoesOn, Typed
      <4>2. ToTell(s, w, id)' BY <4>1, <3>1 DEF ToTell, Has
      <4> QED BY <4>2 DEF Covered
    <3>3. CASE SaveFails(s, u, m)
      <4>1. id \in Excused(d)' BY <3>1, <3>3, FailSays
      <4> QED BY <4>1 DEF Covered, Coming
    <3> QED BY <1>1, <3>2, <3>3
  <2> QED BY <2>1, <2>2
<1>21. DeviceOK(d)' BY <1>12, <1>14, <1>16, <1>17, <1>20 DEF DeviceOK
<1> QED BY <1>21

-----------------------------------------------------------------------------
\* HandleIMMessage, and the other handlers, begin.
LEMMA SaveForReceiverInv ==
  ASSUME DeliveryAssumption, IInv, NEW s \in Senders, SaveForReceiver(s)
  PROVE  IInv'
<1>1. /\ sending[s] = None /\ sent < MaxMsgs /\ sent' = sent + 1
      /\ UNCHANGED <<acked, routeVars, conn, logins, writeVars, clientVars>>
  BY DEF SaveForReceiver
<1> DEFINE then(k) == [kind |-> k, todo |-> Work[k], msg |-> sent + 1, msgid |-> NextId(Receiver), msgid2 |-> 0]
<1>2. PICK k \in Kinds[sent + 1] : Save(s, Receiver, sent + 1, then(k)) BY DEF SaveForReceiver
<1> DEFINE t == then(k)
<1>3. Typed /\ QueueOK /\ HandlersOK /\ AckedOK /\ (\A d \in Devices : DeviceOK(d)) BY DEF IInv
<1>4. ExcusedKnown BY <1>3 DEF ExcusedKnown, DeviceOK, ClientOK
<1>5. sent \in 0..MaxMsgs /\ sent + 1 \in 1..MaxMsgs /\ MaxMsgs \in Nat /\ sent' \in 0..MaxMsgs /\ sent <= sent'
  BY <1>1, <1>3 DEF Typed, DeliveryAssumption
<1>6. k \in DOMAIN Work BY <1>2, <1>5 DEF DeliveryAssumption
<1>7. Receiver \in Users BY DEF DeliveryAssumption
<1>8. NextId(Receiver) \in Nat BY <1>3, <1>7, QueueSays, QueueFacts
<1>9. /\ Work[k] \in Seq(Steps) /\ TodoOK(Work[k])
      /\ \E i \in DOMAIN Work[k] : Work[k][i] = "toReceiver"
      /\ \A i \in DOMAIN Work[k] : Work[k][i] \in {"toSender", "ack"} =>
           (\E j \in DOMAIN Work[k] : Work[k][j] = "save")
      /\ \A i \in DOMAIN Work[k] : Work[k][i] = "save" =>
           (\E j \in DOMAIN Work[k] : Work[k][j] = "toSender")
  BY <1>6, WorkSays
<1>10. t.todo = Work[k] /\ t.msg = sent + 1 /\ t.msgid = NextId(Receiver) OBVIOUS
<1>11. t \in Handlers BY <1>5, <1>6, <1>8, <1>9 DEF Handlers
<1> HIDE DEF t, then
<1>12. /\ TodoOK(t.todo) /\ (Has(t, "save") => Has(t, "toSender")) /\ Has(t, "toReceiver")
       /\ ~SavedToo(t)
  BY <1>9, <1>10 DEF Has, SavedToo
<1>13. t # None BY <1>11, NoneSays
<1>14. \A r \in Senders \ {s} : sending[r] # None => sending[r].msg # sent + 1
  BY <1>3, <1>5 DEF HandlersOK
<1>15. sent + 1 \notin acked /\ sent + 1 \in 1..sent' /\ sent + 1 \in Nat
  BY <1>1, <1>3, <1>5 DEF Typed
<1>16. Save(s, Receiver, sent + 1, t) BY <1>2 DEF t
<1>17. /\ QueueOK' /\ HandlersOK' /\ AckedOK'
       /\ sending' \in [Senders -> Handlers \cup {None}] /\ acked' \subseteq 1..sent'
       /\ queue' \in [Users -> Seq([id : Nat, msg : Nat])] /\ failures' \in Nat
       /\ excused' \in [Devices -> SUBSET [id : Nat, why : Reasons]]
  <2>1. acked' = acked BY <1>1
  <2>2. t \in Handlers \cup {None} BY <1>11
  <2> QED BY <1>1, <1>3, <1>4, <1>5, <1>7, <1>10, <1>12, <1>14, <1>15, <1>16, <2>1, <2>2, SaveStep
<1>18. Typed' BY <1>1, <1>3, <1>5, <1>17 DEF Typed, routeVars, writeVars, clientVars
<1>19. ASSUME NEW d \in Devices PROVE DeviceOK(d)'
  <2>1. DeviceFixed(d) BY <1>1 DEF DeviceFixed, routeVars, writeVars, clientVars
  <2> QED BY <2>1, <1>1, <1>3, <1>7, <1>10, <1>11, <1>12, <1>13, <1>15, <1>16, <1>17, SaveDevice
<1> QED BY <1>17, <1>18, <1>19 DEF IInv

\* SaveMessage for the sender.
LEMMA SaveForSenderInv ==
  ASSUME DeliveryAssumption, IInv, NEW s \in Senders, SaveForSender(s)
  PROVE  IInv'
<1> DEFINE h == sending[s]
           n == NextId(Sender)
           g == [h EXCEPT !.msgid2 = n]
           t == Done(g)
<1>1. /\ h # None /\ Head(h.todo) = "save" /\ Save(s, Sender, h.msg, t)
      /\ UNCHANGED <<sent, acked, routeVars, conn, logins, writeVars, clientVars>>
  BY DEF SaveForSender, At
<1>2. Typed /\ QueueOK /\ HandlersOK /\ AckedOK /\ (\A d \in Devices : DeviceOK(d)) BY DEF IInv
<1>3. ExcusedKnown BY <1>2 DEF ExcusedKnown, DeviceOK, ClientOK
<1>4. Sender \in Users BY DEF DeliveryAssumption
<1>5. n \in Nat BY <1>2, <1>4, QueueSays, QueueFacts
<1>6. h \in Handlers /\ TodoOK(h.todo) /\ h.msg \in Nat /\ (Has(h, "save") => Has(h, "toSender"))
  BY <1>1, <1>2, HandlerSays
<1>7. /\ g \in Handlers /\ g.todo = h.todo /\ g.msg = h.msg /\ g.msgid = h.msgid /\ g.msgid2 = n
  BY <1>5, <1>6 DEF Handlers
<1> HIDE DEF g
<1>8. \A step : Has(g, step) <=> Has(h, step) BY <1>7 DEF Has
<1>9. /\ Has(g, "save")
      /\ \/ t = None /\ \A step : Has(g, step) => step = "save"
         \/ /\ t \in Handlers /\ t # None /\ TodoOK(t.todo)
            /\ \A step : Has(t, step) <=> Has(g, step) /\ step # "save"
            /\ t.msg = g.msg /\ t.msgid = g.msgid /\ t.msgid2 = g.msgid2
  <2>1. TodoOK(g.todo) /\ Head(g.todo) = "save" BY <1>1, <1>6, <1>7
  <2> QED BY <1>7, <2>1, DoneSays
<1> HIDE DEF t
<1>10. Has(h, "save") /\ Has(g, "toSender") BY <1>6, <1>8, <1>9
<1>11. /\ t \in Handlers /\ t # None /\ TodoOK(t.todo)
       /\ \A step : Has(t, step) <=> Has(h, step) /\ step # "save"
       /\ t.msg = h.msg /\ t.msgid = h.msgid /\ t.msgid2 = n
  BY <1>7, <1>8, <1>9, <1>10
<1>12. ~Has(t, "save") /\ Has(t, "toSender") BY <1>8, <1>10, <1>11
<1>13. /\ h.msg \in 1..sent /\ h.msg \notin acked /\ Holds(Receiver, h.msgid, h.msg)
       /\ \A r \in Senders : sending[r] # None /\ sending[r].msg = h.msg => s = r
  BY <1>1, <1>2 DEF HandlersOK
<1>14. sent' = sent /\ sent <= sent' /\ sent' \in 0..MaxMsgs BY <1>1, <1>2 DEF Typed, DeliveryAssumption
<1>15. /\ QueueOK' /\ HandlersOK' /\ AckedOK'
       /\ sending' \in [Senders -> Handlers \cup {None}] /\ acked' \subseteq 1..sent'
       /\ queue' \in [Users -> Seq([id : Nat, msg : Nat])] /\ failures' \in Nat
       /\ excused' \in [Devices -> SUBSET [id : Nat, why : Reasons]]
  <2>1. acked' = acked BY <1>1
  <2>2. t \in Handlers \cup {None} BY <1>11
  <2>3. h.msg \in 1..sent' BY <1>13, <1>14
  <2>4. \A r \in Senders \ {s} : sending[r] # None => sending[r].msg # h.msg BY <1>13
  <2> HIDE DEF h
  <2> QED BY <1>1, <1>2, <1>3, <1>4, <1>6, <1>10, <1>11, <1>12, <1>13, <1>14, <2>1, <2>2, <2>3, <2>4, SaveStep DEF h
<1>16. Typed' BY <1>1, <1>2, <1>14, <1>15 DEF Typed, routeVars, writeVars, clientVars
<1>17. ASSUME NEW d \in Devices PROVE DeviceOK(d)'
  <2>1. DeviceFixed(d) BY <1>1 DEF DeviceFixed, routeVars, writeVars, clientVars
  <2>2. Has(h, "toReceiver") => Has(t, "toReceiver") BY <1>11
  <2> QED BY <2>1, <2>2, <1>1, <1>2, <1>4, <1>6, <1>10, <1>11, <1>12, <1>15, SaveDevice
<1> QED BY <1>15, <1>16, <1>17 DEF IInv

-----------------------------------------------------------------------------
\* What comes to a device does not depend on the handlers; what a handler is yet
\* to tell is not lost by its other steps.
LEMMA TellSays ==
  ASSUME DeliveryAssumption, Typed, HandlersOK, NEW s \in Senders, NEW step, At(s, step), step # "save",
         sending' = [sending EXCEPT ![s] = Done(@)], NEW t \in Senders, NEW u, NEW id, ToTell(t, u, id)
  PROVE  \/ ToTell(t, u, id)'
         \/ step = "toReceiver" /\ u = Receiver /\ id = sending[s].msgid
         \/ step = "toSender" /\ u = Sender /\ id = sending[s].msgid2
<1> DEFINE h == sending[s]
<1>1. h # None /\ Head(h.todo) = step BY DEF At
<1>2. h \in Handlers /\ TodoOK(h.todo) BY <1>1, HandlerSays
<1>3. \/ Done(h) = None /\ \A x : Has(h, x) => x = step
      \/ /\ Done(h) # None
         /\ \A x : Has(Done(h), x) <=> Has(h, x) /\ x # step
         /\ Done(h).msgid = h.msgid /\ Done(h).msgid2 = h.msgid2
  BY <1>1, <1>2, DoneSays
<1>4. sending'[s] = Done(h) /\ \A r \in Senders : r # s => sending'[r] = sending[r] BY DEF Typed
<1>5. CASE t # s BY <1>4, <1>5 DEF ToTell, Has
<1>6. CASE t = s
  <2> DEFINE g == Done(h)
  <2>1. /\ h # None
        /\ \/ Has(h, "toReceiver") /\ u = Receiver /\ id = h.msgid
           \/ Has(h, "toSender") /\ ~Has(h, "save") /\ u = Sender /\ id = h.msgid2
    BY <1>6 DEF ToTell
  <2>2. ToTell(t, u, id)' <=>
          /\ g # None
          /\ \/ Has(g, "toReceiver") /\ u = Receiver /\ id = g.msgid
             \/ Has(g, "toSender") /\ ~Has(g, "save") /\ u = Sender /\ id = g.msgid2
    BY <1>4, <1>6 DEF ToTell, Has
  <2> HIDE DEF g, h
  <2> QED BY <2>1, <2>2, <1>3 DEF g, h
<1> QED BY <1>5, <1>6

\* HandleIMMessage acknowledges.
LEMMA AckInv ==
  ASSUME DeliveryAssumption, IInv, NEW s \in Senders, Ack(s)
  PROVE  IInv'
<1>1. /\ At(s, "ack") /\ acked' = acked \cup {sending[s].msg} /\ sending' = [sending EXCEPT ![s] = Done(@)]
      /\ UNCHANGED <<queue, sent, failures, routeVars, conn, logins, writeVars, clientVars, excused>>
  BY DEF Ack
<1>2. Typed /\ QueueOK /\ HandlersOK /\ AckedOK /\ (\A d \in Devices : DeviceOK(d)) BY DEF IInv
<1>3. NoneUntold BY <1>1 DEF NoneUntold
<1>4. QueueOK' /\ HandlersOK' /\ AckedOK' /\ sending' \in [Senders -> Handlers \cup {None}]
        /\ acked' \subseteq 1..sent
  BY <1>1, <1>2, <1>3, HandlersStep
<1>5. Typed' BY <1>1, <1>2, <1>4 DEF Typed, routeVars, writeVars, clientVars
<1>6. ASSUME NEW d \in Devices PROVE DeviceOK(d)'
  <2>1. DeviceFixed(d) /\ Excused(d)' = Excused(d) /\ Ids(UserOf[d])' = Ids(UserOf[d])
    BY <1>1 DEF DeviceFixed, routeVars, writeVars, clientVars, Excused, Ids
  <2>2. ASSUME NEW id, Covered(d, id) PROVE Covered(d, id)'
    <3>1. CASE Coming(d, id) BY <3>1, <2>1, ComingFixed DEF Covered
    <3>2. CASE ~Coming(d, id)
      <4>1. PICK t \in Senders : ToTell(t, UserOf[d], id) BY <3>2, <2>2 DEF Covered
      <4>2. "ack" # "save" /\ "ack" # "toReceiver" /\ "ack" # "toSender" OBVIOUS
      <4> DEFINE step == "ack"
      <4>3. At(s, step) /\ step # "save" BY <4>2, <1>1
      <4> HIDE DEF step
      <4>4. \/ ToTell(t, UserOf[d], id)'
            \/ step = "toReceiver" /\ UserOf[d] = Receiver /\ id = sending[s].msgid
            \/ step = "toSender" /\ UserOf[d] = Sender /\ id = sending[s].msgid2
        BY <4>1, <4>3, <1>1, <1>2, TellSays
      <4>5. ToTell(t, UserOf[d], id)' BY <4>2, <4>4 DEF step
      <4> QED BY <4>5 DEF Covered
    <3> QED BY <3>1, <3>2
  <2>3. /\ ClientOK(d) /\ NoGap(d) /\ InOrder(d) /\ ConnOK(d) /\ NetPaired(d)
        /\ Live(d) => Paired(d) /\ \A id \in Ids(UserOf[d]) : Covered(d, id)
    BY <1>2 DEF DeviceOK
  <2>4. /\ ClientOK(d)' /\ NoGap(d)' /\ ConnOK(d)' /\ NetPaired(d)'
        /\ (Live(d)' => Live(d)) /\ (Paired(d) => Paired(d)')
    BY <2>1, <2>3 DEF ClientOK, Known, NoGap, ConnOK, NetPaired, Paired, Live, DeviceFixed
  <2>5. InOrder(d)' BY <2>1, <2>3 DEF InOrder, End, New, DeviceFixed
  <2> QED BY <2>1, <2>2, <2>3, <2>4, <2>5 DEF DeviceOK
<1> QED BY <1>4, <1>5, <1>6 DEF IInv

-----------------------------------------------------------------------------
\* Something in a list, or on the way to it, makes the client ask for id.
InList(list, id) == \E i \in DOMAIN list : id <= list[i].about
InNet(list, id)  == \E i \in DOMAIN list : list[i].kind = "notify" /\ id <= list[i].about

\* What the client and its answers are.
ClientFixed(d) ==
  req'[d] = req[d] /\ pwt'[d] = pwt[d] /\ sync_key'[d] = sync_key[d] /\ got'[d] = got[d]

\* The client stays in order when only more is excused.
LEMMA ClientKept ==
  ASSUME NEW d \in Devices, ClientFixed(d), UNCHANGED queue, ClientOK(d), NoGap(d), InOrder(d),
         Excused(d)' \subseteq Ids(UserOf[d])
  PROVE  ClientOK(d)' /\ NoGap(d)' /\ InOrder(d)'
<1>1. Ids(UserOf[d])' = Ids(UserOf[d]) BY DEF Ids
<1>2. ClientOK(d)' BY <1>1 DEF ClientOK, Known, ClientFixed
<1>3. NoGap(d)' BY <1>1 DEF NoGap, ClientFixed
<1>4. InOrder(d)' BY <1>1 DEF InOrder, End, New, ClientFixed
<1> QED BY <1>2, <1>3, <1>4

\* What came still comes when the lists still tell of it.
LEMMA ComingOn ==
  ASSUME NEW d \in Devices, ClientFixed(d), wt'[d] = wt[d], Excused(d) \subseteq Excused(d)',
         NEW id, Coming(d, id),
         InList(messages[d], id) => InList(messages'[d], id) \/ id \in Excused(d)',
         InNet(net[d], id) => InNet(net'[d], id) \/ InList(messages'[d], id) \/ id \in Excused(d)'
  PROVE  Coming(d, id)'
BY DEF ClientFixed, Coming, MoreCovers, InList, InNet

\* A device that a step does not concern.
LEMMA DeviceKept ==
  ASSUME NEW d \in Devices, DeviceFixed(d), UNCHANGED <<queue, sending>>, excused'[d] = excused[d], DeviceOK(d)
  PROVE  DeviceOK(d)'
<1>1. /\ ClientOK(d) /\ NoGap(d) /\ InOrder(d) /\ ConnOK(d) /\ NetPaired(d)
      /\ Live(d) => Paired(d) /\ \A id \in Ids(UserOf[d]) : Covered(d, id)
  BY DEF DeviceOK
<1>2. Excused(d)' = Excused(d) /\ Ids(UserOf[d])' = Ids(UserOf[d]) BY DEF Excused, Ids
<1>3. ClientOK(d)' /\ NoGap(d)' /\ InOrder(d)'
  <2>1. ClientFixed(d) /\ Excused(d)' \subseteq Ids(UserOf[d]) BY <1>1, <1>2 DEF DeviceFixed, ClientFixed, ClientOK
  <2> QED BY <2>1, <1>1, ClientKept
<1>4. ConnOK(d)' /\ NetPaired(d)' /\ (Live(d)' => Live(d)) /\ (Paired(d) => Paired(d)')
  BY <1>1 DEF ConnOK, NetPaired, Paired, Live, DeviceFixed
<1>5. ASSUME NEW id, Covered(d, id) PROVE Covered(d, id)'
  <2>1. Coming(d, id) => Coming(d, id)' BY <1>2, ComingFixed
  <2>2. \A s \in Senders : ToTell(s, UserOf[d], id) => ToTell(s, UserOf[d], id)' BY DEF ToTell, Has
  <2> QED BY <2>1, <2>2, <1>5 DEF Covered
<1> QED BY <1>1, <1>2, <1>3, <1>4, <1>5 DEF DeviceOK

\* A list behind another, of which a message still awaits its notification.
LEMMA PairedConcat ==
  ASSUME NEW l \in Seq(Items), NEW m \in Seq(Items), m # << >>, NEW next, NEW next2,
         PairedIn(l, next), next # << >> => Head(next) = m[1], PairedIn(m, next2)
  PROVE  PairedIn(l \o m, next2)
<1>1. /\ l \o m \in Seq(Items) /\ Len(l \o m) = Len(l) + Len(m) /\ Len(l) \in Nat /\ Len(m) \in Nat
      /\ \A i \in 1..Len(l) : (l \o m)[i] = l[i]
      /\ \A i \in 1..Len(m) : (l \o m)[Len(l) + i] = m[i]
  BY ConcatSays
<1>2. DOMAIN (l \o m) = 1..Len(l) + Len(m) /\ DOMAIN l = 1..Len(l) /\ DOMAIN m = 1..Len(m) BY <1>1
<1>3. 1 \in 1..Len(m) BY <1>1
<1> DEFINE c == l \o m
<1> HIDE DEF c
<1> SUFFICES ASSUME NEW i \in DOMAIN c, c[i].kind = "im"
             PROVE  \/ \E j \in DOMAIN c : i < j /\ Follows(c[j], c[i])
                    \/ i = Len(c) /\ next2 # << >> /\ Follows(Head(next2), c[i])
  BY DEF PairedIn, c
<1>4. CASE i \in 1..Len(l)
  <2>1. c[i] = l[i] BY <1>4, <1>1 DEF c
  <2>2. CASE \E j \in DOMAIN l : i < j /\ Follows(l[j], l[i])
    <3>1. PICK j \in DOMAIN l : i < j /\ Follows(l[j], l[i]) BY <2>2
    <3>2. j \in DOMAIN c /\ c[j] = l[j] BY <1>1, <1>2 DEF c
    <3> QED BY <3>1, <3>2, <2>1
  <2>3. CASE i = Len(l) /\ next # << >> /\ Follows(Head(next), l[i])
    <3>1. Len(l) + 1 \in DOMAIN c /\ c[Len(l) + 1] = m[1] /\ i < Len(l) + 1 BY <2>3, <1>1, <1>2, <1>3 DEF c
    <3>2. Head(next) = m[1] BY <2>3
    <3>3. Follows(c[Len(l) + 1], c[i]) BY <2>1, <2>3, <3>1, <3>2
    <3> QED BY <3>1, <3>3
  <2> QED BY <2>1, <2>2, <2>3, <1>2, <1>4 DEF PairedIn
<1>5. CASE i \notin 1..Len(l)
  <2> DEFINE k == i - Len(l)
  <2>1. k \in DOMAIN m /\ c[i] = m[k] /\ i = Len(l) + k
    <3>1. i \in 1..Len(l) + Len(m) BY <1>2 DEF c
    <3>2. k \in 1..Len(m) /\ i = Len(l) + k BY <3>1, <1>1, <1>5
    <3>3. c[Len(l) + k] = m[k] BY <3>2, <1>1 DEF c
    <3> QED BY <3>2, <3>3, <1>2
  <2> HIDE DEF k
  <2>2. k \in Nat BY <2>1, <1>2
  <2>3. CASE \E j \in DOMAIN m : k < j /\ Follows(m[j], m[k])
    <3>1. PICK j \in DOMAIN m : k < j /\ Follows(m[j], m[k]) BY <2>3
    <3>2. Len(l) + j \in DOMAIN c /\ c[Len(l) + j] = m[j] /\ i < Len(l) + j
      BY <3>1, <2>1, <2>2, <1>1, <1>2 DEF c
    <3> QED BY <3>1, <3>2, <2>1
  <2>4. CASE k = Len(m) /\ next2 # << >> /\ Follows(Head(next2), m[k])
    <3>1. i = Len(c) BY <2>1, <2>4, <1>1 DEF c
    <3> QED BY <3>1, <2>1, <2>4
  <2> QED BY <2>1, <2>3, <2>4 DEF PairedIn
<1> QED BY <1>4, <1>5

\* The end of a list is as the list.
LEMMA PairedSuffix ==
  ASSUME DeliveryAssumption, NEW l \in Seq(Items), NEW next, PairedIn(l, next)
  PROVE  PairedIn(Shortened(l), next)
<1> DEFINE c == Shortened(l)
<1>1. c \in Seq(Items) BY ShortenedSays
<1>2. PICK k \in 0..Len(l) : Len(c) = Len(l) - k /\ \A i \in 1..Len(l) - k : c[i] = l[i + k]
  BY ShortenedSays
<1>3. Len(l) \in Nat /\ DOMAIN l = 1..Len(l) OBVIOUS
<1> HIDE DEF c
<1>4. DOMAIN c = 1..Len(l) - k BY <1>1, <1>2
<1> SUFFICES ASSUME NEW i \in DOMAIN c, c[i].kind = "im"
             PROVE  \/ \E j \in DOMAIN c : i < j /\ Follows(c[j], c[i])
                    \/ i = Len(c) /\ next # << >> /\ Follows(Head(next), c[i])
  BY DEF PairedIn, c
<1>5. i + k \in DOMAIN l /\ c[i] = l[i + k] BY <1>2, <1>3, <1>4
<1>6. CASE \E j \in DOMAIN l : i + k < j /\ Follows(l[j], l[i + k])
  <2>1. PICK j \in DOMAIN l : i + k < j /\ Follows(l[j], l[i + k]) BY <1>6
  <2>2. j - k \in 1..Len(l) - k /\ i < j - k /\ (j - k) + k = j BY <2>1, <1>2, <1>3, <1>4
  <2>3. c[j - k] = l[j] BY <2>2, <1>2
  <2> QED BY <2>1, <2>2, <2>3, <1>4, <1>5
<1>7. CASE i + k = Len(l) /\ next # << >> /\ Follows(Head(next), l[i + k])
  <2>1. i = Len(c) BY <1>2, <1>3, <1>4, <1>7
  <2> QED BY <2>1, <1>5, <1>7
<1> QED BY <1>5, <1>6, <1>7 DEF PairedIn

\* EnqueueNonBlockMessage: what was in the list, or is put into it, is still told
\* or was lost.
LEMMA EnqueuedSays ==
  ASSUME DeliveryAssumption, Typed, QueueTypes, NEW d \in Devices, NEW items \in Seq(Items), items # << >>,
         NEW next, PairedIn(messages[d], net[d]), net[d] # << >> => Head(net[d]) = items[1],
         PairedIn(items, next)
  PROVE  /\ Enqueued(d, items) \in Seq(Items) /\ Len(Enqueued(d, items)) <= MESSAGE_QUEUE_LIMIT
         /\ Dropped(d, items) \subseteq [id : Ids(UserOf[d]), why : {"dropped"}]
         /\ Accepts(d) =>
              /\ PairedIn(Enqueued(d, items), next)
              /\ \A id \in Ids(UserOf[d]) :
                   InList(messages[d], id) \/ InList(items, id) =>
                     InList(Enqueued(d, items), id) \/ [id |-> id, why |-> "dropped"] \in Dropped(d, items)
<1> DEFINE all == messages[d] \o items
<1>1. messages[d] \in Seq(Items) /\ Len(messages[d]) <= MESSAGE_QUEUE_LIMIT BY DEF Typed
<1>2. /\ all \in Seq(Items) /\ Len(all) = Len(messages[d]) + Len(items) /\ Len(messages[d]) \in Nat
      /\ Len(items) \in Nat
      /\ \A i \in 1..Len(messages[d]) : all[i] = messages[d][i]
      /\ \A i \in 1..Len(items) : all[Len(messages[d]) + i] = items[i]
  BY <1>1, ConcatSays
<1>3. Enqueued(d, items) = IF Accepts(d) THEN Shortened(all) ELSE messages[d] BY DEF Enqueued
<1>4. DOMAIN all = 1..Len(messages[d]) + Len(items) /\ DOMAIN messages[d] = 1..Len(messages[d])
      /\ DOMAIN items = 1..Len(items)
  BY <1>1, <1>2
<1> DEFINE UpTo(list) == {id \in Ids(UserOf[d]) : \E i \in DOMAIN list : id <= list[i].about}
<1>5. Dropped(d, items) = IF Accepts(d) THEN Excuse(UpTo(all) \ UpTo(Shortened(all)), "dropped") ELSE {}
  BY DEF Dropped
<1> HIDE DEF all
<1>6. Shortened(all) \in Seq(Items) /\ Len(Shortened(all)) <= MESSAGE_QUEUE_LIMIT BY <1>2, ShortenedSays
<1>7. PairedIn(all, next) BY <1>1, PairedConcat DEF all
<1>8. PairedIn(Shortened(all), next) BY <1>2, <1>7, PairedSuffix
<1>9. Enqueued(d, items) \in Seq(Items) /\ Len(Enqueued(d, items)) <= MESSAGE_QUEUE_LIMIT BY <1>1, <1>3, <1>6
<1>10. Dropped(d, items) \subseteq [id : Ids(UserOf[d]), why : {"dropped"}] BY <1>5 DEF Excuse
<1>11. ASSUME NEW id, InList(messages[d], id) \/ InList(items, id) PROVE InList(all, id)
  <2>1. CASE InList(messages[d], id)
    <3>1. PICK i \in DOMAIN messages[d] : id <= messages[d][i].about BY <2>1 DEF InList
    <3>2. i \in DOMAIN all /\ all[i] = messages[d][i] BY <1>2, <1>4
    <3> QED BY <3>1, <3>2 DEF InList
  <2>2. CASE InList(items, id)
    <3>1. PICK i \in DOMAIN items : id <= items[i].about BY <2>2 DEF InList
    <3>2. Len(messages[d]) + i \in DOMAIN all /\ all[Len(messages[d]) + i] = items[i] BY <1>2, <1>4
    <3> QED BY <3>1, <3>2 DEF InList
  <2> QED BY <2>1, <2>2, <1>11
<1>12. ASSUME Accepts(d), NEW id \in Ids(UserOf[d]), InList(messages[d], id) \/ InList(items, id)
       PROVE  InList(Enqueued(d, items), id) \/ [id |-> id, why |-> "dropped"] \in Dropped(d, items)
  <2>1. id \in UpTo(all) BY <1>11, <1>12 DEF InList
  <2>2. CASE id \in UpTo(Shortened(all)) BY <2>2, <1>3, <1>12 DEF InList
  <2>3. CASE id \notin UpTo(Shortened(all)) BY <2>1, <2>3, <1>5, <1>12 DEF Excuse
  <2> QED BY <2>2, <2>3
<1> QED BY <1>3, <1>8, <1>9, <1>10, <1>12

-----------------------------------------------------------------------------
\* The message itself and its notification, in this order.
SendItems(kind, key, id) ==
  LET notify == [kind |-> "notify", key |-> key, about |-> id]
  IN IF kind \notin {"im", "customer"} THEN <<notify>>
     ELSE <<[kind |-> "im", key |-> id, about |-> id], notify>>

\* SendMessage sends what it is about, and the notification behind the message.
LEMMA ItemsSay ==
  ASSUME NEW kind, NEW key \in Nat, NEW id \in Nat
  PROVE  LET items == SendItems(kind, key, id) IN
         /\ items \in Seq(Items) /\ items # << >> /\ PairedIn(items, << >>)
         /\ InList(items, id) /\ InNet(items, id) /\ Len(items) \in {1, 2}
         /\ \A i \in DOMAIN items : items[i].kind = "im" => i < Len(items) /\ Follows(items[i + 1], items[i])
<1> DEFINE notify == [kind |-> "notify", key |-> key, about |-> id]
           im == [kind |-> "im", key |-> id, about |-> id]
           items == SendItems(kind, key, id)
<1>1. notify \in Items /\ im \in Items BY DEF Items
<1>2. notify.kind = "notify" /\ notify.about = id /\ im.kind = "im" /\ im.about = id /\ id <= id OBVIOUS
<1>3. items = <<notify>> \/ items = <<im, notify>> BY DEF SendItems
<1> HIDE DEF notify, im, items
<1>4. CASE items = <<notify>>
  <2>1. Len(items) = 1 /\ items[1] = notify /\ DOMAIN items = {1} /\ items \in Seq(Items) /\ items # << >>
    BY <1>1, <1>4
  <2> QED BY <2>1, <1>2 DEF PairedIn, InList, InNet, items
<1>5. CASE items = <<im, notify>>
  <2>1. /\ Len(items) = 2 /\ items[1] = im /\ items[2] = notify /\ DOMAIN items = {1, 2}
        /\ items \in Seq(Items) /\ items # << >>
    BY <1>1, <1>5
  <2>2. Follows(notify, im) BY <1>2 DEF Follows
  <2>3. \A i \in DOMAIN items : items[i].kind = "im" => i < Len(items) /\ Follows(items[i + 1], items[i])
    BY <2>1, <2>2, <1>2
  <2> QED BY <2>1, <2>2, <2>3, <1>2 DEF PairedIn, InList, InNet, items
<1> QED BY <1>3, <1>4, <1>5

\* The device d, when SendMessage sends what is in items.
SentTo(d, u, items, id) ==
  /\ net'[d] = IF UserOf[d] = u /\ d \in subscribed THEN net[d] \o items ELSE net[d]
  /\ messages'[d] = IF UserOf[d] = u /\ d \notin Remote /\ Routed(d) THEN Enqueued(d, items) ELSE messages[d]
  /\ excused'[d] = excused[d]
       \cup (IF UserOf[d] = u /\ d \notin Remote /\ Routed(d) THEN Dropped(d, items) ELSE {})
       \cup (IF UserOf[d] = u /\ d \in Remote /\ d \notin subscribed /\ conn[d] = "in" /\ req[d] = << >>
               THEN Excuse({id}, "unsubscribed") ELSE {})

\* SendMessage, seen from each device.
LEMMA SentSays ==
  ASSUME NEW u, NEW kind, NEW key, NEW id, SendMessage(u, kind, key, id)
  PROVE  /\ \A d \in Devices : SentTo(d, u, SendItems(kind, key, id), id)
         /\ net' = [d \in Devices |-> net'[d]] /\ messages' = [d \in Devices |-> messages'[d]]
         /\ excused' = [d \in Devices |-> excused'[d]]
         /\ UNCHANGED <<subscribed, subscribing>>
<1> DEFINE items == SendItems(kind, key, id)
           devices == {d \in Devices : UserOf[d] = u}
           unknown == {d \in devices \cap Remote : d \notin subscribed /\ conn[d] = "in" /\ req[d] = << >>}
           local   == {d \in devices \ Remote : Routed(d)}
<1>1. /\ net' = [d \in Devices |-> IF d \in devices \cap subscribed THEN net[d] \o items ELSE net[d]]
      /\ messages' = [d \in Devices |-> IF d \in local THEN Enqueued(d, items) ELSE messages[d]]
      /\ excused' = [d \in Devices |->
                      excused[d] \cup (IF d \in local THEN Dropped(d, items) ELSE {})
                                 \cup (IF d \in unknown THEN Excuse({id}, "unsubscribed") ELSE {})]
      /\ UNCHANGED <<subscribed, subscribing>>
  BY Zenon DEF SendMessage, HandlePublish, SendItems
<1> HIDE DEF items
<1>2. ASSUME NEW d \in Devices PROVE SentTo(d, u, items, id)
  <2>1. net'[d] = IF d \in devices \cap subscribed THEN net[d] \o items ELSE net[d] BY <1>1
  <2>2. messages'[d] = IF d \in local THEN Enqueued(d, items) ELSE messages[d] BY <1>1
  <2>3. excused'[d] = excused[d] \cup (IF d \in local THEN Dropped(d, items) ELSE {})
                                 \cup (IF d \in unknown THEN Excuse({id}, "unsubscribed") ELSE {})
    BY <1>1
  <2> QED BY <2>1, <2>2, <2>3 DEF SentTo
<1>3. /\ net' = [d \in Devices |-> net'[d]] /\ messages' = [d \in Devices |-> messages'[d]]
      /\ excused' = [d \in Devices |-> excused'[d]]
  BY <1>1
<1> QED BY <1>1, <1>2, <1>3 DEF items

\* Lists on the way stay paired.
LEMMA NetConcat ==
  ASSUME NEW l \in Seq(Items), NEW m \in Seq(Items),
         \A i \in DOMAIN l : l[i].kind = "im" => i < Len(l) /\ Follows(l[i + 1], l[i]),
         \A i \in DOMAIN m : m[i].kind = "im" => i < Len(m) /\ Follows(m[i + 1], m[i])
  PROVE  /\ \A i \in DOMAIN (l \o m) : (l \o m)[i].kind = "im" =>
              i < Len(l \o m) /\ Follows((l \o m)[i + 1], (l \o m)[i])
         /\ \A id : InNet(l, id) \/ InNet(m, id) => InNet(l \o m, id)
<1> DEFINE c == l \o m
<1>1. /\ c \in Seq(Items) /\ Len(c) = Len(l) + Len(m) /\ Len(l) \in Nat /\ Len(m) \in Nat
      /\ \A i \in 1..Len(l) : c[i] = l[i]
      /\ \A i \in 1..Len(m) : c[Len(l) + i] = m[i]
  BY ConcatSays
<1> HIDE DEF c
<1>2. DOMAIN c = 1..Len(l) + Len(m) /\ DOMAIN l = 1..Len(l) /\ DOMAIN m = 1..Len(m) BY <1>1
<1>3. ASSUME NEW i \in DOMAIN c, c[i].kind = "im" PROVE i < Len(c) /\ Follows(c[i + 1], c[i])
  <2>1. CASE i \in 1..Len(l)
    <3>1. c[i] = l[i] /\ i < Len(l) /\ Follows(l[i + 1], l[i]) BY <1>1, <1>2, <1>3, <2>1
    <3>2. c[i + 1] = l[i + 1] /\ i < Len(c) BY <3>1, <2>1, <1>1
    <3> QED BY <3>1, <3>2
  <2>2. CASE i \notin 1..Len(l)
    <3>1. PICK k \in 1..Len(m) : i = Len(l) + k
      <4>1. i - Len(l) \in 1..Len(m) /\ i = Len(l) + (i - Len(l)) BY <2>2, <1>1, <1>2
      <4> QED BY <4>1
    <3>2. c[i] = m[k] BY <3>1, <1>1
    <3>3. k < Len(m) /\ Follows(m[k + 1], m[k]) BY <3>2, <1>2, <1>3
    <3>4. c[Len(l) + (k + 1)] = m[k + 1] BY <3>1, <3>3, <1>1
    <3>5. i + 1 = Len(l) + (k + 1) /\ i < Len(c) BY <3>1, <3>3, <1>1
    <3> QED BY <3>2, <3>3, <3>4, <3>5
  <2> QED BY <2>1, <2>2
<1>4. ASSUME NEW id, InNet(l, id) \/ InNet(m, id) PROVE InNet(c, id)
  <2>1. CASE InNet(l, id)
    <3>1. PICK i \in DOMAIN l : l[i].kind = "notify" /\ id <= l[i].about BY <2>1 DEF InNet
    <3>2. i \in DOMAIN c /\ c[i] = l[i] BY <1>1, <1>2
    <3> QED BY <3>1, <3>2 DEF InNet
  <2>2. CASE InNet(m, id)
    <3>1. PICK i \in DOMAIN m : m[i].kind = "notify" /\ id <= m[i].about BY <2>2 DEF InNet
    <3>2. Len(l) + i \in DOMAIN c /\ c[Len(l) + i] = m[i] BY <1>1, <1>2
    <3> QED BY <3>1, <3>2 DEF InNet
  <2> QED BY <2>1, <2>2, <1>4
<1> QED BY <1>3, <1>4 DEF c

\* A device of the user to whom a message is sent.
LEMMA SentDevice ==
  ASSUME DeliveryAssumption, Typed, QueueTypes, NEW d \in Devices, DeviceOK(d), NEW u \in Users,
         NEW kind, NEW key \in Nat, NEW id \in Ids(u), SentTo(d, u, SendItems(kind, key, id), id),
         UNCHANGED <<queue, conn, wt, pwt, tc, clientVars>>
  PROVE  /\ net'[d] \in Seq(Items) /\ messages'[d] \in Seq(Items) /\ Len(messages'[d]) <= MESSAGE_QUEUE_LIMIT
         /\ excused'[d] \in SUBSET [id : Nat, why : Reasons]
         /\ \A e \in excused'[d] : e \in excused[d] \/ e.why # "untold"
         /\ ClientOK(d)' /\ NoGap(d)' /\ InOrder(d)' /\ ConnOK(d)' /\ NetPaired(d)'
         /\ Live(d)' => Live(d) /\ Paired(d)'
         /\ Live(d) => \A i \in Ids(UserOf[d]) : \/ Coming(d, i)
                                                 \/ UserOf[d] = u /\ i = id
                                                 => Coming(d, i)'
<1> DEFINE items == SendItems(kind, key, id)
           local == UserOf[d] = u /\ d \notin Remote /\ Routed(d)
           far == UserOf[d] = u /\ d \in subscribed
           unknown == UserOf[d] = u /\ d \in Remote /\ d \notin subscribed /\ conn[d] = "in" /\ req[d] = << >>
<1>1. /\ ClientOK(d) /\ NoGap(d) /\ InOrder(d) /\ ConnOK(d) /\ NetPaired(d)
      /\ Live(d) => Paired(d)
  BY DEF DeviceOK
<1>2. /\ UserOf[d] \in Users /\ Ids(UserOf[d]) \in SUBSET Nat
      /\ messages[d] \in Seq(Items) /\ net[d] \in Seq(Items) /\ excused[d] \subseteq [id : Nat, why : Reasons]
      /\ Len(messages[d]) <= MESSAGE_QUEUE_LIMIT
  BY DeviceFacts DEF Typed
<1>3. id \in Nat BY QueueFacts
<1>4. /\ items \in Seq(Items) /\ items # << >> /\ PairedIn(items, << >>)
      /\ InList(items, id) /\ InNet(items, id) /\ Len(items) \in {1, 2}
      /\ \A i \in DOMAIN items : items[i].kind = "im" => i < Len(items) /\ Follows(items[i + 1], items[i])
  BY <1>3, ItemsSay
<1>5. /\ net'[d] = IF far THEN net[d] \o items ELSE net[d]
      /\ messages'[d] = IF local THEN Enqueued(d, items) ELSE messages[d]
      /\ excused'[d] = excused[d] \cup (IF local THEN Dropped(d, items) ELSE {})
                         \cup (IF unknown THEN Excuse({id}, "unsubscribed") ELSE {})
  BY DEF SentTo
<1> HIDE DEF items
<1>6. subscribed \subseteq Remote /\ (d \notin Remote => net[d] = << >>)
  BY <1>1 DEF Typed, NetPaired
<1>7. ASSUME Live(d), local
      PROVE  /\ Enqueued(d, items) \in Seq(Items) /\ Len(Enqueued(d, items)) <= MESSAGE_QUEUE_LIMIT
             /\ PairedIn(Enqueued(d, items), << >>)
             /\ \A i \in Ids(UserOf[d]) :
                  InList(messages[d], i) \/ InList(items, i) =>
                    InList(Enqueued(d, items), i) \/ [id |-> i, why |-> "dropped"] \in Dropped(d, items)
  <2>1. net[d] = << >> /\ PairedIn(messages[d], << >>) BY <1>1, <1>6, <1>7 DEF Paired
  <2>2. Accepts(d) BY <1>7 DEF Accepts, Live
  <2>3. (net[d] # << >> => Head(net[d]) = items[1]) /\ PairedIn(messages[d], net[d]) BY <2>1
  <2> QED BY <2>2, <2>3, <1>4, EnqueuedSays
<1>8. /\ Enqueued(d, items) \in Seq(Items) /\ Len(Enqueued(d, items)) <= MESSAGE_QUEUE_LIMIT
  <2>1. Enqueued(d, items) = IF Accepts(d) THEN Shortened(messages[d] \o items) ELSE messages[d] BY DEF Enqueued
  <2>2. messages[d] \o items \in Seq(Items) BY <1>2, <1>4, ConcatSays
  <2>3. /\ Shortened(messages[d] \o items) \in Seq(Items)
        /\ Len(Shortened(messages[d] \o items)) <= MESSAGE_QUEUE_LIMIT
    BY <2>2, ShortenedSays
  <2> QED BY <2>1, <2>3, <1>2
<1>9. Dropped(d, items) \subseteq [id : Ids(UserOf[d]), why : {"dropped"}]
  <2> DEFINE UpTo(list) == {i \in Ids(UserOf[d]) : \E j \in DOMAIN list : i <= list[j].about}
             lost == UpTo(messages[d] \o items) \ UpTo(Shortened(messages[d] \o items))
  <2>1. Dropped(d, items) = IF Accepts(d) THEN Excuse(lost, "dropped") ELSE {} BY DEF Dropped
  <2>2. lost \subseteq Ids(UserOf[d]) OBVIOUS
  <2> HIDE DEF lost
  <2> QED BY <2>1, <2>2 DEF Excuse
<1>10. ASSUME NEW e \in excused'[d]
       PROVE  \/ e \in excused[d]
              \/ e \in [id : Ids(UserOf[d]), why : {"dropped", "unsubscribed"}]
  <2>1. \/ e \in excused[d] \/ e \in Dropped(d, items)
        \/ unknown /\ e \in Excuse({id}, "unsubscribed")
    BY <1>5, <1>10
  <2>2. CASE unknown /\ e \in Excuse({id}, "unsubscribed")
    BY <2>2 DEF Excuse
  <2> QED BY <2>1, <2>2, <1>9
<1>11. excused'[d] \in SUBSET [id : Nat, why : Reasons]
  <2>1. [id : Ids(UserOf[d]), why : {"dropped", "unsubscribed"}] \subseteq [id : Nat, why : Reasons]
    BY <1>2 DEF Reasons
  <2> QED BY <2>1, <1>2, <1>10
<1>12. \A e \in excused'[d] : e \in excused[d] \/ e.why # "untold" BY <1>10
<1>13. Excused(d) \subseteq Excused(d)' BY <1>5 DEF Excused
<1>14. Excused(d)' \subseteq Ids(UserOf[d])
  <2>1. Excused(d) \subseteq Ids(UserOf[d]) BY <1>1 DEF ClientOK
  <2>2. ASSUME NEW e \in excused'[d] PROVE e.id \in Ids(UserOf[d])
    BY <2>1, <1>10 DEF Excused
  <2> QED BY <2>2 DEF Excused
<1>15. ClientFixed(d) /\ wt'[d] = wt[d] /\ conn'[d] = conn[d] /\ tc'[d] = tc[d] BY DEF ClientFixed, clientVars
<1>16. ClientOK(d)' /\ NoGap(d)' /\ InOrder(d)' BY <1>1, <1>14, <1>15, ClientKept
<1>17. net'[d] \in Seq(Items) /\ messages'[d] \in Seq(Items) /\ Len(messages'[d]) <= MESSAGE_QUEUE_LIMIT
  <2>1. net[d] \o items \in Seq(Items) BY <1>2, <1>4, ConcatSays
  <2> QED BY <2>1, <1>2, <1>5, <1>8
<1>18. ConnOK(d)'
  <2>1. conn[d] \in {"off", "auth"} => messages'[d] = << >> BY <1>1, <1>5 DEF ConnOK, Routed
  <2> QED BY <2>1, <1>1, <1>15 DEF ConnOK, ClientFixed
<1>19. NetPaired(d)' /\ (\A i : far /\ (InNet(net[d], i) \/ InNet(items, i)) => InNet(net'[d], i))
  <2>1. CASE far
    <3> DEFINE l == net[d]
    <3>1. l \in Seq(Items) /\ \A i \in DOMAIN l : l[i].kind = "im" => i < Len(l) /\ Follows(l[i + 1], l[i])
      BY <1>1, <1>2 DEF NetPaired
    <3>2. net'[d] = l \o items /\ d \in Remote BY <2>1, <1>5, <1>6
    <3> HIDE DEF l
    <3>3. /\ \A i \in DOMAIN (l \o items) : (l \o items)[i].kind = "im" =>
                i < Len(l \o items) /\ Follows((l \o items)[i + 1], (l \o items)[i])
          /\ \A i : InNet(l, i) \/ InNet(items, i) => InNet(l \o items, i)
      BY <3>1, <1>4, NetConcat
    <3> QED BY <3>2, <3>3 DEF NetPaired, l
  <2>2. CASE ~far BY <2>2, <1>1, <1>5 DEF NetPaired
  <2> QED BY <2>1, <2>2
<1>20. Live(d)' => Live(d) BY <1>15 DEF Live
<1>21. ASSUME Live(d) PROVE Paired(d)'
  <2>1. CASE local
    <3>1. messages'[d] = Enqueued(d, items) BY <2>1, <1>5
    <3>2. PairedIn(messages'[d], << >>) BY <2>1, <3>1, <1>7, <1>21
    <3>3. net'[d] = << >> BY <2>1, <1>5, <1>6
    <3> QED BY <3>2, <3>3 DEF Paired
  <2>2. CASE ~local
    <3>1. messages'[d] = messages[d] /\ PairedIn(messages[d], net[d]) BY <2>2, <1>1, <1>5, <1>21 DEF Paired
    <3>2. CASE ~far BY <3>1, <3>2, <1>5 DEF Paired
    <3>3. CASE far
      <4>1. net'[d] = net[d] \o items BY <3>3, <1>5
      <4>2. net[d] # << >> => net'[d] # << >> /\ Head(net'[d]) = Head(net[d])
        BY <4>1, <1>2, <1>4
      <4>3. PairedIn(messages[d], net'[d]) BY <3>1, <4>2 DEF PairedIn
      <4> QED BY <3>1, <4>3 DEF Paired
    <3> QED BY <3>2, <3>3
  <2> QED BY <2>1, <2>2
<1>22. ASSUME Live(d), NEW i \in Ids(UserOf[d]), Coming(d, i) \/ (UserOf[d] = u /\ i = id)
       PROVE  Coming(d, i)'
  <2>0. /\ InList(messages[d], i) \/ (local /\ InList(items, i)) => InList(messages'[d], i) \/ i \in Excused(d)'
    <3>1. CASE local
      <4>1. ASSUME [id |-> i, why |-> "dropped"] \in Dropped(d, items) PROVE i \in Excused(d)'
        <5>1. [id |-> i, why |-> "dropped"] \in excused'[d] BY <4>1, <3>1, <1>5
        <5>2. [id |-> i, why |-> "dropped"].id = i OBVIOUS
        <5> QED BY <5>1, <5>2 DEF Excused
      <4> QED BY <4>1, <3>1, <1>5, <1>7, <1>22
    <3>2. CASE ~local BY <3>2, <1>5
    <3> QED BY <3>1, <3>2
  <2>1. CASE Coming(d, i)
    <3>1. InList(messages[d], i) => InList(messages'[d], i) \/ i \in Excused(d)' BY <2>0
    <3>2. InNet(net[d], i) => InNet(net'[d], i) BY <1>5, <1>19
    <3> QED BY <2>1, <3>1, <3>2, <1>13, <1>15, ComingOn
  <2>2. CASE UserOf[d] = u /\ i = id
    <3>1. CASE req[d] # << >>
      <4>1. req'[d] # << >> BY <3>1, <1>15 DEF ClientFixed
      <4> QED BY <4>1 DEF Coming
    <3>2. CASE req[d] = << >>
      <4>1. conn[d] = "in" BY <3>2, <1>1, <1>22 DEF ConnOK, Live
      <4>2. far \/ local \/ unknown BY <4>1, <2>2, <3>2, <1>6 DEF Routed
      <4>3. CASE far
        <5>1. InNet(net'[d], i) BY <4>3, <2>2, <1>4, <1>19
        <5> QED BY <5>1 DEF InNet, Coming
      <4>4. CASE local
        <5>1. InList(messages'[d], i) \/ i \in Excused(d)' BY <4>4, <2>0, <2>2, <1>4
        <5> QED BY <5>1 DEF InList, Coming
      <4>5. CASE unknown
        <5>1. [id |-> i, why |-> "unsubscribed"] \in excused'[d] BY <4>5, <2>2, <1>5 DEF Excuse
        <5>2. [id |-> i, why |-> "unsubscribed"].id = i OBVIOUS
        <5>3. i \in Excused(d)' BY <5>1, <5>2 DEF Excused
        <5> QED BY <5>3 DEF Coming
      <4> QED BY <4>2, <4>3, <4>4, <4>5
    <3> QED BY <3>1, <3>2
  <2> QED BY <2>1, <2>2, <1>22
<1> QED BY <1>11, <1>12, <1>16, <1>17, <1>18, <1>19, <1>20, <1>21, <1>22

\* A handler sends to the devices of u.
LEMMA SendInv ==
  ASSUME DeliveryAssumption, IInv, NEW s \in Senders, NEW step, step \in {"toReceiver", "toSender"}, At(s, step),
         NEW u, NEW id, NEW kind, NEW key \in Nat, SendMessage(u, kind, key, id),
         IF step = "toReceiver" THEN u = Receiver /\ id = sending[s].msgid
                                ELSE u = Sender /\ id = sending[s].msgid2,
         sending' = [sending EXCEPT ![s] = Done(@)],
         UNCHANGED <<storeVars, conn, logins, wt, pwt, tc, clientVars>>
  PROVE  IInv'
<1> DEFINE h == sending[s]
           items == SendItems(kind, key, id)
<1>1. h # None /\ Head(h.todo) = step /\ step # "save" /\ step # "ack" BY DEF At
<1>2. Typed /\ QueueOK /\ HandlersOK /\ AckedOK /\ (\A d \in Devices : DeviceOK(d)) BY DEF IInv
<1>3. QueueTypes BY <1>2, QueueSays
<1>4. h \in Handlers /\ TodoOK(h.todo) /\ (Has(h, "save") => Head(h.todo) = "save") BY <1>1, <1>2, HandlerSays
<1>5. Has(h, step) /\ ~Has(h, "save")
  <2>1. Has(h, Head(h.todo)) BY <1>4, DoneSays
  <2> QED BY <2>1, <1>1, <1>4
<1>6. u \in Users /\ id \in Ids(u)
  <2>1. Receiver \in Users /\ Sender \in Users BY DEF DeliveryAssumption
  <2>2. h.msgid \in Ids(Receiver) /\ (SavedToo(h) => h.msgid2 \in Ids(Sender)) BY <1>1, <1>2, HandlerIds
  <2>3. step = "toSender" => SavedToo(h) BY <1>5 DEF SavedToo
  <2> QED BY <2>1, <2>2, <2>3
<1>7. /\ \A d \in Devices : SentTo(d, u, items, id)
      /\ net' = [d \in Devices |-> net'[d]] /\ messages' = [d \in Devices |-> messages'[d]]
      /\ excused' = [d \in Devices |-> excused'[d]]
      /\ UNCHANGED <<subscribed, subscribing>>
  BY SentSays
<1>8. UNCHANGED <<queue, sent, failures, acked, conn, logins, wt, pwt, tc, clientVars, req, sync_key, got>>
  BY DEF storeVars, clientVars
<1>9. ASSUME NEW d \in Devices
      PROVE  /\ net'[d] \in Seq(Items) /\ messages'[d] \in Seq(Items) /\ Len(messages'[d]) <= MESSAGE_QUEUE_LIMIT
             /\ excused'[d] \in SUBSET [id : Nat, why : Reasons]
             /\ \A e \in excused'[d] : e \in excused[d] \/ e.why # "untold"
             /\ ClientOK(d)' /\ NoGap(d)' /\ InOrder(d)' /\ ConnOK(d)' /\ NetPaired(d)'
             /\ Live(d)' => Live(d) /\ Paired(d)'
             /\ Live(d) => \A i \in Ids(UserOf[d]) : \/ Coming(d, i)
                                                     \/ UserOf[d] = u /\ i = id
                                                     => Coming(d, i)'
  BY <1>2, <1>3, <1>6, <1>7, <1>8, SentDevice
<1>10. NoneUntold BY <1>9 DEF NoneUntold
<1>11. QueueOK' /\ HandlersOK' /\ AckedOK' /\ sending' \in [Senders -> Handlers \cup {None}]
         /\ acked' \subseteq 1..sent
  <2>1. IF step = "ack" THEN acked' = acked \cup {sending[s].msg} ELSE acked' = acked BY <1>1, <1>8
  <2> QED BY <2>1, <1>1, <1>2, <1>8, <1>10, HandlersStep
<1>12. Typed'
  <2>1. /\ net' \in [Devices -> Seq(Items)] /\ messages' \in [Devices -> Seq(Items)]
        /\ excused' \in [Devices -> SUBSET [id : Nat, why : Reasons]]
    BY <1>7, <1>9
  <2> QED BY <2>1, <1>2, <1>7, <1>8, <1>9, <1>11 DEF Typed
<1>13. ASSUME NEW d \in Devices PROVE DeviceOK(d)'
  <2>1. Ids(UserOf[d])' = Ids(UserOf[d]) BY <1>8 DEF Ids
  <2>2. ASSUME Live(d)', NEW i \in Ids(UserOf[d]) PROVE Covered(d, i)'
    <3>1. Live(d) /\ Covered(d, i) BY <1>2, <1>9, <2>2 DEF DeviceOK
    <3>2. CASE Coming(d, i) \/ (UserOf[d] = u /\ i = id)
      <4>1. Coming(d, i)' BY <1>9, <3>1, <3>2
      <4> QED BY <4>1 DEF Covered
    <3>3. CASE ~Coming(d, i) /\ ~(UserOf[d] = u /\ i = id)
      <4>1. PICK t \in Senders : ToTell(t, UserOf[d], i) BY <3>1, <3>3 DEF Covered
      <4>2. \/ ToTell(t, UserOf[d], i)'
            \/ step = "toReceiver" /\ UserOf[d] = Receiver /\ i = sending[s].msgid
            \/ step = "toSender" /\ UserOf[d] = Sender /\ i = sending[s].msgid2
        BY <4>1, <1>1, <1>2, TellSays
      <4>3. ToTell(t, UserOf[d], i)' BY <4>2, <3>3
      <4> QED BY <4>3 DEF Covered
    <3> QED BY <3>2, <3>3
  <2> QED BY <2>1, <2>2, <1>9 DEF DeviceOK
<1> QED BY <1>11, <1>12, <1>13 DEF IInv

\* HandleIMMessage, and the others, send the message to the receiver's devices.
LEMMA SendToReceiverInv ==
  ASSUME DeliveryAssumption, IInv, NEW s \in Senders, SendToReceiver(s)
  PROVE  IInv'
<1>1. /\ At(s, "toReceiver")
      /\ SendMessage(Receiver, sending[s].kind, sending[s].msgid, sending[s].msgid)
      /\ sending' = [sending EXCEPT ![s] = Done(@)]
      /\ UNCHANGED <<storeVars, conn, logins, wt, pwt, tc, clientVars>>
  BY DEF SendToReceiver
<1>2. sending[s].msgid \in Nat
  <2>1. sending[s] # None BY <1>1 DEF At
  <2> QED BY <2>1, HandlerSays DEF IInv
<1> DEFINE step == "toReceiver"
           k == sending[s].kind
<1>3. step \in {"toReceiver", "toSender"} /\ step = "toReceiver" /\ At(s, step) BY <1>1
<1>4. SendMessage(Receiver, k, sending[s].msgid, sending[s].msgid) BY <1>1
<1> HIDE DEF step, k
<1> QED BY <1>1, <1>2, <1>3, <1>4, SendInv

\* They send it to the sender's other log-ins.
LEMMA SendToSenderInv ==
  ASSUME DeliveryAssumption, IInv, NEW s \in Senders, SendToSender(s)
  PROVE  IInv'
<1>1. /\ At(s, "toSender")
      /\ SendMessage(Sender, sending[s].kind, OwnKey(sending[s]), sending[s].msgid2)
      /\ sending' = [sending EXCEPT ![s] = Done(@)]
      /\ UNCHANGED <<storeVars, conn, logins, wt, pwt, tc, clientVars>>
  BY DEF SendToSender
<1>2. sending[s].msgid \in Nat /\ sending[s].msgid2 \in Nat
  <2>1. sending[s] # None BY <1>1 DEF At
  <2> QED BY <2>1, HandlerSays DEF IInv
<1> DEFINE step == "toSender"
           k == sending[s].kind
           key == OwnKey(sending[s])
<1>3. step \in {"toReceiver", "toSender"} /\ step # "toReceiver" /\ At(s, step) BY <1>1
<1>4. SendMessage(Sender, k, key, sending[s].msgid2) BY <1>1
<1>5. key \in Nat BY <1>2 DEF OwnKey
<1> HIDE DEF step, k, key
<1> QED BY <1>1, <1>3, <1>4, <1>5, SendInv

-----------------------------------------------------------------------------
\* A step of one device leaves the others alone.
LEMMA DeviceStep ==
  ASSUME DeliveryAssumption, IInv, NEW d \in Devices, UNCHANGED <<queue, sent, sending, acked>>,
         \A e \in Devices \ {d} : DeviceFixed(e) /\ excused'[e] = excused[e],
         \A x \in excused'[d] : x \in excused[d] \/ x.why # "untold", Typed', DeviceOK(d)'
  PROVE  IInv'
<1>1. Typed /\ QueueOK /\ HandlersOK /\ AckedOK /\ (\A e \in Devices : DeviceOK(e)) BY DEF IInv
<1>2. NoneUntold
  <2> SUFFICES ASSUME NEW e \in Devices, NEW x \in excused'[e] PROVE x \in excused[e] \/ x.why # "untold"
    BY DEF NoneUntold
  <2>1. CASE e = d BY <2>1
  <2>2. CASE e # d BY <2>2
  <2> QED BY <2>1, <2>2
<1>3. QueueOK' /\ HandlersOK' /\ AckedOK' BY <1>1, <1>2, HandlersFixed
<1>4. ASSUME NEW e \in Devices PROVE DeviceOK(e)'
  <2>1. CASE e = d BY <2>1
  <2>2. CASE e # d BY <2>2, <1>1, DeviceKept
  <2> QED BY <2>1, <2>2
<1> QED BY <1>3, <1>4 DEF IInv

\* What a device that is in order is worth after one of its steps.
LEMMA DeviceNext ==
  ASSUME NEW d \in Devices, UNCHANGED <<queue, sending>>, ClientOK(d)', NoGap(d)', InOrder(d)', ConnOK(d)', NetPaired(d)',
         Live(d)' => Paired(d)',
         Live(d)' => \A id \in Ids(UserOf[d]) :
                       \/ Coming(d, id)'
                       \/ Covered(d, id) /\ (Coming(d, id) => Coming(d, id)')
  PROVE  DeviceOK(d)'
<1>1. Ids(UserOf[d])' = Ids(UserOf[d]) BY DEF Ids
<1>2. ASSUME NEW id, Covered(d, id), Coming(d, id) => Coming(d, id)' PROVE Covered(d, id)'
  <2>1. \A s \in Senders : ToTell(s, UserOf[d], id) => ToTell(s, UserOf[d], id)' BY DEF ToTell, Has
  <2> QED BY <2>1, <1>2 DEF Covered
<1>3. \A id : Coming(d, id)' => Covered(d, id)' BY DEF Covered
<1> QED BY <1>1, <1>2, <1>3 DEF DeviceOK

\* What DeviceOK has.
LEMMA DeviceSays ==
  ASSUME IInv, NEW d \in Devices
  PROVE  /\ Typed /\ QueueTypes
         /\ ClientOK(d) /\ NoGap(d) /\ InOrder(d) /\ ConnOK(d) /\ NetPaired(d)
         /\ Live(d) => Paired(d) /\ \A id \in Ids(UserOf[d]) : Covered(d, id)
BY QueueSays DEF IInv, DeviceOK

\* The client does not change, nor what comes to it.
LEMMA OnlyConn ==
  ASSUME DeliveryAssumption, IInv, NEW d \in Devices,
         UNCHANGED <<storeVars, sending, net, messages, wt, pwt, sync_key, got, excused>>, req'[d] = req[d],
         \A e \in Devices \ {d} : conn'[e] = conn[e] /\ tc'[e] = tc[e] /\ req'[e] = req[e],
         Typed', ConnOK(d)', Live(d)' => Live(d)
  PROVE  IInv'
<1>1. /\ Typed /\ QueueTypes
      /\ ClientOK(d) /\ NoGap(d) /\ InOrder(d) /\ ConnOK(d) /\ NetPaired(d)
      /\ Live(d) => Paired(d) /\ \A id \in Ids(UserOf[d]) : Covered(d, id)
  BY DeviceSays
<1>2. UNCHANGED <<queue, sent, sending, acked, net, messages, wt, pwt, sync_key, got, excused>> BY DEF storeVars
<1>3. \A e \in Devices \ {d} : DeviceFixed(e) /\ excused'[e] = excused[e] BY <1>2 DEF DeviceFixed
<1>4. ClientOK(d)' /\ NoGap(d)' /\ InOrder(d)'
  <2>1. ClientFixed(d) BY <1>2 DEF ClientFixed
  <2>2. Excused(d)' \subseteq Ids(UserOf[d]) BY <1>1, <1>2 DEF Excused, ClientOK
  <2> QED BY <2>1, <2>2, <1>1, <1>2, ClientKept
<1>5. NetPaired(d)' /\ (Paired(d) => Paired(d)') BY <1>1, <1>2 DEF NetPaired, Paired
<1>6. \A id : Coming(d, id) => Coming(d, id)' BY <1>2 DEF Coming, MoreCovers, Excused
<1>7. DeviceOK(d)' BY <1>1, <1>2, <1>4, <1>5, <1>6, DeviceNext
<1> QED BY <1>2, <1>3, <1>7, DeviceStep

\* HandleAuthToken up to its answer, to which the client sends its key.
LEMMA LoginInv ==
  ASSUME DeliveryAssumption, IInv, NEW d \in Devices, Login(d)
  PROVE  IInv'
<1>1. /\ Typed /\ QueueTypes
      /\ ClientOK(d) /\ NoGap(d) /\ InOrder(d) /\ ConnOK(d) /\ NetPaired(d)
  BY DeviceSays
<1>2. /\ conn[d] = "off" /\ conn' = [conn EXCEPT ![d] = "auth"] /\ req' = [req EXCEPT ![d] = <<sync_key[d]>>]
      /\ UNCHANGED <<queue, sent, failures, acked, sending, net, subscribed, subscribing,
                     messages, wt, pwt, tc, sync_key, got, excused>>
  BY DEF Login, storeVars, routeVars, writeVars
<1>3. conn'[d] = "auth" /\ req'[d] = <<sync_key[d]>> /\ sync_key[d] \in Nat BY <1>1, <1>2 DEF Typed
<1>4. \A e \in Devices \ {d} : DeviceFixed(e) /\ excused'[e] = excused[e] BY <1>1, <1>2 DEF DeviceFixed, Typed
<1>5. Typed'
  <2>1. req' \in [Devices -> Seq(Nat)]
    <3>1. <<sync_key[d]>> \in Seq(Nat) BY <1>3
    <3> QED BY <3>1, <1>1, <1>2 DEF Typed
  <2>2. conn' \in [Devices -> {"off", "auth", "added", "in", "closed"}] BY <1>1, <1>2 DEF Typed
  <2>3. \A e \in subscribed \cup subscribing : e \in Remote /\ conn'[e] \in {"in", "closed"}
    BY <1>1, <1>2 DEF Typed
  <2> QED BY <2>1, <2>2, <2>3, <1>1, <1>2 DEF Typed
<1>6. Excused(d)' = Excused(d) /\ Ids(UserOf[d])' = Ids(UserOf[d]) BY <1>2 DEF Excused, Ids
<1>7. DOMAIN req'[d] = {1} /\ req'[d][1] = sync_key[d] /\ req'[d] # << >> /\ sync_key[d] <= sync_key[d] BY <1>3
<1>8. ClientOK(d)' BY <1>1, <1>2, <1>6, <1>7 DEF ClientOK, Known
<1>9. NoGap(d)' BY <1>1, <1>2, <1>6 DEF NoGap
<1>10. InOrder(d)'
  <2>1. \A a : End(d, a)' = End(d, a) BY <1>6 DEF End, New
  <2>2. sync_key[d] <= End(d, sync_key[d]) BY <1>1, <1>3, EndSays
  <2>3. \A i \in DOMAIN pwt[d] : pwt[d][i].end <= End(d, sync_key[d]) BY <1>1 DEF InOrder
  <2> SUFFICES /\ \A i, j \in DOMAIN req'[d] : i <= j => req'[d][i] <= req'[d][j]
               /\ \A i \in DOMAIN req'[d] : sync_key[d] <= End(d, req'[d][i])
               /\ \A i \in DOMAIN pwt[d] : /\ pwt[d][i].end <= End(d, sync_key[d])
                                           /\ \A j \in DOMAIN req'[d] : pwt[d][i].end <= End(d, req'[d][j])
    BY <1>2, <2>1 DEF InOrder, End, New, Ids
  <2> QED BY <2>2, <2>3, <1>7
<1>11. ConnOK(d)' /\ NetPaired(d)' BY <1>1, <1>2, <1>3, <1>7 DEF ConnOK, NetPaired
<1>12. Paired(d)'
  <2>1. messages'[d] = << >> BY <1>1, <1>2 DEF ConnOK
  <2> QED BY <2>1 DEF Paired, PairedIn
<1>13. \A id : Coming(d, id)' BY <1>7 DEF Coming
<1>14. DeviceOK(d)' BY <1>2, <1>8, <1>9, <1>10, <1>11, <1>12, <1>13, DeviceNext
<1> QED BY <1>2, <1>4, <1>5, <1>14, DeviceStep

\* Route.AddClient makes the connection one that DispatchMessageToPeer finds.
LEMMA AddClientInv ==
  ASSUME DeliveryAssumption, IInv, NEW d \in Devices, AddClient(d)
  PROVE  IInv'
<1>1. Typed /\ ConnOK(d) BY DeviceSays
<1>2. /\ conn[d] = "auth" /\ conn' = [conn EXCEPT ![d] = "added"]
      /\ UNCHANGED <<storeVars, sending, net, subscribed, subscribing, messages, wt, pwt, tc, req, sync_key, got, excused>>
  BY DEF AddClient, routeVars, writeVars, clientVars
<1>3. conn'[d] = "added" /\ \A e \in Devices \ {d} : conn'[e] = conn[e] BY <1>1, <1>2 DEF Typed
<1>4. Typed' BY <1>1, <1>2 DEF Typed, storeVars
<1>5. ConnOK(d)' /\ (Live(d)' => Live(d)) BY <1>1, <1>2, <1>3 DEF ConnOK, Live
<1> QED BY <1>2, <1>3, <1>4, <1>5, OnlyConn

\* PeerClient.Login hands the Subscribe to the channel.
LEMMA SubscribeInv ==
  ASSUME DeliveryAssumption, IInv, NEW d \in Devices, Subscribe(d)
  PROVE  IInv'
<1>1. Typed /\ ConnOK(d) BY DeviceSays
<1>2. /\ conn[d] = "added" /\ conn' = [conn EXCEPT ![d] = "in"] /\ subscribing' = subscribing \cup ({d} \cap Remote)
      /\ UNCHANGED <<storeVars, sending, net, subscribed, messages, wt, pwt, tc, req, sync_key, got, excused>>
  BY DEF Subscribe, writeVars, clientVars
<1>3. conn'[d] = "in" /\ \A e \in Devices \ {d} : conn'[e] = conn[e] BY <1>1, <1>2 DEF Typed
<1>4. Typed'
  <2>1. \A e \in subscribed' \cup subscribing' : e \in Remote /\ conn'[e] \in {"in", "closed"}
    <3> SUFFICES ASSUME NEW e \in subscribed \cup subscribing \cup ({d} \cap Remote)
                 PROVE  e \in Remote /\ conn'[e] \in {"in", "closed"}
      BY <1>2
    <3>1. CASE e = d
      BY <3>1, <1>1, <1>2, <1>3 DEF Typed
    <3>2. CASE e # d BY <3>2, <1>1, <1>2 DEF Typed
    <3> QED BY <3>1, <3>2
  <2> QED BY <2>1, <1>1, <1>2 DEF Typed, storeVars
<1>5. ConnOK(d)' /\ (Live(d)' => Live(d)) BY <1>1, <1>2, <1>3 DEF ConnOK, Live
<1> QED BY <1>2, <1>3, <1>4, <1>5, OnlyConn

\* The route server handles a Subscribe.
LEMMA HandleSubscribeInv ==
  ASSUME DeliveryAssumption, IInv, NEW d \in Devices, HandleSubscribe(d)
  PROVE  IInv'
<1>1. Typed /\ ConnOK(d) BY DeviceSays
<1>2. /\ d \in subscribing /\ subscribing' = subscribing \ {d} /\ subscribed' = subscribed \cup {d}
      /\ UNCHANGED <<storeVars, sending, net, conn, messages, wt, pwt, tc, req, sync_key, got, excused>>
  BY DEF HandleSubscribe, writeVars, clientVars
<1>3. Typed' BY <1>1, <1>2 DEF Typed, storeVars
<1>4. ConnOK(d)' /\ (Live(d)' => Live(d)) BY <1>1, <1>2 DEF ConnOK, Live
<1> QED BY <1>2, <1>3, <1>4, OnlyConn

\* A connection breaks: nothing comes to it any more.
LEMMA BreakInv ==
  ASSUME DeliveryAssumption, IInv, NEW d \in Devices, Break(d)
  PROVE  IInv'
<1>1. Typed /\ ConnOK(d) BY DeviceSays
<1>2. /\ conn[d] = "in" /\ tc' = [tc EXCEPT ![d] = TRUE]
      /\ UNCHANGED <<storeVars, sending, net, subscribed, subscribing, conn, messages, wt, pwt, req, sync_key, got, excused>>
  BY DEF Break, routeVars, clientVars
<1>3. tc'[d] = TRUE /\ \A e \in Devices \ {d} : tc'[e] = tc[e] BY <1>1, <1>2 DEF Typed
<1>4. Typed' BY <1>1, <1>2 DEF Typed, storeVars
<1>5. ConnOK(d)' /\ (Live(d)' => Live(d)) BY <1>1, <1>2, <1>3 DEF ConnOK, Live
<1> QED BY <1>2, <1>3, <1>4, <1>5, OnlyConn

\* HandleClientClosed takes the connection out of the routes.
LEMMA HandleClientClosedInv ==
  ASSUME DeliveryAssumption, IInv, NEW d \in Devices, HandleClientClosed(d)
  PROVE  IInv'
<1>1. /\ Typed /\ QueueTypes
      /\ ClientOK(d) /\ NoGap(d) /\ InOrder(d) /\ ConnOK(d) /\ NetPaired(d)
  BY DeviceSays
<1>2. /\ conn[d] = "in" /\ conn' = [conn EXCEPT ![d] = "closed"] /\ req' = [req EXCEPT ![d] = << >>]
      /\ UNCHANGED <<queue, sent, failures, acked, sending, net, subscribed, subscribing,
                     messages, wt, pwt, tc, sync_key, got, excused>>
  BY DEF HandleClientClosed, storeVars, routeVars, writeVars
<1>3. conn'[d] = "closed" /\ req'[d] = << >> BY <1>1, <1>2 DEF Typed
<1>4. \A e \in Devices \ {d} : DeviceFixed(e) /\ excused'[e] = excused[e] BY <1>1, <1>2 DEF DeviceFixed, Typed
<1>5. Typed'
  <2>1. req' \in [Devices -> Seq(Nat)] BY <1>1, <1>2 DEF Typed
  <2>2. conn' \in [Devices -> {"off", "auth", "added", "in", "closed"}] BY <1>1, <1>2 DEF Typed
  <2>3. \A e \in subscribed \cup subscribing : e \in Remote /\ conn'[e] \in {"in", "closed"}
    BY <1>1, <1>2 DEF Typed
  <2> QED BY <2>1, <2>2, <2>3, <1>1, <1>2 DEF Typed
<1>6. Excused(d)' = Excused(d) /\ Ids(UserOf[d])' = Ids(UserOf[d]) BY <1>2 DEF Excused, Ids
<1>7. DOMAIN req'[d] = {} BY <1>3
<1>8. ClientOK(d)' /\ NoGap(d)' BY <1>1, <1>2, <1>6, <1>7 DEF ClientOK, Known, NoGap
<1>9. InOrder(d)' BY <1>1, <1>2, <1>7 DEF InOrder, End, New, Ids
<1>10. ConnOK(d)' /\ NetPaired(d)' /\ ~Live(d)' BY <1>1, <1>2, <1>3 DEF ConnOK, NetPaired, Live
<1>11. DeviceOK(d)' BY <1>2, <1>8, <1>9, <1>10, DeviceNext
<1> QED BY <1>2, <1>4, <1>5, <1>11, DeviceStep

\* PeerClient.Logout: what waited is lost, the client keeps its key.
LEMMA LogoutInv ==
  ASSUME DeliveryAssumption, IInv, NEW d \in Devices, Logout(d)
  PROVE  IInv'
<1>1. /\ Typed /\ QueueTypes
      /\ ClientOK(d) /\ NoGap(d) /\ InOrder(d) /\ ConnOK(d) /\ NetPaired(d)
  BY DeviceSays
<1>2. /\ conn[d] = "closed" /\ conn' = [conn EXCEPT ![d] = "off"]
      /\ messages' = [messages EXCEPT ![d] = << >>]
      /\ wt' = [wt EXCEPT ![d] = << >>] /\ pwt' = [pwt EXCEPT ![d] = << >>]
      /\ tc' = [tc EXCEPT ![d] = FALSE]
      /\ subscribed' = subscribed \ {d} /\ subscribing' = subscribing \ {d}
      /\ UNCHANGED <<queue, sent, failures, acked, sending, net, req, sync_key, got, excused>>
  BY DEF Logout, storeVars, clientVars
<1>3. conn'[d] = "off" /\ messages'[d] = << >> /\ pwt'[d] = << >> /\ tc'[d] = FALSE BY <1>1, <1>2 DEF Typed
<1>4. \A e \in Devices \ {d} : DeviceFixed(e) /\ excused'[e] = excused[e] BY <1>1, <1>2 DEF DeviceFixed, Typed
<1>5. Typed'
  <2>1. /\ messages' \in [Devices -> Seq(Items)] /\ wt' \in [Devices -> Seq(Nat)]
        /\ pwt' \in [Devices -> Seq(Pieces)] /\ tc' \in [Devices -> BOOLEAN]
        /\ conn' \in [Devices -> {"off", "auth", "added", "in", "closed"}]
    BY <1>1, <1>2 DEF Typed
  <2>2. \A e \in Devices : Len(messages'[e]) <= MESSAGE_QUEUE_LIMIT /\ Len(pwt'[e]) <= PwtSize
    <3> SUFFICES ASSUME NEW e \in Devices PROVE Len(messages'[e]) <= MESSAGE_QUEUE_LIMIT /\ Len(pwt'[e]) <= PwtSize
      OBVIOUS
    <3>1. CASE e = d BY <3>1, <1>3 DEF DeliveryAssumption
    <3>2. CASE e # d BY <3>2, <1>1, <1>2 DEF Typed
    <3> QED BY <3>1, <3>2
  <2>3. \A e \in subscribed' \cup subscribing' : e \in Remote /\ conn'[e] \in {"in", "closed"}
    BY <1>1, <1>2 DEF Typed
  <2> QED BY <2>1, <2>2, <2>3, <1>1, <1>2 DEF Typed
<1>6. Excused(d)' = Excused(d) /\ Ids(UserOf[d])' = Ids(UserOf[d]) BY <1>2 DEF Excused, Ids
<1>7. DOMAIN pwt'[d] = {} BY <1>3
<1>8. ClientOK(d)' /\ NoGap(d)' BY <1>1, <1>2, <1>6, <1>7 DEF ClientOK, Known, NoGap
<1>9. InOrder(d)' BY <1>1, <1>2, <1>7 DEF InOrder, End, New, Ids
<1>10. ConnOK(d)' /\ NetPaired(d)' /\ ~Live(d)' BY <1>1, <1>2, <1>3 DEF ConnOK, NetPaired, Live
<1>11. DeviceOK(d)' BY <1>2, <1>8, <1>9, <1>10, DeviceNext
<1> QED BY <1>2, <1>4, <1>5, <1>11, DeviceStep

-----------------------------------------------------------------------------
\* DispatchAppMessage puts what came from the route server into the list.
LEMMA DispatchAppMessageInv ==
  ASSUME DeliveryAssumption, IInv, NEW d \in Devices, DispatchAppMessage(d)
  PROVE  IInv'
<1> DEFINE l == net[d]
           x == Head(net[d])
           items == <<x>>
<1>1. /\ Typed /\ QueueTypes
      /\ ClientOK(d) /\ NoGap(d) /\ InOrder(d) /\ ConnOK(d) /\ NetPaired(d)
      /\ Live(d) => Paired(d) /\ \A id \in Ids(UserOf[d]) : Covered(d, id)
  BY DeviceSays
<1>2. /\ l # << >> /\ net' = [net EXCEPT ![d] = Tail(l)]
      /\ IF Routed(d)
           THEN /\ messages' = [messages EXCEPT ![d] = Enqueued(d, items)]
                /\ excused' = [excused EXCEPT ![d] = excused[d] \cup Dropped(d, items)]
           ELSE UNCHANGED <<messages, excused>>
      /\ UNCHANGED <<queue, sent, failures, acked, sending, subscribed, subscribing, conn, wt, pwt, tc,
                     req, sync_key, got>>
  BY DEF DispatchAppMessage, storeVars, clientVars
<1>3. /\ l \in Seq(Items) /\ messages[d] \in Seq(Items) /\ Len(messages[d]) <= MESSAGE_QUEUE_LIMIT
      /\ excused[d] \subseteq [id : Nat, why : Reasons] /\ Ids(UserOf[d]) \in SUBSET Nat
  BY <1>1, DeviceFacts DEF Typed
<1>4. /\ Tail(l) \in Seq(Items) /\ Len(Tail(l)) = Len(l) - 1 /\ x = l[1] /\ x \in Items
      /\ Len(l) \in Nat \ {0} /\ \A i \in 1..Len(l) - 1 : Tail(l)[i] = l[i + 1]
      /\ DOMAIN l = 1..Len(l) /\ DOMAIN Tail(l) = 1..Len(l) - 1
  <2> HIDE DEF l
  <2>1. l # << >> BY <1>2
  <2>2. /\ Tail(l) \in Seq(Items) /\ Len(Tail(l)) = Len(l) - 1 /\ Head(l) = l[1] /\ l[1] \in Items
        /\ Len(l) \in Nat \ {0} /\ \A i \in 1..Len(l) - 1 : Tail(l)[i] = l[i + 1]
    BY <1>3, <2>1, TailSays
  <2>3. DOMAIN l = 1..Len(l) /\ DOMAIN Tail(l) = 1..Len(l) - 1 BY <1>3, <2>2
  <2> QED BY <2>2, <2>3 DEF l
<1>5. net'[d] = Tail(l) BY <1>1, <1>2 DEF Typed
<1>6. /\ d \in Remote
      /\ \A i \in DOMAIN l : l[i].kind = "im" => i < Len(l) /\ Follows(l[i + 1], l[i])
  BY <1>1, <1>2 DEF NetPaired
<1>7. items \in Seq(Items) /\ items # << >> /\ items[1] = x /\ Len(items) = 1 /\ DOMAIN items = {1}
  <2> HIDE DEF x
  <2> QED BY <1>4
<1> HIDE DEF l, items, x
<1>8. PairedIn(items, Tail(l))
  <2> SUFFICES ASSUME x.kind = "im" PROVE Tail(l) # << >> /\ Follows(Head(Tail(l)), x)
    BY <1>7 DEF PairedIn
  <2>1. 1 < Len(l) /\ Follows(l[2], l[1]) BY <1>4, <1>6
  <2>2. Tail(l) # << >> /\ Head(Tail(l)) = Tail(l)[1]
    <3> DEFINE t == Tail(l)
    <3>1. t \in Seq(Items) /\ Len(t) # 0 BY <2>1, <1>4
    <3> HIDE DEF t
    <3>2. t # << >> /\ Head(t) = t[1] BY <3>1
    <3> QED BY <3>2 DEF t
  <2>3. Tail(l)[1] = l[2] BY <2>1, <1>4
  <2> QED BY <2>1, <2>2, <2>3, <1>4
<1>9. Enqueued(d, items) \in Seq(Items) /\ Len(Enqueued(d, items)) <= MESSAGE_QUEUE_LIMIT
  <2>1. Enqueued(d, items) = IF Accepts(d) THEN Shortened(messages[d] \o items) ELSE messages[d] BY DEF Enqueued
  <2>2. messages[d] \o items \in Seq(Items) BY <1>3, <1>7, ConcatSays
  <2>3. /\ Shortened(messages[d] \o items) \in Seq(Items)
        /\ Len(Shortened(messages[d] \o items)) <= MESSAGE_QUEUE_LIMIT
    BY <2>2, ShortenedSays
  <2> QED BY <2>1, <2>3, <1>3
<1>10. Dropped(d, items) \subseteq [id : Ids(UserOf[d]), why : {"dropped"}]
  <2> DEFINE UpTo(list) == {i \in Ids(UserOf[d]) : \E j \in DOMAIN list : i <= list[j].about}
             lost == UpTo(messages[d] \o items) \ UpTo(Shortened(messages[d] \o items))
  <2>1. Dropped(d, items) = IF Accepts(d) THEN Excuse(lost, "dropped") ELSE {} BY DEF Dropped
  <2>2. lost \subseteq Ids(UserOf[d]) OBVIOUS
  <2> HIDE DEF lost
  <2> QED BY <2>1, <2>2 DEF Excuse
<1>11. /\ excused[d] \subseteq excused'[d]
       /\ \A e \in excused'[d] : e \in excused[d] \/ e \in Dropped(d, items)
       /\ Routed(d) => Dropped(d, items) \subseteq excused'[d] /\ messages'[d] = Enqueued(d, items)
       /\ ~Routed(d) => messages'[d] = messages[d]
  BY <1>1, <1>2 DEF Typed
<1>12. excused'[d] \in SUBSET [id : Nat, why : Reasons]
  <2>1. [id : Ids(UserOf[d]), why : {"dropped"}] \subseteq [id : Nat, why : Reasons] BY <1>3 DEF Reasons
  <2> QED BY <2>1, <1>3, <1>10, <1>11
<1>13. \A e \in excused'[d] : e \in excused[d] \/ e.why # "untold" BY <1>10, <1>11
<1>14. Excused(d) \subseteq Excused(d)' /\ Excused(d)' \subseteq Ids(UserOf[d])
  <2>1. Excused(d) \subseteq Ids(UserOf[d]) BY <1>1 DEF ClientOK
  <2>2. ASSUME NEW e \in excused'[d] PROVE e.id \in Ids(UserOf[d])
    BY <2>1, <1>10, <1>11 DEF Excused
  <2> QED BY <2>2, <1>11 DEF Excused
<1>15. messages'[d] \in Seq(Items) /\ Len(messages'[d]) <= MESSAGE_QUEUE_LIMIT BY <1>3, <1>9, <1>11
<1>16. \A e \in Devices \ {d} : /\ DeviceFixed(e) /\ excused'[e] = excused[e]
                                /\ messages'[e] = messages[e]
  BY <1>1, <1>2 DEF DeviceFixed, Typed
<1>17. Typed'
  <2>1. net' \in [Devices -> Seq(Items)] BY <1>1, <1>2, <1>4 DEF Typed
  <2>2. messages' \in [Devices -> Seq(Items)]
    <3>1. CASE Routed(d)
      <4>1. messages' = [messages EXCEPT ![d] = messages'[d]] BY <3>1, <1>2, <1>11
      <4> QED BY <4>1, <1>1, <1>15 DEF Typed
    <3>2. CASE ~Routed(d) BY <3>2, <1>1, <1>2 DEF Typed
    <3> QED BY <3>1, <3>2
  <2>3. excused' \in [Devices -> SUBSET [id : Nat, why : Reasons]]
    <3>1. CASE Routed(d)
      <4>1. excused' = [excused EXCEPT ![d] = excused'[d]]
        <5>1. excused' = [excused EXCEPT ![d] = excused[d] \cup Dropped(d, items)] BY <3>1, <1>2
        <5>2. excused'[d] = excused[d] \cup Dropped(d, items) BY <5>1, <1>1 DEF Typed
        <5> QED BY <5>1, <5>2
      <4> QED BY <4>1, <1>1, <1>12 DEF Typed
    <3>2. CASE ~Routed(d) BY <3>2, <1>1, <1>2 DEF Typed
    <3> QED BY <3>1, <3>2
  <2>4. \A e \in Devices : Len(messages'[e]) <= MESSAGE_QUEUE_LIMIT /\ Len(pwt'[e]) <= PwtSize
    <3> SUFFICES ASSUME NEW e \in Devices PROVE Len(messages'[e]) <= MESSAGE_QUEUE_LIMIT /\ Len(pwt'[e]) <= PwtSize
      OBVIOUS
    <3>1. Len(pwt'[e]) <= PwtSize BY <1>1, <1>2 DEF Typed
    <3>2. CASE e = d BY <3>1, <3>2, <1>15
    <3>3. CASE e # d BY <3>1, <3>3, <1>1, <1>16 DEF Typed
    <3> QED BY <3>2, <3>3
  <2> QED BY <2>1, <2>2, <2>3, <2>4, <1>1, <1>2 DEF Typed
<1>18. ClientFixed(d) /\ wt'[d] = wt[d] BY <1>2 DEF ClientFixed
<1>19. ClientOK(d)' /\ NoGap(d)' /\ InOrder(d)' BY <1>1, <1>2, <1>14, <1>18, ClientKept
<1>20. ConnOK(d)'
  <2>1. conn[d] \in {"off", "auth"} => messages'[d] = << >> BY <1>1, <1>11 DEF ConnOK, Routed
  <2> QED BY <2>1, <1>1, <1>2 DEF ConnOK
<1>21. NetPaired(d)'
  <2> SUFFICES ASSUME NEW i \in DOMAIN Tail(l), Tail(l)[i].kind = "im"
               PROVE  i < Len(Tail(l)) /\ Follows(Tail(l)[i + 1], Tail(l)[i])
    BY <1>5, <1>6 DEF NetPaired
  <2>1. i \in 1..Len(l) - 1 /\ Tail(l)[i] = l[i + 1] /\ i + 1 \in DOMAIN l BY <1>4
  <2>2. i + 1 < Len(l) /\ Follows(l[(i + 1) + 1], l[i + 1]) BY <2>1, <1>6
  <2>3. Tail(l)[i + 1] = l[(i + 1) + 1] /\ i < Len(l) - 1 BY <2>1, <2>2, <1>4
  <2> QED BY <2>1, <2>2, <2>3, <1>4
<1>22. Live(d)' => Live(d) BY <1>2 DEF Live
<1>23. CASE Live(d) /\ Routed(d)
  <2>1. Accepts(d) /\ PairedIn(messages[d], l) /\ Head(l) = items[1]
    BY <1>1, <1>7, <1>23 DEF Accepts, Live, Paired, l, x
  <2>2. /\ PairedIn(Enqueued(d, items), Tail(l))
        /\ \A id \in Ids(UserOf[d]) :
             InList(messages[d], id) \/ InList(items, id) =>
               InList(Enqueued(d, items), id) \/ [id |-> id, why |-> "dropped"] \in Dropped(d, items)
    BY <2>1, <1>1, <1>7, <1>8, EnqueuedSays DEF l
  <2>3. Paired(d)' BY <2>2, <1>5, <1>11, <1>23 DEF Paired
  <2>4. ASSUME NEW id \in Ids(UserOf[d]), Coming(d, id) PROVE Coming(d, id)'
    <3>1. [id |-> id, why |-> "dropped"] \in Dropped(d, items) => id \in Excused(d)'
      <4>1. [id |-> id, why |-> "dropped"].id = id OBVIOUS
      <4> QED BY <4>1, <1>11, <1>23 DEF Excused
    <3>2. InList(messages[d], id) \/ InList(items, id) => InList(messages'[d], id) \/ id \in Excused(d)'
      BY <2>2, <3>1, <1>11, <1>23
    <3>3. InNet(l, id) => InNet(Tail(l), id) \/ InList(items, id)
      <4> SUFFICES ASSUME InNet(l, id) PROVE InNet(Tail(l), id) \/ InList(items, id) OBVIOUS
      <4>1. PICK i \in DOMAIN l : l[i].kind = "notify" /\ id <= l[i].about BY DEF InNet
      <4>2. CASE i = 1 BY <4>1, <4>2, <1>4, <1>7 DEF InList
      <4>3. CASE i # 1
        <5>1. i - 1 \in 1..Len(l) - 1 /\ (i - 1) + 1 = i BY <4>3, <1>4
        <5>2. Tail(l)[i - 1] = l[i] /\ i - 1 \in DOMAIN Tail(l) BY <5>1, <1>4
        <5> QED BY <4>1, <5>2 DEF InNet
      <4> QED BY <4>2, <4>3
    <3>4. InNet(net[d], id) => InNet(net'[d], id) \/ InList(messages'[d], id) \/ id \in Excused(d)'
      BY <3>2, <3>3, <1>5 DEF l
    <3> QED BY <2>4, <3>2, <3>4, <1>14, <1>18, ComingOn
  <2>5. DeviceOK(d)' BY <2>3, <2>4, <1>1, <1>2, <1>19, <1>20, <1>21, <1>22, DeviceNext
  <2> QED BY <2>5, <1>2, <1>13, <1>16, <1>17, DeviceStep
<1>24. CASE ~(Live(d) /\ Routed(d))
  <2>1. ASSUME Live(d) PROVE Paired(d)' /\ \A id : Coming(d, id)'
    <3>1. conn[d] = "auth" BY <2>1, <1>24 DEF Live, Routed
    <3>2. messages'[d] = << >> /\ req'[d] # << >> BY <3>1, <1>1, <1>2, <1>11 DEF ConnOK, Routed
    <3> QED BY <3>2 DEF Paired, PairedIn, Coming
  <2>2. DeviceOK(d)' BY <2>1, <1>2, <1>19, <1>20, <1>21, <1>22, DeviceNext
  <2> QED BY <2>2, <1>2, <1>13, <1>16, <1>17, DeviceStep
<1> QED BY <1>23, <1>24

-----------------------------------------------------------------------------
\* HandleSync: a request is answered, or dropped when the storage server does not answer.
LEMMA HandleSyncInv ==
  ASSUME DeliveryAssumption, IInv, NEW d \in Devices, HandleSync(d)
  PROVE  IInv'
<1> DEFINE r == req[d]
           p == pwt[d]
           w == wt[d]
           a == Head(req[d])
           new == New(d, a)
           end == End(d, a)
           piece == [ids |-> InAnswer(new), end |-> end]
<1>1. /\ Typed /\ QueueTypes
      /\ ClientOK(d) /\ NoGap(d) /\ InOrder(d) /\ ConnOK(d) /\ NetPaired(d)
      /\ Live(d) => Paired(d) /\ \A id \in Ids(UserOf[d]) : Covered(d, id)
  BY DeviceSays
<1>2. /\ conn[d] = "in" /\ ~tc[d] /\ r # << >> /\ Len(p) < PwtSize
      /\ req' = [req EXCEPT ![d] = Tail(r)]
      /\ \/ /\ pwt' = [pwt EXCEPT ![d] = Append(p, piece)]
            /\ wt' = IF HasMore(new) THEN [wt EXCEPT ![d] = Append(w, end + 1)] ELSE wt
            /\ UNCHANGED <<failures, excused>>
         \/ /\ failures' = failures + 1
            /\ excused' = [excused EXCEPT ![d] = excused[d] \cup Excuse(new, "unanswered")]
            /\ UNCHANGED <<pwt, wt>>
      /\ UNCHANGED <<queue, sent, acked, sending, net, subscribed, subscribing, conn, messages, tc, sync_key, got>>
  BY DEF HandleSync, Reads, End, routeVars
<1>3. /\ r \in Seq(Nat) /\ p \in Seq(Pieces) /\ w \in Seq(Nat) /\ sync_key[d] \in Nat
      /\ Ids(UserOf[d]) \in SUBSET Nat /\ excused[d] \subseteq [id : Nat, why : Reasons]
      /\ \A k \in Known(d) : k \in Nat
  BY <1>1, DeviceFacts
<1>4. /\ Tail(r) \in Seq(Nat) /\ Len(Tail(r)) = Len(r) - 1 /\ a = r[1] /\ r[1] \in Nat
      /\ Len(r) \in Nat \ {0} /\ \A i \in 1..Len(r) - 1 : Tail(r)[i] = r[i + 1]
      /\ DOMAIN r = 1..Len(r) /\ DOMAIN Tail(r) = 1..Len(r) - 1 /\ 1 \in DOMAIN r
  <2> HIDE DEF r
  <2>1. /\ Tail(r) \in Seq(Nat) /\ Len(Tail(r)) = Len(r) - 1 /\ Head(r) = r[1] /\ r[1] \in Nat
        /\ Len(r) \in Nat \ {0} /\ \A i \in 1..Len(r) - 1 : Tail(r)[i] = r[i + 1]
    BY <1>2, <1>3, TailSays
  <2>2. DOMAIN r = 1..Len(r) /\ DOMAIN Tail(r) = 1..Len(r) - 1 /\ 1 \in DOMAIN r BY <1>3, <2>1
  <2> QED BY <2>1, <2>2 DEF r
<1>5. a \in Nat /\ a \in Known(d) /\ a <= sync_key[d] BY <1>1, <1>4 DEF ClientOK
<1>6. /\ end \in {a} \cup new /\ end \in Nat /\ a <= end
      /\ InAnswer(new) = {id \in new : id <= end}
      /\ \A id \in new : id > end => HasMore(new)
      /\ \A b \in Nat : a <= b => end <= End(d, b)
  BY <1>1, <1>5, EndSays
<1>7. new = {id \in Ids(UserOf[d]) : id > a} BY DEF New
<1>8. new \subseteq Ids(UserOf[d]) /\ end \in Known(d) BY <1>5, <1>6, <1>7 DEF Known
<1>9. /\ \A i \in DOMAIN r : r[i] \in Known(d) /\ r[i] <= sync_key[d] /\ r[i] \in Nat
      /\ \A i, j \in DOMAIN r : i <= j => r[i] <= r[j]
      /\ \A i \in DOMAIN r : sync_key[d] <= End(d, r[i])
      /\ \A i \in DOMAIN p : /\ p[i].end <= End(d, sync_key[d])
                             /\ \A j \in DOMAIN r : p[i].end <= End(d, r[j])
  BY <1>1, <1>3 DEF ClientOK, InOrder
<1>10. req'[d] = Tail(r) BY <1>1, <1>2 DEF Typed
<1>11. \A e \in Devices \ {d} : DeviceFixed(e) /\ excused'[e] = excused[e] /\ pwt'[e] = pwt[e]
  <2>1. \A e \in Devices \ {d} : /\ req'[e] = req[e] /\ excused'[e] = excused[e] /\ pwt'[e] = pwt[e]
                                 /\ wt'[e] = wt[e]
    BY <1>1, <1>2 DEF Typed
  <2> QED BY <2>1, <1>2 DEF DeviceFixed
<1>12. /\ \A b : End(d, b)' = End(d, b)
       /\ Ids(UserOf[d])' = Ids(UserOf[d])
  BY <1>2 DEF End, New, Ids
<1>13. ASSUME NEW i \in DOMAIN Tail(r)
       PROVE  i + 1 \in DOMAIN r /\ Tail(r)[i] = r[i + 1] /\ i \in Nat
  BY <1>4
<1>14. \A i \in DOMAIN Tail(r) : Tail(r)[i] \in Known(d) /\ Tail(r)[i] <= sync_key[d] BY <1>9, <1>13
<1>15. /\ \A i, j \in DOMAIN Tail(r) : i <= j => Tail(r)[i] <= Tail(r)[j]
       /\ \A i \in DOMAIN Tail(r) : sync_key[d] <= End(d, Tail(r)[i])
       /\ \A i \in DOMAIN p : \A j \in DOMAIN Tail(r) : p[i].end <= End(d, Tail(r)[j])
       /\ \A j \in DOMAIN Tail(r) : end <= End(d, Tail(r)[j])
  <2>1. ASSUME NEW i \in DOMAIN Tail(r), NEW j \in DOMAIN Tail(r), i <= j PROVE Tail(r)[i] <= Tail(r)[j]
    <3>1. i + 1 <= j + 1 BY <1>13, <2>1
    <3> QED BY <3>1, <1>9, <1>13
  <2>2. ASSUME NEW j \in DOMAIN Tail(r) PROVE end <= End(d, Tail(r)[j])
    <3>1. r[j + 1] \in Nat /\ a <= r[j + 1]
      <4>1. 1 <= j + 1 BY <1>13
      <4> QED BY <4>1, <1>4, <1>9, <1>13
    <3> QED BY <3>1, <1>6, <1>13
  <2> QED BY <2>1, <2>2, <1>9, <1>13
<1>16. ConnOK(d)' /\ NetPaired(d)' /\ (Live(d)' => Live(d)) /\ (Paired(d) => Paired(d)')
  BY <1>1, <1>2 DEF ConnOK, NetPaired, Live, Paired
<1>17. req' \in [Devices -> Seq(Nat)] BY <1>1, <1>2, <1>4 DEF Typed
<1> HIDE DEF r, p, w, a, new, end
<1>18. CASE /\ pwt' = [pwt EXCEPT ![d] = Append(p, piece)]
            /\ wt' = IF HasMore(new) THEN [wt EXCEPT ![d] = Append(w, end + 1)] ELSE wt
            /\ UNCHANGED <<failures, excused>>
  <2>0. piece \in Pieces /\ piece.ids = InAnswer(new) /\ piece.end = end
    BY <1>3, <1>6, <1>8 DEF Pieces
  <2> HIDE DEF piece
  <2>1. /\ Append(p, piece) \in Seq(Pieces) /\ Len(Append(p, piece)) = Len(p) + 1 /\ Len(p) \in Nat
        /\ Append(p, piece)[Len(p) + 1] = piece /\ \A i \in 1..Len(p) : Append(p, piece)[i] = p[i]
    BY <1>3, <2>0, AppendSays
  <2>2. DOMAIN Append(p, piece) = 1..Len(p) + 1 /\ DOMAIN p = 1..Len(p) BY <1>3, <2>1
  <2>3. pwt'[d] = Append(p, piece) BY <1>1, <1>18 DEF Typed
  <2> DEFINE q == Append(p, piece)
  <2> HIDE DEF q
  <2>4. ASSUME NEW i \in DOMAIN q PROVE (i \in DOMAIN p /\ q[i] = p[i]) \/ q[i] = piece
    BY <2>1, <2>2 DEF q
  <2>5. /\ \A i \in DOMAIN p : i \in DOMAIN q /\ q[i] = p[i]
        /\ Len(p) + 1 \in DOMAIN q /\ q[Len(p) + 1] = piece
    BY <2>1, <2>2 DEF q
  <2>6. pwt'[d] = q /\ q \in Seq(Pieces) /\ Len(q) <= PwtSize
    <3>1. PwtSize \in Nat BY DEF DeliveryAssumption
    <3> QED BY <3>1, <2>1, <2>3, <1>2 DEF q, p
  <2>7. wt' \in [Devices -> Seq(Nat)]
    <3>1. Append(w, end + 1) \in Seq(Nat) BY <1>3, <1>6, AppendSays
    <3> QED BY <3>1, <1>1, <1>18 DEF Typed
  <2>8. Typed'
    <3>1. pwt' \in [Devices -> Seq(Pieces)] BY <1>1, <1>18, <2>1 DEF Typed
    <3>2. \A e \in Devices : Len(messages'[e]) <= MESSAGE_QUEUE_LIMIT /\ Len(pwt'[e]) <= PwtSize
      <4> SUFFICES ASSUME NEW e \in Devices PROVE Len(pwt'[e]) <= PwtSize BY <1>1, <1>2 DEF Typed
      <4>1. CASE e = d BY <4>1, <2>6
      <4>2. CASE e # d BY <4>2, <1>1, <1>11 DEF Typed
      <4> QED BY <4>1, <4>2
    <3> QED BY <3>1, <3>2, <2>7, <1>1, <1>2, <1>17, <1>18 DEF Typed
  <2>9. ClientOK(d)'
    <3>1. Excused(d)' = Excused(d) /\ Known(d)' = Known(d) BY <1>12, <1>18 DEF Excused, Known
    <3>2. \A i \in DOMAIN q : q[i].end \in Known(d) /\ q[i].ids \subseteq Ids(UserOf[d])
      <4>1. \A i \in DOMAIN p : p[i].end \in Known(d) /\ p[i].ids \subseteq Ids(UserOf[d])
        BY <1>1 DEF ClientOK, p
      <4>2. piece.end \in Known(d) /\ piece.ids \subseteq Ids(UserOf[d]) BY <2>0, <1>6, <1>8
      <4> QED BY <4>1, <4>2, <2>4
    <3> QED BY <3>1, <3>2, <2>6, <1>1, <1>2, <1>10, <1>12, <1>14 DEF ClientOK
  <2>10. NoGap(d)'
    <3>1. \A i \in DOMAIN q : {id \in Ids(UserOf[d]) : id <= q[i].end} \subseteq got[d] \cup q[i].ids
      <4>1. \A i \in DOMAIN p : {id \in Ids(UserOf[d]) : id <= p[i].end} \subseteq got[d] \cup p[i].ids
        BY <1>1 DEF NoGap, p
      <4>2. ASSUME NEW id \in Ids(UserOf[d]), id <= end PROVE id \in got[d] \cup piece.ids
        <5>1. id \in Nat BY <1>3
        <5>2. CASE id <= a
          <6>1. id <= sync_key[d] BY <5>1, <5>2, <1>3, <1>5
          <6> QED BY <6>1, <1>1 DEF NoGap
        <5>3. CASE ~(id <= a)
          <6>1. id \in new BY <5>1, <5>3, <1>5, <1>7
          <6> QED BY <6>1, <4>2, <2>0, <1>6
        <5> QED BY <5>2, <5>3
      <4> QED BY <4>1, <4>2, <2>0, <2>4
    <3> QED BY <3>1, <2>6, <1>1, <1>2, <1>12 DEF NoGap
  <2>11. InOrder(d)'
    <3>1. \A i \in DOMAIN q : /\ q[i].end <= End(d, sync_key[d])
                              /\ \A j \in DOMAIN Tail(r) : q[i].end <= End(d, Tail(r)[j])
      <4>1. end <= End(d, sync_key[d]) BY <1>3, <1>5, <1>6
      <4> QED BY <4>1, <2>0, <2>4, <1>9, <1>15
    <3> SUFFICES /\ \A i, j \in DOMAIN Tail(r) : i <= j => Tail(r)[i] <= Tail(r)[j]
                 /\ \A i \in DOMAIN Tail(r) : sync_key[d] <= End(d, Tail(r)[i])
                 /\ \A i \in DOMAIN q : /\ q[i].end <= End(d, sync_key[d])
                                        /\ \A j \in DOMAIN Tail(r) : q[i].end <= End(d, Tail(r)[j])
      BY <2>6, <1>2, <1>10, <1>12 DEF InOrder, End, New, Ids
    <3> QED BY <3>1, <1>15
  <2>12. ASSUME NEW id \in Ids(UserOf[d]) PROVE Coming(d, id)'
    <3>0. id \in Nat BY <1>3
    <3>1. CASE id <= end
      <4>1. \E i \in DOMAIN pwt'[d] : id <= pwt'[d][i].end BY <3>1, <2>0, <2>5, <2>6
      <4> QED BY <4>1 DEF Coming
    <3>2. CASE ~(id <= end)
      <4>1. id \in new /\ id > end BY <3>0, <3>2, <1>5, <1>6, <1>7
      <4>2. HasMore(new) BY <4>1, <1>6
      <4>3. wt'[d] = Append(w, end + 1) BY <4>2, <1>1, <1>18 DEF Typed
      <4>4. /\ Append(w, end + 1) \in Seq(Nat) /\ Len(Append(w, end + 1)) = Len(w) + 1 /\ Len(w) \in Nat
            /\ Append(w, end + 1)[Len(w) + 1] = end + 1
        BY <1>3, <1>6, AppendSays
      <4>5. Len(w) + 1 \in DOMAIN wt'[d] /\ wt'[d][Len(w) + 1] = end + 1 BY <4>3, <4>4
      <4>6. sync_key[d] < end + 1
        <5>1. sync_key[d] <= end BY <1>4, <1>9 DEF end
        <5> QED BY <5>1, <1>3, <1>6
      <4>7. ASSUME NEW i \in DOMAIN q PROVE q[i].end < end + 1
        <5>1. CASE i \in DOMAIN p /\ q[i] = p[i]
          <6>1. p[i].end <= end BY <5>1, <1>4, <1>9 DEF end
          <6>2. p[i].end \in Nat BY <5>1, <1>1, <1>3 DEF ClientOK, p
          <6> QED BY <6>1, <6>2, <5>1, <1>6
        <5>2. CASE q[i] = piece BY <5>2, <2>0, <1>6
        <5> QED BY <5>1, <5>2, <2>4
      <4>8. sync_key'[d] < wt'[d][Len(w) + 1] /\ \A i \in DOMAIN pwt'[d] : pwt'[d][i].end < wt'[d][Len(w) + 1]
        BY <4>5, <4>6, <4>7, <2>6, <1>2
      <4>9. \E k \in DOMAIN wt'[d] : sync_key'[d] < wt'[d][k] /\ \A i \in DOMAIN pwt'[d] : pwt'[d][i].end < wt'[d][k]
        BY <4>5, <4>8
      <4> QED BY <4>9 DEF Coming, MoreCovers
    <3> QED BY <3>1, <3>2
  <2>13. DeviceOK(d)' BY <2>9, <2>10, <2>11, <2>12, <1>1, <1>2, <1>16, DeviceNext
  <2> QED BY <2>8, <2>13, <1>2, <1>11, <1>18, DeviceStep
<1>19. CASE /\ failures' = failures + 1
            /\ excused' = [excused EXCEPT ![d] = excused[d] \cup Excuse(new, "unanswered")]
            /\ UNCHANGED <<pwt, wt>>
  <2>1. excused'[d] = excused[d] \cup Excuse(new, "unanswered") BY <1>1, <1>19 DEF Typed
  <2>2. Excuse(new, "unanswered") \subseteq [id : new, why : {"unanswered"}] BY DEF Excuse
  <2>3. excused'[d] \in SUBSET [id : Nat, why : Reasons]
    <3>1. [id : new, why : {"unanswered"}] \subseteq [id : Nat, why : Reasons] BY <1>3, <1>8 DEF Reasons
    <3> QED BY <3>1, <2>1, <2>2, <1>3
  <2>4. Excused(d)' = Excused(d) \cup new
    <3>1. \A id \in new : [id |-> id, why |-> "unanswered"] \in excused'[d] BY <2>1 DEF Excuse
    <3>2. \A id : [id |-> id, why |-> "unanswered"].id = id OBVIOUS
    <3>3. new \subseteq Excused(d)' BY <3>1, <3>2 DEF Excused
    <3>4. Excused(d) \subseteq Excused(d)' BY <2>1 DEF Excused
    <3>5. \A e \in excused'[d] : e.id \in Excused(d) \cup new BY <2>1, <2>2 DEF Excused
    <3>6. Excused(d)' \subseteq Excused(d) \cup new BY <3>5 DEF Excused
    <3> QED BY <3>3, <3>4, <3>6
  <2>5. Typed'
    <3>1. excused' \in [Devices -> SUBSET [id : Nat, why : Reasons]]
      <4>1. excused' = [excused EXCEPT ![d] = excused'[d]] BY <2>1, <1>19
      <4> QED BY <4>1, <2>3, <1>1 DEF Typed
    <3>2. failures' \in Nat BY <1>1, <1>19 DEF Typed
    <3> QED BY <3>1, <3>2, <1>1, <1>2, <1>17, <1>19 DEF Typed
  <2>6. ClientOK(d)'
    <3>1. Excused(d)' \subseteq Ids(UserOf[d]) BY <2>4, <1>1, <1>8 DEF ClientOK
    <3> QED BY <3>1, <1>1, <1>2, <1>10, <1>12, <1>14, <1>19 DEF ClientOK, Known, p
  <2>7. NoGap(d)' BY <1>1, <1>2, <1>12, <1>19 DEF NoGap
  <2>8. InOrder(d)'
    <3> SUFFICES /\ \A i, j \in DOMAIN Tail(r) : i <= j => Tail(r)[i] <= Tail(r)[j]
                 /\ \A i \in DOMAIN Tail(r) : sync_key[d] <= End(d, Tail(r)[i])
                 /\ \A i \in DOMAIN p : /\ p[i].end <= End(d, sync_key[d])
                                        /\ \A j \in DOMAIN Tail(r) : p[i].end <= End(d, Tail(r)[j])
      BY <1>2, <1>10, <1>12, <1>19 DEF InOrder, End, New, Ids, p
    <3> QED BY <1>9, <1>15
  <2>9. ASSUME NEW id \in Ids(UserOf[d]) PROVE Coming(d, id)'
    <3>0. id \in Nat BY <1>3
    <3>1. CASE id <= a
      <4>1. id <= sync_key'[d] BY <3>0, <3>1, <1>2, <1>3, <1>5
      <4> QED BY <4>1 DEF Coming
    <3>2. CASE ~(id <= a)
      <4>1. id \in Excused(d)' BY <3>0, <3>2, <2>4, <1>5, <1>7
      <4> QED BY <4>1 DEF Coming
    <3> QED BY <3>1, <3>2
  <2>10. \A e \in excused'[d] : e \in excused[d] \/ e.why # "untold" BY <2>1, <2>2
  <2>11. DeviceOK(d)' BY <2>6, <2>7, <2>8, <2>9, <1>1, <1>2, <1>16, DeviceNext
  <2> QED BY <2>5, <2>10, <2>11, <1>2, <1>11, DeviceStep
<1> QED BY <1>2, <1>18, <1>19 DEF p, w

-----------------------------------------------------------------------------
\* The requests of a client that asks once more for each of n keys.
LEMMA AskedSays ==
  ASSUME DeliveryAssumption, IInv, NEW d \in Devices, NEW n \in Nat, req' = Asked(d, n),
         UNCHANGED <<queue, pwt, sync_key, got>>, Excused(d)' \subseteq Ids(UserOf[d])
  PROVE  /\ req' \in [Devices -> Seq(Nat)] /\ \A e \in Devices \ {d} : req'[e] = req[e]
         /\ ClientOK(d)' /\ NoGap(d)' /\ InOrder(d)'
         /\ n > 0 \/ req[d] # << >> => req'[d] # << >>
<1> DEFINE r == req[d]
           k == sync_key[d]
           more == [i \in 1..n |-> k]
           q == r \o more
<1>1. /\ Typed /\ QueueTypes /\ ClientOK(d) /\ NoGap(d) /\ InOrder(d)
  BY DeviceSays
<1>2. req' = [req EXCEPT ![d] = q] BY DEF Asked
<1>3. r \in Seq(Nat) /\ k \in Nat BY <1>1, DeviceFacts
<1>4. more \in Seq(Nat) /\ Len(more) = n /\ \A i \in 1..n : more[i] = k
  <2> HIDE DEF k
  <2> QED BY <1>3
<1>5. req'[d] = q /\ \A e \in Devices \ {d} : req'[e] = req[e] BY <1>1, <1>2 DEF Typed
<1> HIDE DEF more, r, k
<1>6. /\ q \in Seq(Nat) /\ Len(q) = Len(r) + n /\ Len(r) \in Nat
      /\ \A i \in 1..Len(r) : q[i] = r[i]
      /\ \A i \in 1..n : q[Len(r) + i] = more[i]
  <2>1. r \in Seq(Nat) /\ more \in Seq(Nat) BY <1>3, <1>4
  <2>2. /\ r \o more \in Seq(Nat) /\ Len(r \o more) = Len(r) + Len(more) /\ Len(r) \in Nat /\ Len(more) \in Nat
        /\ \A i \in 1..Len(r) : (r \o more)[i] = r[i]
        /\ \A i \in 1..Len(more) : (r \o more)[Len(r) + i] = more[i]
    BY <2>1, ConcatSays
  <2> QED BY <2>2, <1>4
<1> HIDE DEF q
<1>7. DOMAIN q = 1..Len(r) + n /\ DOMAIN r = 1..Len(r) BY <1>3, <1>6
<1>8. ASSUME NEW i \in DOMAIN q
      PROVE  (i \in DOMAIN r /\ q[i] = r[i]) \/ (i > Len(r) /\ q[i] = k)
  <2>1. CASE i \in 1..Len(r) BY <2>1, <1>6, <1>7
  <2>2. CASE i \notin 1..Len(r)
    <3>1. i - Len(r) \in 1..n /\ i = Len(r) + (i - Len(r)) /\ i > Len(r) BY <2>2, <1>6, <1>7
    <3> QED BY <3>1, <1>4, <1>6
  <2> QED BY <2>1, <2>2
<1>9. req' \in [Devices -> Seq(Nat)] BY <1>1, <1>2, <1>6 DEF Typed
<1>10. /\ \A i \in DOMAIN r : r[i] \in Known(d) /\ r[i] <= k /\ r[i] \in Nat
       /\ \A i, j \in DOMAIN r : i <= j => r[i] <= r[j]
       /\ \A i \in DOMAIN r : k <= End(d, r[i])
       /\ \A i \in DOMAIN pwt[d] : /\ pwt[d][i].end <= End(d, k)
                                   /\ \A j \in DOMAIN r : pwt[d][i].end <= End(d, r[j])
       /\ k \in Known(d)
  BY <1>1, ListFacts DEF ClientOK, InOrder, r, k
<1>11. k <= End(d, k) BY <1>1, <1>3, EndSays
<1>12. Ids(UserOf[d])' = Ids(UserOf[d]) BY DEF Ids
<1>13. \A i \in DOMAIN q : q[i] \in Known(d) /\ q[i] <= k BY <1>3, <1>8, <1>10
<1>14. ASSUME NEW i \in DOMAIN q, NEW j \in DOMAIN q, i <= j PROVE q[i] <= q[j]
  <2>1. CASE j \in DOMAIN r /\ q[j] = r[j]
    <3>1. i \in DOMAIN r /\ q[i] = r[i] BY <2>1, <1>6, <1>7, <1>14
    <3> QED BY <2>1, <3>1, <1>10, <1>14
  <2>2. CASE q[j] = k BY <2>2, <1>13
  <2> QED BY <2>1, <2>2, <1>8
<1>15. ASSUME NEW j \in DOMAIN q
       PROVE  k <= End(d, q[j]) /\ \A i \in DOMAIN pwt[d] : pwt[d][i].end <= End(d, q[j])
  BY <1>8, <1>10, <1>11
<1>16. ClientOK(d)' BY <1>1, <1>5, <1>12, <1>13 DEF ClientOK, Known, k
<1>17. NoGap(d)' BY <1>1, <1>12 DEF NoGap
<1>18. InOrder(d)'
  <2> SUFFICES /\ \A i, j \in DOMAIN q : i <= j => q[i] <= q[j]
               /\ \A i \in DOMAIN q : k <= End(d, q[i])
               /\ \A i \in DOMAIN pwt[d] : /\ pwt[d][i].end <= End(d, k)
                                           /\ \A j \in DOMAIN q : pwt[d][i].end <= End(d, q[j])
    BY <1>5, <1>12 DEF InOrder, End, New, k
  <2> QED BY <1>10, <1>14, <1>15
<1>19. ASSUME n > 0 \/ r # << >> PROVE q # << >>
  <2>1. Len(q) # 0
    <3>1. r # << >> => Len(r) # 0 BY <1>3
    <3> QED BY <3>1, <1>6, <1>19
  <2> QED BY <2>1, <1>6
<1> QED BY <1>5, <1>9, <1>16, <1>17, <1>18, <1>19 DEF r

\* Write takes from wt.
LEMMA WriteMoreInv ==
  ASSUME DeliveryAssumption, IInv, NEW d \in Devices, WriteMore(d)
  PROVE  IInv'
<1> DEFINE w == wt[d]
           n == IF Head(wt[d]) > sync_key[d] THEN 1 ELSE 0
<1>1. /\ Typed /\ QueueTypes
      /\ ClientOK(d) /\ NoGap(d) /\ InOrder(d) /\ ConnOK(d) /\ NetPaired(d)
      /\ Live(d) => Paired(d) /\ \A id \in Ids(UserOf[d]) : Covered(d, id)
  BY DeviceSays
<1>2. /\ conn[d] \in {"auth", "added", "in"} /\ ~tc[d] /\ w # << >>
      /\ wt' = [wt EXCEPT ![d] = Tail(w)] /\ req' = Asked(d, n)
      /\ UNCHANGED <<queue, sent, failures, acked, sending, net, subscribed, subscribing, conn,
                     messages, pwt, tc, sync_key, got, excused>>
  BY DEF WriteMore, Writes, storeVars, routeVars
<1>3. w \in Seq(Nat) /\ sync_key[d] \in Nat BY <1>1, DeviceFacts
<1>4. /\ Tail(w) \in Seq(Nat) /\ Len(Tail(w)) = Len(w) - 1 /\ Head(w) = w[1] /\ w[1] \in Nat
      /\ Len(w) \in Nat \ {0} /\ \A i \in 1..Len(w) - 1 : Tail(w)[i] = w[i + 1]
      /\ DOMAIN w = 1..Len(w) /\ DOMAIN Tail(w) = 1..Len(w) - 1
  <2> HIDE DEF w
  <2>1. /\ Tail(w) \in Seq(Nat) /\ Len(Tail(w)) = Len(w) - 1 /\ Head(w) = w[1] /\ w[1] \in Nat
        /\ Len(w) \in Nat \ {0} /\ \A i \in 1..Len(w) - 1 : Tail(w)[i] = w[i + 1]
    BY <1>2, <1>3, TailSays
  <2>2. DOMAIN w = 1..Len(w) /\ DOMAIN Tail(w) = 1..Len(w) - 1 BY <1>3, <2>1
  <2> QED BY <2>1, <2>2
<1>5. n \in Nat /\ (w[1] > sync_key[d] => n > 0) BY <1>4
<1>6. wt'[d] = Tail(w) /\ \A e \in Devices \ {d} : wt'[e] = wt[e] BY <1>1, <1>2 DEF Typed
<1> HIDE DEF n, w
<1>7. Excused(d)' \subseteq Ids(UserOf[d]) BY <1>1, <1>2 DEF Excused, ClientOK
<1>8. /\ req' \in [Devices -> Seq(Nat)] /\ \A e \in Devices \ {d} : req'[e] = req[e]
      /\ ClientOK(d)' /\ NoGap(d)' /\ InOrder(d)'
      /\ n > 0 \/ req[d] # << >> => req'[d] # << >>
  BY <1>2, <1>5, <1>7, AskedSays
<1>9. Typed'
  <2>1. wt' \in [Devices -> Seq(Nat)] BY <1>1, <1>2, <1>4 DEF Typed
  <2> QED BY <2>1, <1>1, <1>2, <1>8 DEF Typed
<1>10. ConnOK(d)' /\ NetPaired(d)' /\ (Live(d)' => Live(d)) /\ (Paired(d) => Paired(d)')
  BY <1>1, <1>2, <1>8 DEF ConnOK, NetPaired, Live, Paired
<1>11. ASSUME NEW id, Coming(d, id) PROVE Coming(d, id)'
  <2>1. CASE req'[d] # << >> BY <2>1 DEF Coming
  <2>2. CASE req'[d] = << >>
    <3>1. req[d] = << >> /\ ~(w[1] > sync_key[d]) BY <2>2, <1>5, <1>8
    <3>2. ASSUME NEW i \in DOMAIN w, MoreCovers(d, w[i])
          PROVE  \E j \in DOMAIN Tail(w) : MoreCovers(d, Tail(w)[j])
      <4>1. i # 1 BY <3>1, <3>2, <1>3, <1>4 DEF MoreCovers
      <4>2. i - 1 \in 1..Len(w) - 1 /\ (i - 1) + 1 = i BY <4>1, <1>4
      <4>3. i - 1 \in DOMAIN Tail(w) /\ Tail(w)[i - 1] = w[i] BY <4>2, <1>4
      <4> QED BY <4>3, <3>2
    <3>3. (\E i \in DOMAIN wt[d] : MoreCovers(d, wt[d][i])) => \E j \in DOMAIN wt'[d] : MoreCovers(d, Tail(w)[j])
      BY <3>2, <1>6 DEF w
    <3> QED BY <3>1, <3>3, <1>2, <1>6, <1>11 DEF Coming, MoreCovers, Excused
  <2> QED BY <2>1, <2>2
<1>12. DeviceOK(d)' BY <1>1, <1>2, <1>8, <1>10, <1>11, DeviceNext
<1>13. \A e \in Devices \ {d} : DeviceFixed(e) /\ excused'[e] = excused[e]
  BY <1>2, <1>6, <1>8 DEF DeviceFixed
<1> QED BY <1>2, <1>9, <1>12, <1>13, DeviceStep

\* Write takes from pwt.
LEMMA WriteSyncInv ==
  ASSUME DeliveryAssumption, IInv, NEW d \in Devices, WriteSync(d)
  PROVE  IInv'
<1> DEFINE p == pwt[d]
           k == sync_key[d]
           next == IF Head(p).end > k THEN Head(p).end ELSE k
<1>1. /\ Typed /\ QueueTypes
      /\ ClientOK(d) /\ NoGap(d) /\ InOrder(d) /\ ConnOK(d) /\ NetPaired(d)
      /\ Live(d) => Paired(d) /\ \A id \in Ids(UserOf[d]) : Covered(d, id)
  BY DeviceSays
<1>2. /\ p # << >> /\ pwt' = [pwt EXCEPT ![d] = Tail(p)]
      /\ got' = [got EXCEPT ![d] = got[d] \cup Head(p).ids]
      /\ sync_key' = [sync_key EXCEPT ![d] = next]
      /\ UNCHANGED <<queue, sent, failures, acked, sending, net, subscribed, subscribing, conn,
                     messages, wt, tc, req, excused>>
  BY DEF WriteSync, storeVars, routeVars
<1>3. p \in Seq(Pieces) /\ k \in Nat /\ Ids(UserOf[d]) \in SUBSET Nat BY <1>1, DeviceFacts
<1>4. /\ Tail(p) \in Seq(Pieces) /\ Len(Tail(p)) = Len(p) - 1 /\ Head(p) = p[1] /\ p[1] \in Pieces
      /\ Len(p) \in Nat \ {0} /\ \A i \in 1..Len(p) - 1 : Tail(p)[i] = p[i + 1]
      /\ DOMAIN p = 1..Len(p) /\ DOMAIN Tail(p) = 1..Len(p) - 1 /\ 1 \in DOMAIN p
  <2> HIDE DEF p
  <2>1. /\ Tail(p) \in Seq(Pieces) /\ Len(Tail(p)) = Len(p) - 1 /\ Head(p) = p[1] /\ p[1] \in Pieces
        /\ Len(p) \in Nat \ {0} /\ \A i \in 1..Len(p) - 1 : Tail(p)[i] = p[i + 1]
    BY <1>2, <1>3, TailSays
  <2>2. DOMAIN p = 1..Len(p) /\ DOMAIN Tail(p) = 1..Len(p) - 1 /\ 1 \in DOMAIN p BY <1>3, <2>1
  <2> QED BY <2>1, <2>2
<1> DEFINE ids == p[1].ids
           end == p[1].end
<1>5. ids \in SUBSET Nat /\ end \in Nat /\ next = (IF end > k THEN end ELSE k) BY <1>4 DEF Pieces
<1>6. pwt'[d] = Tail(p) /\ got'[d] = got[d] \cup ids /\ sync_key'[d] = next
  BY <1>1, <1>2, <1>4 DEF Typed
<1>7. \A e \in Devices \ {d} : DeviceFixed(e) /\ excused'[e] = excused[e] /\ pwt'[e] = pwt[e]
  BY <1>1, <1>2 DEF DeviceFixed, Typed
<1>8. next \in Nat /\ end <= next /\ k <= next /\ (next = end \/ next = k) BY <1>3, <1>5
<1>9. ids \subseteq Ids(UserOf[d]) /\ end \in Known(d) /\ k \in Known(d)
  BY <1>1, <1>4 DEF ClientOK
<1>10. \A i \in DOMAIN Tail(p) : i + 1 \in DOMAIN p /\ Tail(p)[i] = p[i + 1] BY <1>4
<1>11. Typed'
  <2>1. pwt' \in [Devices -> Seq(Pieces)] BY <1>1, <1>2, <1>4 DEF Typed
  <2>2. got' \in [Devices -> SUBSET Nat] BY <1>1, <1>2, <1>4, <1>5 DEF Typed
  <2>3. sync_key' \in [Devices -> Nat]
    <3> HIDE DEF next
    <3> QED BY <1>1, <1>2, <1>8 DEF Typed
  <2>4. \A e \in Devices : Len(messages'[e]) <= MESSAGE_QUEUE_LIMIT /\ Len(pwt'[e]) <= PwtSize
    <3> SUFFICES ASSUME NEW e \in Devices PROVE Len(pwt'[e]) <= PwtSize BY <1>1, <1>2 DEF Typed
    <3>1. CASE e = d
      <4>1. Len(p) <= PwtSize /\ PwtSize \in Nat BY <1>1 DEF Typed, DeliveryAssumption
      <4> QED BY <3>1, <4>1, <1>4, <1>6
    <3>2. CASE e # d BY <3>2, <1>1, <1>7 DEF Typed
    <3> QED BY <3>1, <3>2
  <2> QED BY <2>1, <2>2, <2>3, <2>4, <1>1, <1>2 DEF Typed
<1>12. /\ Ids(UserOf[d])' = Ids(UserOf[d]) /\ Excused(d)' = Excused(d) /\ Known(d)' = Known(d)
  BY <1>2 DEF Ids, Excused, Known
<1>13. /\ \A i \in DOMAIN req[d] : req[d][i] \in Known(d) /\ req[d][i] <= k /\ req[d][i] \in Nat
       /\ \A i, j \in DOMAIN req[d] : i <= j => req[d][i] <= req[d][j]
       /\ \A i \in DOMAIN req[d] : k <= End(d, req[d][i])
       /\ \A i \in DOMAIN p : /\ p[i].end <= End(d, k) /\ p[i].end \in Known(d) /\ p[i].end \in Nat
                              /\ p[i].ids \subseteq Ids(UserOf[d])
                              /\ \A j \in DOMAIN req[d] : p[i].end <= End(d, req[d][j])
  BY <1>1, ListFacts DEF ClientOK, InOrder
<1> HIDE DEF next, ids, end, p, k
<1>14. ClientOK(d)'
  <2>1. \A i \in DOMAIN req[d] : req[d][i] \in Known(d) /\ req[d][i] <= next BY <1>3, <1>8, <1>13
  <2>2. \A i \in DOMAIN Tail(p) : Tail(p)[i].end \in Known(d) /\ Tail(p)[i].ids \subseteq Ids(UserOf[d])
    BY <1>10, <1>13
  <2>3. next \in Known(d) /\ got'[d] \subseteq Ids(UserOf[d]) /\ Excused(d) \subseteq Ids(UserOf[d])
    BY <1>1, <1>6, <1>8, <1>9 DEF ClientOK
  <2> QED BY <2>1, <2>2, <2>3, <1>2, <1>6, <1>12 DEF ClientOK
<1>15. NoGap(d)'
  <2>1. {id \in Ids(UserOf[d]) : id <= end} \subseteq got[d] \cup ids BY <1>1, <1>4 DEF NoGap, p, end, ids
  <2>2. {id \in Ids(UserOf[d]) : id <= k} \subseteq got[d] BY <1>1 DEF NoGap, k
  <2>3. {id \in Ids(UserOf[d]) : id <= next} \subseteq got'[d] BY <2>1, <2>2, <1>6, <1>8
  <2>4. \A i \in DOMAIN Tail(p) : {id \in Ids(UserOf[d]) : id <= Tail(p)[i].end} \subseteq got'[d] \cup Tail(p)[i].ids
    BY <1>1, <1>6, <1>10 DEF NoGap, p
  <2> QED BY <2>3, <2>4, <1>6, <1>12 DEF NoGap
<1>16. InOrder(d)'
  <2>1. \A i \in DOMAIN req[d] : next <= End(d, req[d][i]) BY <1>4, <1>8, <1>13 DEF end
  <2>2. ASSUME NEW i \in DOMAIN Tail(p)
        PROVE  Tail(p)[i].end <= End(d, next) /\ \A j \in DOMAIN req[d] : Tail(p)[i].end <= End(d, req[d][j])
    <3>1. End(d, k) <= End(d, next) /\ End(d, k) \in Nat BY <1>1, <1>3, <1>8, EndSays
    <3>2. End(d, next) \in Nat BY <1>1, <1>8, EndSays
    <3>3. Tail(p)[i].end <= End(d, k) /\ Tail(p)[i].end \in Nat BY <1>10, <1>13
    <3> QED BY <3>1, <3>2, <3>3, <1>10, <1>13
  <2> SUFFICES /\ \A i, j \in DOMAIN req[d] : i <= j => req[d][i] <= req[d][j]
               /\ \A i \in DOMAIN req[d] : next <= End(d, req[d][i])
               /\ \A i \in DOMAIN Tail(p) : /\ Tail(p)[i].end <= End(d, next)
                                            /\ \A j \in DOMAIN req[d] : Tail(p)[i].end <= End(d, req[d][j])
    BY <1>2, <1>6, <1>12 DEF InOrder, End, New
  <2> QED BY <2>1, <2>2, <1>13
<1>17. ConnOK(d)' /\ NetPaired(d)' /\ (Live(d)' => Live(d)) /\ (Paired(d) => Paired(d)')
  BY <1>1, <1>2 DEF ConnOK, NetPaired, Live, Paired
<1>18. ASSUME NEW id \in Ids(UserOf[d]), Coming(d, id) PROVE Coming(d, id)'
  <2>0. id \in Nat BY <1>3
  <2>1. CASE id <= k \/ id <= end
    <3>1. id <= sync_key'[d] BY <2>0, <2>1, <1>3, <1>5, <1>6, <1>8
    <3> QED BY <3>1 DEF Coming
  <2>2. CASE \E i \in DOMAIN p : id <= p[i].end /\ i # 1
    <3>1. PICK i \in DOMAIN p : id <= p[i].end /\ i # 1 BY <2>2
    <3>2. i - 1 \in 1..Len(p) - 1 /\ (i - 1) + 1 = i BY <3>1, <1>4
    <3>3. i - 1 \in DOMAIN pwt'[d] /\ pwt'[d][i - 1] = p[i] BY <3>2, <1>4, <1>6
    <3> QED BY <3>1, <3>3 DEF Coming
  <2>3. CASE \E i \in DOMAIN wt[d] : MoreCovers(d, wt[d][i])
    <3>1. PICK i \in DOMAIN wt[d] : MoreCovers(d, wt[d][i]) BY <2>3
    <3>2. k < wt[d][i] /\ \A j \in DOMAIN p : p[j].end < wt[d][i] BY <3>1 DEF MoreCovers, k, p
    <3>3. next < wt[d][i] BY <3>2, <1>4, <1>8 DEF end
    <3>4. \A j \in DOMAIN Tail(p) : Tail(p)[j].end < wt[d][i] BY <3>2, <1>10
    <3>5. \E j \in DOMAIN wt[d] : next < wt[d][j] /\ \A m \in DOMAIN Tail(p) : Tail(p)[m].end < wt[d][j]
      BY <3>3, <3>4
    <3> QED BY <3>5, <1>2, <1>6 DEF Coming, MoreCovers
  <2>4. CASE \/ id \in Excused(d) \/ req[d] # << >>
             \/ \E i \in DOMAIN messages[d] : id <= messages[d][i].about
             \/ \E i \in DOMAIN net[d] : net[d][i].kind = "notify" /\ id <= net[d][i].about
    BY <2>4, <1>2, <1>12 DEF Coming
  <2> QED BY <2>1, <2>2, <2>3, <2>4, <1>18 DEF Coming, k, p, end
<1>19. DeviceOK(d)' BY <1>1, <1>2, <1>14, <1>15, <1>16, <1>17, <1>18, DeviceNext
<1> QED BY <1>2, <1>7, <1>11, <1>19, DeviceStep

\* SendMessages of the connection: the whole list is written.
LEMMA SendMessagesInv ==
  ASSUME DeliveryAssumption, IInv, NEW d \in Devices, SendMessages(d)
  PROVE  IInv'
<1> DEFINE l == messages[d]
           notices == {i \in DOMAIN l : l[i].kind = "notify"}
           useful  == {i \in notices : l[i].key > sync_key[d]}
           unasked == {id \in New(d, sync_key[d]) : \E i \in notices : id <= l[i].about}
           n == Cardinality(useful)
<1>1. /\ Typed /\ QueueTypes
      /\ ClientOK(d) /\ NoGap(d) /\ InOrder(d) /\ ConnOK(d) /\ NetPaired(d)
      /\ Live(d) => Paired(d) /\ \A id \in Ids(UserOf[d]) : Covered(d, id)
  BY DeviceSays
<1>2. /\ conn[d] \in {"auth", "added", "in"} /\ ~tc[d]
      /\ messages' = [messages EXCEPT ![d] = << >>]
      /\ req' = Asked(d, n)
      /\ excused' = [excused EXCEPT ![d] = IF useful = {} THEN excused[d] \cup Excuse(unasked, "wrong key")
                                                          ELSE excused[d]]
      /\ UNCHANGED <<queue, sent, failures, acked, sending, net, subscribed, subscribing, conn, wt, pwt, tc,
                     sync_key, got>>
  BY DEF SendMessages, Writes, storeVars, routeVars
<1>3. /\ l \in Seq(Items) /\ sync_key[d] \in Nat /\ Ids(UserOf[d]) \in SUBSET Nat
      /\ excused[d] \subseteq [id : Nat, why : Reasons]
  BY <1>1, DeviceFacts
<1>4. DOMAIN l = 1..Len(l) /\ Len(l) \in Nat
  <2> HIDE DEF l
  <2> QED BY <1>3
<1>5. useful \in SUBSET (1..Len(l)) BY <1>4
<1>6. n \in Nat /\ (useful # {} => n > 0)
  <2> HIDE DEF useful
  <2>1. IsFiniteSet(1..Len(l)) BY <1>4, FS_Interval
  <2>2. IsFiniteSet(useful) BY <2>1, <1>5, FS_Subset
  <2>3. Cardinality(useful) \in Nat /\ (Cardinality(useful) = 0 <=> useful = {})
    BY <2>2, FS_CardinalityType, FS_EmptySet
  <2> QED BY <2>3
<1>7. messages'[d] = << >> /\ \A e \in Devices \ {d} : messages'[e] = messages[e] /\ excused'[e] = excused[e]
  BY <1>1, <1>2 DEF Typed
<1>8. excused'[d] = IF useful = {} THEN excused[d] \cup Excuse(unasked, "wrong key") ELSE excused[d]
  BY <1>1, <1>2 DEF Typed
<1>9. unasked \subseteq Ids(UserOf[d]) BY DEF New
<1>10. Excuse(unasked, "wrong key") \subseteq [id : Ids(UserOf[d]), why : {"wrong key"}]
  <2> DEFINE T == unasked
  <2>1. T \subseteq Ids(UserOf[d]) BY <1>9
  <2> HIDE DEF T
  <2>2. ASSUME NEW e \in Excuse(T, "wrong key") PROVE e \in [id : Ids(UserOf[d]), why : {"wrong key"}]
    <3>1. PICK id \in T : e = [id |-> id, why |-> "wrong key"] BY DEF Excuse
    <3> QED BY <2>1, <3>1
  <2> QED BY <2>2 DEF T
<1>11. Excused(d) \subseteq Excused(d)' /\ Excused(d)' \subseteq Ids(UserOf[d])
         /\ (useful = {} => unasked \subseteq Excused(d)')
  <2> HIDE DEF unasked, useful
  <2>1. Excused(d) \subseteq Ids(UserOf[d]) BY <1>1 DEF ClientOK
  <2>2. ASSUME NEW e \in excused'[d] PROVE e.id \in Ids(UserOf[d])
    <3>1. e \in excused[d] \/ e \in [id : Ids(UserOf[d]), why : {"wrong key"}] BY <1>8, <1>10
    <3> QED BY <2>1, <3>1 DEF Excused
  <2>3. excused[d] \subseteq excused'[d] BY <1>8
  <2>4. ASSUME useful = {}, NEW id \in unasked PROVE id \in Excused(d)'
    <3>1. [id |-> id, why |-> "wrong key"] \in excused'[d] BY <2>4, <1>8 DEF Excuse
    <3>2. [id |-> id, why |-> "wrong key"].id = id OBVIOUS
    <3> QED BY <3>1, <3>2 DEF Excused
  <2> QED BY <2>2, <2>3, <2>4 DEF Excused
<1>12. excused'[d] \in SUBSET [id : Nat, why : Reasons]
  <2> HIDE DEF unasked, useful
  <2>1. [id : Ids(UserOf[d]), why : {"wrong key"}] \subseteq [id : Nat, why : Reasons] BY <1>3 DEF Reasons
  <2> QED BY <2>1, <1>3, <1>8, <1>10
<1>13. \A e \in excused'[d] : e \in excused[d] \/ e.why # "untold"
  <2> HIDE DEF unasked, useful
  <2>1. \A e \in excused'[d] : e \in excused[d] \/ e \in [id : Ids(UserOf[d]), why : {"wrong key"}]
    BY <1>8, <1>10
  <2> QED BY <2>1
<1> HIDE DEF n
<1>14. /\ req' \in [Devices -> Seq(Nat)] /\ \A e \in Devices \ {d} : req'[e] = req[e]
       /\ ClientOK(d)' /\ NoGap(d)' /\ InOrder(d)'
       /\ n > 0 \/ req[d] # << >> => req'[d] # << >>
  BY <1>2, <1>6, <1>11, AskedSays
<1>15. Typed'
  <2>1. messages' \in [Devices -> Seq(Items)]
    <3>1. << >> \in Seq(Items) OBVIOUS
    <3> QED BY <3>1, <1>1, <1>2 DEF Typed
  <2>2. excused' \in [Devices -> SUBSET [id : Nat, why : Reasons]]
    <3>1. excused' = [excused EXCEPT ![d] = excused'[d]] BY <1>2, <1>8
    <3> QED BY <3>1, <1>1, <1>12 DEF Typed
  <2>3. \A e \in Devices : Len(messages'[e]) <= MESSAGE_QUEUE_LIMIT /\ Len(pwt'[e]) <= PwtSize
    <3> SUFFICES ASSUME NEW e \in Devices PROVE Len(messages'[e]) <= MESSAGE_QUEUE_LIMIT BY <1>1, <1>2 DEF Typed
    <3>1. CASE e = d BY <3>1, <1>7 DEF DeliveryAssumption
    <3>2. CASE e # d BY <3>2, <1>1, <1>7 DEF Typed
    <3> QED BY <3>1, <3>2
  <2> QED BY <2>1, <2>2, <2>3, <1>1, <1>2, <1>14 DEF Typed
<1>16. ConnOK(d)' /\ NetPaired(d)' /\ (Live(d)' => Live(d))
  BY <1>1, <1>2, <1>7, <1>14 DEF ConnOK, NetPaired, Live
<1>17. Paired(d)' BY <1>7 DEF Paired, PairedIn
<1>18. ASSUME Live(d), NEW id \in Ids(UserOf[d]), Coming(d, id) PROVE Coming(d, id)'
  <2>1. CASE useful # {}
    <3>1. req'[d] # << >> BY <2>1, <1>6, <1>14
    <3> QED BY <3>1 DEF Coming
  <2>2. CASE useful = {}
    <3>1. InList(l, id) => id <= sync_key'[d] \/ id \in Excused(d)' \/ InNet(net'[d], id)
      <4> SUFFICES ASSUME InList(l, id), ~(id <= sync_key[d]) PROVE id \in Excused(d)' \/ InNet(net[d], id)
        BY <1>2
      <4>0. id \in Nat BY <1>3
      <4>1. id \in New(d, sync_key[d]) BY <4>0, <1>3 DEF New
      <4>2. ASSUME NEW j \in DOMAIN l, l[j].kind = "notify", id <= l[j].about PROVE id \in Excused(d)'
        <5>1. id \in unasked BY <4>1, <4>2
        <5> QED BY <5>1, <2>2, <1>11
      <4>3. PICK i \in DOMAIN l : id <= l[i].about BY DEF InList
      <4>4. CASE l[i].kind = "notify" BY <4>2, <4>3, <4>4
      <4>5. CASE l[i].kind # "notify"
        <5>1. l[i].kind = "im"
          <6> DEFINE q == l
          <6> HIDE DEF q
          <6>1. q \in Seq(Items) BY <1>3 DEF q
          <6>2. \A j \in DOMAIN q : q[j] \in Items BY <6>1
          <6>3. l[i] \in Items BY <6>2, <4>3 DEF q
          <6> QED BY <6>3, <4>5 DEF Items
        <5>2. PairedIn(l, net[d]) BY <1>1, <1>18 DEF Paired
        <5>3. CASE \E j \in DOMAIN l : i < j /\ Follows(l[j], l[i])
          BY <4>2, <4>3, <5>3 DEF Follows
        <5>4. CASE net[d] # << >> /\ Follows(Head(net[d]), l[i])
          <6> DEFINE q == net[d]
          <6>1. q \in Seq(Items) BY <1>1, DeviceFacts
          <6>2. 1 \in DOMAIN q /\ Head(q) = q[1]
            <7>1. q # << >> BY <5>4
            <7> HIDE DEF q
            <7> QED BY <6>1, <7>1
          <6> QED BY <6>2, <4>3, <5>4 DEF Follows, InNet
        <5> QED BY <5>1, <5>2, <5>3, <5>4 DEF PairedIn
      <4> QED BY <4>4, <4>5
    <3>2. /\ (req[d] # << >> => req'[d] # << >>) /\ Excused(d) \subseteq Excused(d)'
      BY <1>11, <1>14
    <3> QED BY <3>1, <3>2, <1>2, <1>18 DEF Coming, MoreCovers, InList, InNet
  <2> QED BY <2>1, <2>2
<1>19. DeviceOK(d)' BY <1>1, <1>2, <1>14, <1>16, <1>17, <1>18, DeviceNext
<1>20. \A e \in Devices \ {d} : DeviceFixed(e) /\ excused'[e] = excused[e]
  BY <1>2, <1>7, <1>14 DEF DeviceFixed
<1> QED BY <1>2, <1>13, <1>15, <1>19, <1>20, DeviceStep

-----------------------------------------------------------------------------
\* Nothing is saved, sent or under way.
LEMMA InitInv ==
  ASSUME DeliveryAssumption, Init
  PROVE  IInv
<1>1. /\ queue = [u \in Users |-> << >>] /\ sending = [s \in Senders |-> None]
      /\ sent = 0 /\ failures = 0 /\ acked = {}
      /\ net = [d \in Devices |-> << >>] /\ subscribed = {} /\ subscribing = {}
      /\ conn = [d \in Devices |-> "off"]
      /\ messages = [d \in Devices |-> << >>] /\ wt = [d \in Devices |-> << >>] /\ pwt = [d \in Devices |-> << >>]
      /\ tc = [d \in Devices |-> FALSE]
      /\ req = [d \in Devices |-> << >>] /\ sync_key = [d \in Devices |-> 0] /\ got = [d \in Devices |-> {}]
      /\ excused = [d \in Devices |-> {}]
  BY DEF Init, Empty
<1>2. MaxMsgs \in Nat /\ MESSAGE_QUEUE_LIMIT \in Nat /\ PwtSize \in Nat /\ UserOf \in [Devices -> Users]
  BY DEF DeliveryAssumption
<1>3. \A S : << >> \in Seq(S) /\ Len(<< >>) = 0 /\ DOMAIN << >> = {} OBVIOUS
<1>4. Typed
  <2>1. queue \in [Users -> Seq([id : Nat, msg : Nat])] BY <1>1, <1>3
  <2>2. net \in [Devices -> Seq(Items)] /\ messages \in [Devices -> Seq(Items)] BY <1>1, <1>3
  <2>3. wt \in [Devices -> Seq(Nat)] /\ pwt \in [Devices -> Seq(Pieces)] /\ req \in [Devices -> Seq(Nat)]
    BY <1>1, <1>3
  <2>4. \A d \in Devices : Len(messages[d]) <= MESSAGE_QUEUE_LIMIT /\ Len(pwt[d]) <= PwtSize BY <1>1, <1>2, <1>3
  <2>5. sending \in [Senders -> Handlers \cup {None}] BY <1>1
  <2> QED BY <1>1, <1>2, <2>1, <2>2, <2>3, <2>4, <2>5 DEF Typed
<1>5. \A u \in Users : ToSet(queue[u]) = {} /\ DOMAIN queue[u] = {} BY <1>1, <1>3 DEF ToSet
<1>6. \A u \in Users : Ids(u) = {} BY <1>5 DEF Ids
<1>7. Stored(Users) = {} BY <1>6 DEF Stored
<1>8. Unsaved = {} BY <1>1 DEF Unsaved
<1>9. QueueOK
  <2>1. IsFiniteSet({}) /\ Cardinality({}) = 0 BY FS_EmptySet
  <2> QED BY <2>1, <1>1, <1>5, <1>6, <1>7, <1>8 DEF QueueOK
<1>10. HandlersOK /\ AckedOK BY <1>1 DEF HandlersOK, AckedOK
<1>11. ASSUME NEW d \in Devices PROVE DeviceOK(d)
  <2>1. /\ UserOf[d] \in Users /\ net[d] = << >> /\ conn[d] = "off" /\ messages[d] = << >> /\ pwt[d] = << >>
        /\ ~tc[d] /\ req[d] = << >> /\ sync_key[d] = 0 /\ got[d] = {} /\ excused[d] = {}
    BY <1>1, <1>2
  <2>2. Ids(UserOf[d]) = {} /\ DOMAIN req[d] = {} /\ DOMAIN pwt[d] = {} /\ DOMAIN net[d] = {}
    BY <2>1, <1>3, <1>6
  <2>3. ClientOK(d) /\ NoGap(d) BY <2>1, <2>2 DEF ClientOK, NoGap, Known, Excused
  <2>4. InOrder(d) BY <2>2 DEF InOrder
  <2>5. ConnOK(d) /\ NetPaired(d) /\ ~Live(d) BY <2>1, <2>2 DEF ConnOK, NetPaired, Live
  <2> QED BY <2>3, <2>4, <2>5 DEF DeviceOK
<1> QED BY <1>4, <1>9, <1>10, <1>11 DEF IInv

\* Every step keeps the invariant.
LEMMA NextInv ==
  ASSUME DeliveryAssumption, IInv, [Next]_vars
  PROVE  IInv'
<1>1. ASSUME NEW s \in Senders, SaveForReceiver(s) \/ Continue(s) PROVE IInv'
  <2>1. CASE SaveForReceiver(s) BY <2>1, SaveForReceiverInv
  <2>2. CASE SaveForSender(s) BY <2>2, SaveForSenderInv
  <2>3. CASE SendToReceiver(s) BY <2>3, SendToReceiverInv
  <2>4. CASE SendToSender(s) BY <2>4, SendToSenderInv
  <2>5. CASE Ack(s) BY <2>5, AckInv
  <2> QED BY <1>1, <2>1, <2>2, <2>3, <2>4, <2>5 DEF Continue
<1>2. ASSUME NEW d \in Devices,
             \/ Login(d) \/ Connected(d) \/ Break(d) \/ HandleSubscribe(d)
             \/ DispatchAppMessage(d) \/ HandleSync(d) \/ Write(d)
      PROVE  IInv'
  <2>1. CASE Login(d) BY <2>1, LoginInv
  <2>2. CASE AddClient(d) BY <2>2, AddClientInv
  <2>3. CASE Subscribe(d) BY <2>3, SubscribeInv
  <2>4. CASE HandleClientClosed(d) BY <2>4, HandleClientClosedInv
  <2>5. CASE Logout(d) BY <2>5, LogoutInv
  <2>6. CASE Break(d) BY <2>6, BreakInv
  <2>7. CASE HandleSubscribe(d) BY <2>7, HandleSubscribeInv
  <2>8. CASE DispatchAppMessage(d) BY <2>8, DispatchAppMessageInv
  <2>9. CASE HandleSync(d) BY <2>9, HandleSyncInv
  <2>10. CASE WriteMore(d) BY <2>10, WriteMoreInv
  <2>11. CASE WriteSync(d) BY <2>11, WriteSyncInv
  <2>12. CASE SendMessages(d) BY <2>12, SendMessagesInv
  <2> QED BY <1>2, <2>1, <2>2, <2>3, <2>4, <2>5, <2>6, <2>7, <2>8, <2>9, <2>10, <2>11, <2>12
       DEF Connected, Write
<1>3. CASE UNCHANGED vars
  <2>1. /\ UNCHANGED <<queue, sending, sent, failures, acked, net, subscribed, subscribing, conn,
                       messages, wt, pwt, tc, req, sync_key, got, excused>>
    BY <1>3 DEF vars, storeVars, routeVars, writeVars, clientVars
  <2>2. Typed /\ QueueOK /\ HandlersOK /\ AckedOK /\ (\A d \in Devices : DeviceOK(d)) BY DEF IInv
  <2>3. Typed' BY <2>1, <2>2 DEF Typed
  <2>4. NoneUntold BY <2>1 DEF NoneUntold
  <2>5. QueueOK' /\ HandlersOK' /\ AckedOK' BY <2>1, <2>2, <2>4, HandlersFixed
  <2>6. ASSUME NEW d \in Devices PROVE DeviceOK(d)'
    <3>1. DeviceFixed(d) /\ excused'[d] = excused[d] BY <2>1 DEF DeviceFixed
    <3> QED BY <3>1, <2>1, <2>2, DeviceKept
  <2> QED BY <2>3, <2>5, <2>6 DEF IInv
<1> QED BY <1>1, <1>2, <1>3 DEF Next

\* Every behaviour of the handlers, connections and clients keeps the inductive
\* invariant.
THEOREM DeliveryInvariant ==
  ASSUME DeliveryAssumption
  PROVE  SafetySpec => []IInv
<1>1. Init => IInv BY InitInv
<1>2. IInv /\ [Next]_vars => IInv' BY NextInv
<1> QED BY <1>1, <1>2, PTL DEF SafetySpec

-----------------------------------------------------------------------------
\* Ids are at most two for each message.
LEMMA IdsSay ==
  ASSUME DeliveryAssumption, IInv, NEW u \in Users
  PROVE  Ids(u) \subseteq AllIds
<1>1. Typed /\ QueueOK BY DEF IInv
<1>2. /\ Ids(u) \in SUBSET Nat /\ \A id \in Ids(u) : 0 < id /\ id < NextId(u)
      /\ NextId(u) = 1 + Cardinality(Stored(Same(u))) /\ NextId(u) \in Nat
      /\ Cardinality(Stored(Same(u))) <= Cardinality(Stored(Users))
      /\ Cardinality(Stored(Users)) \in Nat
  BY <1>1, QueueSays, QueueFacts
<1>3. Cardinality(Unsaved) \in Nat BY <1>1, FS_CardinalityType DEF QueueOK
<1>4. Cardinality(Stored(Users)) + Cardinality(Unsaved) <= 2 * sent BY <1>1 DEF QueueOK
<1>5. sent \in Nat /\ sent <= MaxMsgs /\ MaxMsgs \in Nat BY <1>1 DEF Typed, DeliveryAssumption
<1> DEFINE c == Cardinality(Stored(Users))
           f == Cardinality(Unsaved)
           m == Cardinality(Stored(Same(u)))
           n == NextId(u)
<1>6. c <= 2 * MaxMsgs
  <2>1. c \in Nat /\ f \in Nat /\ c + f <= 2 * sent BY <1>2, <1>3, <1>4
  <2> HIDE DEF c, f
  <2> QED BY <2>1, <1>5
<1>7. m \in Nat /\ m + 1 = n /\ n \in Nat /\ m <= c /\ c \in Nat
  <2>1. m \in Nat
    <3>1. IsFiniteSet(Stored(Same(u))) BY <1>1, QueueSays, QueueFacts
    <3> QED BY <3>1, FS_CardinalityType
  <2> QED BY <2>1, <1>2
<1>8. ASSUME NEW id \in Ids(u) PROVE id \in 1..(2 * MaxMsgs)
  <2>1. id \in Nat /\ 0 < id /\ id < n BY <1>2
  <2> HIDE DEF n, m, c
  <2> QED BY <2>1, <1>5, <1>6, <1>7
<1> QED BY <1>8 DEF AllIds

\* The type invariant: a list never exceeds its limit, and a device is known to
\* the route server only while it has a connection.
THEOREM DeliveryTypes ==
  ASSUME DeliveryAssumption
  PROVE  SafetySpec => []TypeOK
<1>1. ASSUME IInv PROVE TypeOK
  <2>1. Typed /\ (\A d \in Devices : ClientOK(d)) BY <1>1 DEF IInv, DeviceOK
  <2>2. \A u \in Users : Ids(u) \subseteq AllIds BY <1>1, IdsSay
  <2>3. \A d \in Devices : UserOf[d] \in Users BY DEF DeliveryAssumption
  <2>4. \A d \in Devices : sync_key[d] \in AllIds \cup {0} /\ got[d] \subseteq AllIds /\ Excused(d) \subseteq AllIds
    BY <2>1, <2>2, <2>3 DEF ClientOK, Known
  <2>5. sync_key \in [Devices -> AllIds \cup {0}] /\ got \in [Devices -> SUBSET AllIds]
    BY <2>1, <2>4 DEF Typed
  <2>6. ASSUME NEW d \in Devices
        PROVE  excused[d] \subseteq [id : AllIds, why : {"untold", "dropped", "unsubscribed", "unanswered", "wrong key"}]
    <3> SUFFICES ASSUME NEW e \in excused[d]
                 PROVE  e \in [id : AllIds, why : {"untold", "dropped", "unsubscribed", "unanswered", "wrong key"}]
      OBVIOUS
    <3>1. e \in [id : Nat, why : Reasons] BY <2>1 DEF Typed
    <3>2. e.id \in AllIds BY <2>4 DEF Excused
    <3> QED BY <3>1, <3>2 DEF Reasons
  <2>7. acked \subseteq 1..sent /\ conn \in [Devices -> {"off", "auth", "added", "in", "closed"}]
    BY <2>1 DEF Typed
  <2>8. \A d \in Devices : Len(messages[d]) <= MESSAGE_QUEUE_LIMIT /\ Len(pwt[d]) <= PwtSize
    BY <2>1 DEF Typed
  <2>9. \A d \in subscribed \cup subscribing : d \in Remote /\ conn[d] \in {"in", "closed"}
    BY <2>1 DEF Typed
  <2> QED BY <2>2, <2>5, <2>6, <2>7, <2>8, <2>9 DEF TypeOK
<1>2. IInv => TypeOK BY <1>1
<1> QED BY <1>2, DeliveryInvariant, PTL

\* A client never skips a message: what HandleSync answers, in one piece and up to
\* the key in SYNC_END, leaves no gap, whatever requests and log-ins overlap.
THEOREM NoKeyLeavesGap ==
  ASSUME DeliveryAssumption
  PROVE  SafetySpec => []KeyLeavesNoGap
<1>1. IInv => KeyLeavesNoGap BY DEF IInv, DeviceOK, NoGap, KeyLeavesNoGap
<1> QED BY <1>1, DeliveryInvariant, PTL

\* A connected device to which nothing is under way has learned of every message
\* that was saved for its user, but for the exceptions LearnsAll lists: no order of
\* HandleAuthToken, Subscribe, SendMessage and HandleSync loses one.
THEOREM AllLearned ==
  ASSUME DeliveryAssumption
  PROVE  SafetySpec => []LearnsAll
<1>1. ASSUME IInv, NEW d \in Devices, Quiet(d), NEW id \in Ids(UserOf[d]), id > sync_key[d]
      PROVE  id \in Excused(d)
  <2>1. Live(d) BY <1>1 DEF Quiet, Live
  <2>2. Covered(d, id) BY <1>1, <2>1 DEF IInv, DeviceOK
  <2>3. \A s \in Senders : ~ToTell(s, UserOf[d], id) BY <1>1 DEF Quiet, ToTell
  <2>4. Coming(d, id) BY <2>2, <2>3 DEF Covered
  <2>5. /\ req[d] = << >> /\ DOMAIN pwt[d] = {} /\ DOMAIN wt[d] = {} /\ DOMAIN messages[d] = {}
        /\ DOMAIN net[d] = {}
    BY <1>1 DEF Quiet
  <2>6. ~(id <= sync_key[d])
    <3>1. id \in Nat /\ sync_key[d] \in Nat BY <1>1, DeviceSays, DeviceFacts
    <3> QED BY <3>1, <1>1
  <2> QED BY <2>4, <2>5, <2>6 DEF Coming
<1>2. IInv => LearnsAll BY <1>1 DEF LearnsAll
<1> QED BY <1>2, DeliveryInvariant, PTL

\* HandleIMMessage acknowledges what is in both queues, and of which both users
\* were told.
THEOREM AckedAreTold ==
  ASSUME DeliveryAssumption
  PROVE  SafetySpec => []AckedIsTold
<1>1. ASSUME IInv, NEW m \in acked, NEW u \in Users
      PROVE  \E e \in ToSet(queue[u]) :
               e.msg = m /\ \A d \in Devices : UserOf[d] = u => [id |-> e.id, why |-> "untold"] \notin excused[d]
  <2>1. PICK id \in Ids(u) : Holds(u, id, m) BY <1>1 DEF IInv, AckedOK
  <2>2. PICK e \in ToSet(queue[u]) : e.id = id /\ e.msg = m BY <2>1 DEF Holds
  <2> QED BY <2>1, <2>2 DEF Holds
<1>2. IInv => AckedIsTold BY <1>1 DEF AckedIsTold
<1> QED BY <1>2, DeliveryInvariant, PTL
=============================================================================
