---------------------------- MODULE AccessProofs ----------------------------
(***************************************************************************)
(* What is proved of MCAccess: what SyncKeysProofs shows of the sync keys  *)
(* and DeliveryProofs of the messages between users, of the instances here;*)
(* and that the caches of groups and relationships are exact once every    *)
(* event is read, for any number of goroutines, members, changes and lost  *)
(* events.                                                                 *)
(***************************************************************************)
EXTENDS MCAccess, FiniteSetTheorems, TLAPS

\* The same instance of SyncKeys as Sk, with what was proved of it.
Kp == INSTANCE SyncKeysProofs WITH
        Devices <- {c1, c2, c3}, ServerOf <- [c \in {c1, c2, c3} |-> IF c = c1 THEN 1 ELSE 2],
        MaxFailures <- SyncKeyFailures, sync_key <- user_key, failures <- key_failures

\* A step of MCAccess is one of SyncKeys or leaves its state alone.
LEMMA ImplementsKeys == Spec => Kp!Spec
<1>1. Init => Kp!Init
  BY DEF Init, Sk!Init, Kp!Init
<1>2. [Next]_<<which, cacheVars, keyVars, peerVars, groupVars>> => [Kp!Next]_(Kp!vars)
  <2>1. CASE UNCHANGED keyVars
    BY <2>1 DEF keyVars, Kp!vars
  <2>2. CASE Sk!Next
    BY <2>2, Zenon DEF Sk!Next, Kp!Next, Sk!HandleSync, Kp!HandleSync, Sk!Receive, Kp!Receive, Sk!HandleSyncKey, Kp!HandleSyncKey, Sk!ReadKey, Kp!ReadKey, Sk!WriteKey, Kp!WriteKey, Sk!GetSyncKey, Kp!GetSyncKey, Sk!Fails, Kp!Fails, Sk!Newer, Kp!Newer
  <2> QED BY <2>1, <2>2 DEF Next
<1> QED BY <1>1, <1>2, PTL DEF Spec, Kp!Spec

\* The constants of the instance are as SyncKeys assumes them.
LEMMA KeysGiven == Kp!SyncKeysAssumption
BY ConstantsAreBounds DEF Kp!SyncKeysAssumption, Sk!SyncKeysAssumption

\* SyncKeyService leaves the largest key that a device told in redis, but for
\* races of two servers.
THEOREM AccessKeyIsNewest == Spec => []KeyIsNewest
<1>1. Kp!Spec => []Kp!KeyIsNewest
  BY KeysGiven, Kp!KeyAlwaysNewest
<1>2. Kp!KeyIsNewest => KeyIsNewest
  BY DEF Kp!KeyIsNewest, KeyIsNewest, Sk!KeyIsNewest, Kp!Settled, Sk!Settled, Kp!Largest, Sk!Largest
<1> QED BY <1>1, <1>2, ImplementsKeys, PTL

\* SyncKeyService puts a smaller key in the place of a larger one only in a race.
THEOREM AccessKeyGoesBackByRaceOnly == Spec => KeyGoesBackByRaceOnly
<1>1. Kp!Spec => Kp!KeyGoesBackByRaceOnly
  BY KeysGiven, Kp!KeyOnlyGoesBackByRace
<1>2. Kp!KeyGoesBackByRaceOnly => KeyGoesBackByRaceOnly
  BY DEF Kp!KeyGoesBackByRaceOnly, KeyGoesBackByRaceOnly, Sk!KeyGoesBackByRaceOnly, Kp!vars, Sk!vars
<1> QED BY <1>1, <1>2, ImplementsKeys, PTL
-----------------------------------------------------------------------------
\* The same instance of PeerDelivery as Pd, with what was proved of it.
Dp == INSTANCE DeliveryProofs WITH
        Users <- {sender, receiver}, Sender <- sender, Receiver <- receiver,
        Devices <- {phone, desktop}, Remote <- {phone},
        UserOf <- [d \in {phone, desktop} |-> IF d = phone THEN receiver ELSE sender],
        StoreOf <- [u \in {sender, receiver} |-> u],
        Kinds <- <<FirstKinds, SecondKinds>>, MaxMsgs <- 2,
        LoginPlans <- {[d \in {phone, desktop} |-> IF d = watched THEN 2 ELSE 0] :
                         watched \in {phone, desktop}}

\* Both instances count a set in the same way.
LEMMA SameCardinality == \A S : Pd!Cardinality(S) = Dp!Cardinality(S)
BY Zenon DEF Pd!Cardinality, Dp!Cardinality

\* They find the same greatest element.
LEMMA SameMax == \A S : Pd!Max(S) = Dp!Max(S)
BY DEF Pd!Max, Dp!Max

\* The storage servers give the same ids in both.
LEMMA SameNextId == \A u : Pd!NextId(u) = Dp!NextId(u)
BY SameCardinality, Zenon DEF Pd!NextId, Dp!NextId, Pd!Stored, Dp!Stored, Pd!Ids, Dp!Ids,
   Pd!ToSet, Dp!ToSet

\* A device gets the same answer to MSG_SYNC in both.
LEMMA SameAnswer ==
  \A new : /\ Pd!InAnswer(new) = Dp!InAnswer(new) /\ Pd!HasMore(new) = Dp!HasMore(new)
          /\ \A asked : Pd!AnswerKey(asked, new) = Dp!AnswerKey(asked, new)
<1>1. ASSUME NEW new PROVE Pd!InAnswer(new) = Dp!InAnswer(new)
  BY SameCardinality DEF Pd!InAnswer, Dp!InAnswer
<1>2. ASSUME NEW new PROVE Pd!HasMore(new) = Dp!HasMore(new)
  BY SameCardinality DEF Pd!HasMore, Dp!HasMore
<1>3. ASSUME NEW new, NEW asked PROVE Pd!AnswerKey(asked, new) = Dp!AnswerKey(asked, new)
  BY <1>1, SameMax DEF Pd!AnswerKey, Dp!AnswerKey, Pd!AnswerEnd, Dp!AnswerEnd
<1> QED BY <1>1, <1>2, <1>3

\* A step of MCAccess is one of PeerDelivery or leaves its state alone.
LEMMA ImplementsDelivery == Spec => Dp!SafetySpec
<1>1. Init => Dp!Init
  BY Zenon DEF Init, Pd!Init, Dp!Init, Pd!Empty, Dp!Empty
<1>2. [Next]_<<which, cacheVars, keyVars, peerVars, groupVars>> => [Dp!Next]_(Dp!vars)
  <2>1. CASE UNCHANGED peerVars
    BY <2>1 DEF peerVars, Dp!vars, Dp!storeVars, Dp!routeVars, Dp!writeVars, Dp!clientVars
  <2>2. CASE Pd!Next
    <3>1. ASSUME NEW s \in Senders, Pd!SaveForReceiver(s) PROVE Dp!SaveForReceiver(s)
      BY <3>1, SameNextId, Zenon DEF Pd!SaveForReceiver, Dp!SaveForReceiver, Pd!Save,
         Dp!Save, Pd!Saved, Dp!Saved, Pd!Untold, Dp!Untold, Pd!Excuse, Dp!Excuse, Pd!Work,
         Dp!Work, Pd!HandleIMMessage, Dp!HandleIMMessage, Pd!CustomerClientMessage,
         Dp!CustomerClientMessage, Pd!SendIMMessage, Dp!SendIMMessage,
         Pd!SendCustomerSupportMessage, Dp!SendCustomerSupportMessage,
         Pd!SendSystemMessage, Dp!SendSystemMessage, Pd!storeVars, Dp!storeVars,
         Pd!routeVars, Dp!routeVars, Pd!writeVars, Dp!writeVars, Pd!clientVars,
         Dp!clientVars
    <3>2. ASSUME NEW s \in Senders, Pd!SaveForSender(s) PROVE Dp!SaveForSender(s)
      BY <3>2, SameNextId, Zenon DEF Pd!SaveForSender, Dp!SaveForSender, Pd!Save, Dp!Save,
         Pd!Saved, Dp!Saved, Pd!Untold, Dp!Untold, Pd!Excuse, Dp!Excuse, Pd!At, Dp!At,
         Pd!Done, Dp!Done, Pd!storeVars, Dp!storeVars, Pd!routeVars, Dp!routeVars,
         Pd!writeVars, Dp!writeVars, Pd!clientVars, Dp!clientVars
    <3>3. ASSUME NEW s \in Senders, Pd!SendToReceiver(s) PROVE Dp!SendToReceiver(s)
      BY <3>3, Zenon DEF Pd!SendToReceiver, Dp!SendToReceiver, Pd!SendMessage,
         Dp!SendMessage, Pd!HandlePublish, Dp!HandlePublish, Pd!Enqueued, Dp!Enqueued,
         Pd!Shortened, Dp!Shortened, Pd!Accepts, Dp!Accepts, Pd!Dropped, Dp!Dropped,
         Pd!Ids, Dp!Ids, Pd!Excuse, Dp!Excuse, Pd!ToSet, Dp!ToSet, Pd!Routed, Dp!Routed,
         Pd!At, Dp!At, Pd!Done, Dp!Done, Pd!storeVars, Dp!storeVars, Pd!routeVars,
         Dp!routeVars, Pd!writeVars, Dp!writeVars, Pd!clientVars, Dp!clientVars
    <3>4. ASSUME NEW s \in Senders, Pd!SendToSender(s) PROVE Dp!SendToSender(s)
      BY <3>4, Zenon DEF Pd!SendToSender, Dp!SendToSender, Pd!SendMessage, Dp!SendMessage,
         Pd!HandlePublish, Dp!HandlePublish, Pd!Enqueued, Dp!Enqueued, Pd!Shortened,
         Dp!Shortened, Pd!Accepts, Dp!Accepts, Pd!Dropped, Dp!Dropped, Pd!Ids, Dp!Ids,
         Pd!Excuse, Dp!Excuse, Pd!ToSet, Dp!ToSet, Pd!Routed, Dp!Routed, Pd!At, Dp!At,
         Pd!Done, Dp!Done, Pd!OwnKey, Dp!OwnKey, Pd!storeVars, Dp!storeVars, Pd!routeVars,
         Dp!routeVars, Pd!writeVars, Dp!writeVars, Pd!clientVars, Dp!clientVars
    <3>5. ASSUME NEW s \in Senders, Pd!Ack(s) PROVE Dp!Ack(s)
      BY <3>5, Zenon DEF Pd!Ack, Dp!Ack, Pd!At, Dp!At, Pd!Done, Dp!Done, Pd!storeVars, Dp!storeVars,
         Pd!routeVars, Dp!routeVars, Pd!writeVars, Dp!writeVars, Pd!clientVars, Dp!clientVars
    <3>6. ASSUME NEW d \in {phone, desktop}, Pd!Login(d) PROVE Dp!Login(d)
      BY <3>6, Zenon DEF Pd!Login, Dp!Login, Pd!storeVars, Dp!storeVars, Pd!routeVars, Dp!routeVars,
         Pd!writeVars, Dp!writeVars, Pd!clientVars, Dp!clientVars
    <3>7. ASSUME NEW d \in {phone, desktop}, Pd!AddClient(d) PROVE Dp!AddClient(d)
      BY <3>7, Zenon DEF Pd!AddClient, Dp!AddClient, Pd!storeVars, Dp!storeVars,
         Pd!routeVars, Dp!routeVars, Pd!writeVars, Dp!writeVars, Pd!clientVars,
         Dp!clientVars
    <3>8. ASSUME NEW d \in {phone, desktop}, Pd!Subscribe(d) PROVE Dp!Subscribe(d)
      BY <3>8, Zenon DEF Pd!Subscribe, Dp!Subscribe, Pd!storeVars, Dp!storeVars,
         Pd!routeVars, Dp!routeVars, Pd!writeVars, Dp!writeVars, Pd!clientVars,
         Dp!clientVars
    <3>9. ASSUME NEW d \in {phone, desktop}, Pd!HandleClientClosed(d) PROVE Dp!HandleClientClosed(d)
      BY <3>9, Zenon DEF Pd!HandleClientClosed, Dp!HandleClientClosed, Pd!storeVars,
         Dp!storeVars, Pd!routeVars, Dp!routeVars, Pd!writeVars, Dp!writeVars,
         Pd!clientVars, Dp!clientVars
    <3>10. ASSUME NEW d \in {phone, desktop}, Pd!Logout(d) PROVE Dp!Logout(d)
      BY <3>10, Zenon DEF Pd!Logout, Dp!Logout, Pd!storeVars, Dp!storeVars, Pd!routeVars, Dp!routeVars,
         Pd!writeVars, Dp!writeVars, Pd!clientVars, Dp!clientVars
    <3>11. ASSUME NEW d \in {phone, desktop}, Pd!Break(d) PROVE Dp!Break(d)
      BY <3>11, Zenon DEF Pd!Break, Dp!Break, Pd!storeVars, Dp!storeVars, Pd!routeVars, Dp!routeVars,
         Pd!writeVars, Dp!writeVars, Pd!clientVars, Dp!clientVars
    <3>12. ASSUME NEW d \in {phone, desktop}, Pd!HandleSubscribe(d) PROVE Dp!HandleSubscribe(d)
      BY <3>12, Zenon DEF Pd!HandleSubscribe, Dp!HandleSubscribe, Pd!storeVars,
         Dp!storeVars, Pd!routeVars, Dp!routeVars, Pd!writeVars, Dp!writeVars,
         Pd!clientVars, Dp!clientVars
    <3>13. ASSUME NEW d \in {phone, desktop}, Pd!DispatchAppMessage(d) PROVE Dp!DispatchAppMessage(d)
      BY <3>13, Zenon DEF Pd!DispatchAppMessage, Dp!DispatchAppMessage, Pd!Enqueued,
         Dp!Enqueued, Pd!Shortened, Dp!Shortened, Pd!Accepts, Dp!Accepts, Pd!Dropped,
         Dp!Dropped, Pd!Ids, Dp!Ids, Pd!Excuse, Dp!Excuse, Pd!ToSet, Dp!ToSet, Pd!Routed,
         Dp!Routed, Pd!storeVars, Dp!storeVars, Pd!routeVars, Dp!routeVars, Pd!writeVars,
         Dp!writeVars, Pd!clientVars, Dp!clientVars
    <3>14. ASSUME NEW d \in {phone, desktop}, Pd!HandleSync(d) PROVE Dp!HandleSync(d)
      BY <3>14, SameAnswer, Zenon DEF Pd!HandleSync, Dp!HandleSync, Pd!Reads, Dp!Reads,
         Pd!New, Dp!New, Pd!Ids, Dp!Ids, Pd!ToSet, Dp!ToSet, Pd!Excuse, Dp!Excuse,
         Pd!storeVars, Dp!storeVars, Pd!routeVars, Dp!routeVars, Pd!writeVars,
         Dp!writeVars, Pd!clientVars, Dp!clientVars
    <3>15. ASSUME NEW d \in {phone, desktop}, Pd!WriteMore(d) PROVE Dp!WriteMore(d)
      BY <3>15, Zenon DEF Pd!WriteMore, Dp!WriteMore, Pd!Writes, Dp!Writes, Pd!Asked,
         Dp!Asked, Pd!storeVars, Dp!storeVars, Pd!routeVars, Dp!routeVars, Pd!writeVars,
         Dp!writeVars, Pd!clientVars, Dp!clientVars
    <3>16. ASSUME NEW d \in {phone, desktop}, Pd!WriteSync(d) PROVE Dp!WriteSync(d)
      BY <3>16, Zenon DEF Pd!WriteSync, Dp!WriteSync, Pd!Writes, Dp!Writes, Pd!storeVars, Dp!storeVars,
         Pd!routeVars, Dp!routeVars, Pd!writeVars, Dp!writeVars, Pd!clientVars, Dp!clientVars
    <3>17. ASSUME NEW d \in {phone, desktop}, Pd!SendMessages(d) PROVE Dp!SendMessages(d)
      BY <3>17, SameCardinality, Zenon DEF Pd!SendMessages, Dp!SendMessages, Pd!Writes,
         Dp!Writes, Pd!Asked, Dp!Asked, Pd!New, Dp!New, Pd!Ids, Dp!Ids, Pd!ToSet,
         Dp!ToSet, Pd!Excuse, Dp!Excuse, Pd!storeVars, Dp!storeVars, Pd!routeVars,
         Dp!routeVars, Pd!writeVars, Dp!writeVars, Pd!clientVars, Dp!clientVars
    <3> QED BY <2>2, <3>1, <3>2, <3>3, <3>4, <3>5, <3>6, <3>7, <3>8, <3>9, <3>10, <3>11,
       <3>12, <3>13, <3>14, <3>15, <3>16, <3>17, Zenon DEF Pd!Next, Dp!Next, Pd!Continue,
       Dp!Continue, Pd!Connected, Dp!Connected, Pd!Write, Dp!Write
  <2> QED BY <2>1, <2>2 DEF Next
<1> QED BY <1>1, <1>2, PTL DEF Spec, Dp!SafetySpec

\* The constants of the instance are as PeerDelivery assumes them.
LEMMA DeliveryGiven == Dp!DeliveryAssumption
BY ConstantsAreBounds DEF Dp!DeliveryAssumption, Pd!DeliveryAssumption, Dp!Work, Pd!Work,
   Pd!HandleIMMessage, Dp!HandleIMMessage, Pd!CustomerClientMessage, Dp!CustomerClientMessage,
   Pd!SendIMMessage, Dp!SendIMMessage, Pd!SendCustomerSupportMessage,
   Dp!SendCustomerSupportMessage, Pd!SendSystemMessage, Dp!SendSystemMessage

\* HandleSync never makes a client skip a message.
THEOREM AccessKeyLeavesNoGap == Spec => []KeyLeavesNoGap
<1>1. Dp!SafetySpec => []Dp!KeyLeavesNoGap
  BY DeliveryGiven, Dp!NoKeyLeavesGap
<1>2. Dp!KeyLeavesNoGap => KeyLeavesNoGap
  BY DEF Dp!KeyLeavesNoGap, KeyLeavesNoGap, Pd!KeyLeavesNoGap, Dp!Ids, Pd!Ids, Dp!ToSet, Pd!ToSet
<1> QED BY <1>1, <1>2, ImplementsDelivery, PTL

\* A connected device learns of every message that HandleIMMessage, the customer
\* messages and SendIMMessage save, but for the exceptions that LearnsAll lists.
THEOREM AccessLearnsAll == Spec => []LearnsAll
<1>1. Dp!SafetySpec => []Dp!LearnsAll
  BY DeliveryGiven, Dp!AllLearned
<1>2. Dp!LearnsAll => LearnsAll
  BY Zenon DEF Dp!LearnsAll, LearnsAll, Pd!LearnsAll, Dp!Ids, Pd!Ids, Dp!ToSet, Pd!ToSet,
     Dp!Quiet, Pd!Quiet, Dp!Excused, Pd!Excused
<1> QED BY <1>1, <1>2, ImplementsDelivery, PTL

\* HandleIMMessage acknowledges what both users have and were told of.
THEOREM AccessAckedIsTold == Spec => []AckedIsTold
<1>1. Dp!SafetySpec => []Dp!AckedIsTold
  BY DeliveryGiven, Dp!AckedAreTold
<1>2. Dp!AckedIsTold => AckedIsTold
  BY Zenon DEF Dp!AckedIsTold, AckedIsTold, Pd!AckedIsTold, Dp!ToSet, Pd!ToSet
<1> QED BY <1>1, <1>2, ImplementsDelivery, PTL
-----------------------------------------------------------------------------
(***************************************************************************)
(* The stream of events and the reader's place in it, which both caches    *)
(* have.                                                                   *)
(***************************************************************************)

\* An event is to be added, or will be lost.
Adding == writing # None /\ writing.step = "add"

\* The number of the last change whose event was added or lost.
Recorded == IF Adding THEN actions - 1 ELSE actions

\* The changes whose events are in the stream, and the one being published.
End == IF writing # None THEN Len(stream) + 1 ELSE Len(stream)
ChangeAt(i) == IF i <= Len(stream) THEN stream[i].change ELSE writing.change
After(n) == {ChangeAt(i) : i \in n + 1..End}

\* No event is missing after the first n of the stream.
NoGap(n) == \A i \in n + 1..Len(stream) : stream[i].id = Recorded - (Len(stream) - i)

\* The reader has missed no event and will miss none of those published so far.
Complete == NoGap(last_entry_id) /\ action_id = Recorded - (Len(stream) - last_entry_id)

\* load() read the number of a change before its event was added.
Ahead == Adding /\ action_id = actions

Current == Complete \/ Ahead

\* The changes that may still reach the cached item when it was loaded since the
\* last event was looked up, and when the current event found it.
LoadPending ==
  IF Ahead THEN {} ELSE After(IF pc = "apply" THEN last_entry_id + 1 ELSE last_entry_id)
CachePending == IF target = "cached" THEN After(last_entry_id) ELSE LoadPending

\* C: the changes there are.
Published(C) == [prev : Int, id : Nat, change : C]
Publishing(C) == [step : {"record", "add"}, change : C]

StreamOK(C) ==
  /\ actions \in Nat /\ (Adding => actions # 0)
  /\ stream \in Seq(Published(C)) /\ writing \in Publishing(C) \cup {None}
  /\ \A i \in 1..Len(stream) : stream[i].prev = stream[i].id - 1 /\ stream[i].id <= Recorded

ReaderOK ==
  /\ action_id \in 0..actions /\ last_entry_id \in 0..Len(stream) /\ upto \in 0..Len(stream)
  /\ pc = "events" => last_entry_id <= upto
  /\ pc = "apply" => last_entry_id < upto /\ (dirty \/ action_id = stream[last_entry_id + 1].prev)
  /\ pc \notin {"action", "entry"} /\ Ahead => last_entry_id = Len(stream)
  /\ target = "cached" => pc = "apply"

\* What is pending after n is the change at n + 1 and what is pending after that.
LEMMA AfterStep ==
  ASSUME NEW C, StreamOK(C), NEW n \in Nat, n < End
  PROVE  After(n) = {ChangeAt(n + 1)} \cup After(n + 1)
<1>1. End \in Nat BY DEF StreamOK, End
<1>2. n + 1..End = {n + 1} \cup (n + 2..End) BY <1>1
<1> QED BY <1>2 DEF After

\* Nothing is pending after the last change.
LEMMA AfterEnd ==
  ASSUME NEW C, StreamOK(C), NEW n \in Nat, n >= End
  PROVE  After(n) = {} /\ n + 1..End = {}
<1>1. End \in Nat BY DEF StreamOK, End
<1>2. n + 1..End = {} BY <1>1
<1> QED BY <1>2 DEF After

\* A change that is pending is one of the changes there are.
LEMMA ChangesTyped ==
  ASSUME NEW C, StreamOK(C)
  PROVE  \A i \in 1..End : ChangeAt(i) \in C
<1> SUFFICES ASSUME NEW i \in 1..End PROVE ChangeAt(i) \in C OBVIOUS
<1>1. CASE i <= Len(stream)
  <2>1. i \in 1..Len(stream) BY <1>1 DEF StreamOK, End
  <2>2. stream[i] \in Published(C) BY <2>1 DEF StreamOK
  <2> QED BY <1>1, <2>2 DEF ChangeAt, Published
<1>2. CASE ~(i <= Len(stream))
  <2>1. writing # None BY <1>2 DEF StreamOK, End
  <2>2. writing \in Publishing(C) BY <2>1 DEF StreamOK
  <2> QED BY <1>2, <2>2 DEF ChangeAt, Publishing
<1> QED BY <1>1, <1>2

\* The services that write: the database changes, and the change is to be recorded;
\* it is; its event is added; its event is lost.
Reading == <<pc, dirty, action_id, last_entry_id, upto, target, cache, load, suspect>>
Commits(c) ==
  /\ writing = None /\ writing' = [step |-> "record", change |-> c]
  /\ UNCHANGED <<actions, stream>> /\ UNCHANGED Reading
Records ==
  /\ writing # None /\ writing.step = "record"
  /\ actions' = actions + 1 /\ writing' = [writing EXCEPT !.step = "add"]
  /\ UNCHANGED <<db, stream>> /\ UNCHANGED Reading
Adds ==
  /\ Adding /\ writing' = None
  /\ stream' = Append(stream, [prev |-> actions - 1, id |-> actions, change |-> writing.change])
  /\ UNCHANGED <<db, actions>> /\ UNCHANGED Reading
Loses == Adding /\ writing' = None /\ UNCHANGED <<db, actions, stream>> /\ UNCHANGED Reading

\* Commit: the change is pending wherever any is, and the last.
LEMMA CommitStream ==
  ASSUME NEW C, StreamOK(C), ReaderOK, None \notin Publishing(C), NEW c \in C, Commits(c)
  PROVE  /\ StreamOK(C)' /\ ReaderOK'
         /\ \A n \in 0..Len(stream) : (NoGap(n)' <=> NoGap(n)) /\ After(n)' = After(n) \cup {c}
         /\ End' = Len(stream) + 1 /\ End = Len(stream) /\ ChangeAt(Len(stream) + 1)' = c
         /\ \A i \in 1..Len(stream) : ChangeAt(i)' = ChangeAt(i)
         /\ After(Len(stream) + 1)' = {}
         /\ Current' <=> Current
         /\ LoadPending' = LoadPending \cup {c} /\ CachePending' = CachePending \cup {c}
<1>0. /\ writing = None /\ writing' = [step |-> "record", change |-> c]
      /\ UNCHANGED <<actions, stream, pc, dirty, action_id, last_entry_id, upto, target>>
  BY DEF Commits, Reading
<1> USE <1>0
<1>1. writing' \in Publishing(C) /\ writing' # None /\ writing'.step = "record" /\ writing'.change = c
  BY DEF Publishing
<1>2. ~Adding /\ ~Adding' /\ Recorded' = Recorded /\ ~Ahead /\ ~Ahead'
  BY <1>1 DEF Adding, Recorded, Ahead
<1>3. StreamOK(C)'
  BY <1>1, <1>2 DEF StreamOK
<1>4. ReaderOK'
  BY <1>2 DEF ReaderOK
<1>5. Len(stream) \in Nat /\ End' = Len(stream) + 1 /\ End = Len(stream)
  BY <1>1 DEF StreamOK, End
<1>6. ChangeAt(Len(stream) + 1)' = c /\ \A i \in 1..Len(stream) : ChangeAt(i)' = ChangeAt(i)
  BY <1>1, <1>5 DEF ChangeAt
<1>7. ASSUME NEW n \in 0..Len(stream) PROVE (NoGap(n)' <=> NoGap(n)) /\ After(n)' = After(n) \cup {c}
  <2>1. NoGap(n)' <=> NoGap(n)
    BY <1>2 DEF NoGap
  <2>2. n + 1..Len(stream) + 1 = (n + 1..Len(stream)) \cup {Len(stream) + 1}
    BY <1>5
  <2>3. n + 1..Len(stream) \subseteq 1..Len(stream)
    BY <1>5
  <2>4. After(n)' = {ChangeAt(i)' : i \in n + 1..Len(stream) + 1}
    BY <1>5 DEF After
  <2>5. After(n) = {ChangeAt(i) : i \in n + 1..Len(stream)}
    BY <1>5 DEF After
  <2>6. After(n)' = {ChangeAt(i)' : i \in n + 1..Len(stream)} \cup {c}
    BY <2>2, <2>4, <1>6
  <2>7. {ChangeAt(i)' : i \in n + 1..Len(stream)} = {ChangeAt(i) : i \in n + 1..Len(stream)}
    BY <2>3, <1>6
  <2> QED BY <2>1, <2>5, <2>6, <2>7
<1>8. After(Len(stream) + 1)' = {}
  BY <1>5 DEF After
<1>9. Current' <=> Current
  <2>1. NoGap(last_entry_id)' <=> NoGap(last_entry_id)
    BY <1>2 DEF NoGap
  <2>2. Complete' <=> Complete
    BY <1>2, <2>1 DEF Complete
  <2> QED BY <1>2, <2>2 DEF Current
<1>10. last_entry_id \in 0..Len(stream) /\ (pc = "apply" => last_entry_id + 1 \in 0..Len(stream))
  BY <1>5 DEF ReaderOK
<1>11. PICK m \in 0..Len(stream) : m = IF pc = "apply" THEN last_entry_id + 1 ELSE last_entry_id
  BY <1>10
<1>12. LoadPending = After(m) /\ LoadPending' = After(m)'
  BY <1>2, <1>11 DEF LoadPending
<1>13. LoadPending' = LoadPending \cup {c}
  BY <1>7, <1>12
<1>14. CachePending' = CachePending \cup {c}
  <2>1. PICK k \in 0..Len(stream) : k = last_entry_id BY <1>10
  <2>2. After(last_entry_id) = After(k) /\ After(last_entry_id)' = After(k)' BY <2>1
  <2> QED BY <1>7, <1>13, <2>2 DEF CachePending
<1> QED BY <1>3, <1>4, <1>5, <1>6, <1>7, <1>8, <1>9, <1>13, <1>14

\* RecordAction: nothing changes for the reader.
LEMMA RecordStream ==
  ASSUME NEW C, StreamOK(C), ReaderOK, None \notin Publishing(C), Records
  PROVE  /\ StreamOK(C)' /\ ReaderOK' /\ End' = End
         /\ \A n : (NoGap(n)' <=> NoGap(n)) /\ After(n)' = After(n)
         /\ \A i : ChangeAt(i)' = ChangeAt(i)
         /\ Current' <=> Current
         /\ LoadPending' = LoadPending /\ CachePending' = CachePending
<1>0. /\ writing # None /\ writing.step = "record"
      /\ actions' = actions + 1 /\ writing' = [writing EXCEPT !.step = "add"]
      /\ UNCHANGED <<stream, pc, dirty, action_id, last_entry_id, upto, target>>
  BY DEF Records, Reading
<1> USE <1>0
<1>1. writing \in Publishing(C) /\ writing' = [step |-> "add", change |-> writing.change]
  BY DEF StreamOK, Publishing
<1>2. /\ writing' \in Publishing(C) /\ writing' # None /\ writing'.step = "add"
      /\ writing'.change = writing.change
  BY <1>1 DEF Publishing
<1>3. ~Adding /\ Adding' /\ ~Ahead /\ actions \in Nat
  BY <1>2 DEF Adding, Ahead, StreamOK
<1>4. Recorded' = Recorded /\ ~Ahead'
  BY <1>3 DEF Recorded, Ahead, ReaderOK
<1>5. StreamOK(C)'
  BY <1>2, <1>3, <1>4 DEF StreamOK
<1>6. ReaderOK'
  BY <1>3, <1>4 DEF ReaderOK
<1>7. End' = End /\ \A i : ChangeAt(i)' = ChangeAt(i)
  BY <1>2 DEF End, ChangeAt
<1>8. \A n : (NoGap(n)' <=> NoGap(n)) /\ After(n)' = After(n)
  BY <1>4, <1>7 DEF NoGap, After
<1>9. Current' <=> Current
  BY <1>3, <1>4, <1>8 DEF Current, Complete, NoGap
<1>10. After(last_entry_id)' = After(last_entry_id) /\ After(last_entry_id + 1)' = After(last_entry_id + 1)
  BY <1>7 DEF After
<1>11. LoadPending' = LoadPending
  BY <1>3, <1>4, <1>10 DEF LoadPending
<1>12. CachePending' = CachePending
  BY <1>10, <1>11 DEF CachePending
<1> QED BY <1>5, <1>6, <1>7, <1>8, <1>9, <1>11, <1>12

\* AddEvent adds the event: it is the one that was last in the list before.
LEMMA AddStream ==
  ASSUME NEW C, StreamOK(C), ReaderOK, None \notin Publishing(C), Adds
  PROVE  /\ StreamOK(C)' /\ ReaderOK' /\ End' = End /\ End = Len(stream) + 1
         /\ \A n \in 0..Len(stream) : (NoGap(n)' => NoGap(n)) /\ After(n)' = After(n)
         /\ \A i \in 1..End : ChangeAt(i)' = ChangeAt(i) /\ After(i)' = After(i)
         /\ Current' => Current /\ LoadPending' = LoadPending /\ CachePending' = CachePending
<1>0. /\ Adding /\ writing' = None
      /\ UNCHANGED <<actions, pc, dirty, action_id, last_entry_id, upto, target>>
  BY DEF Adds, Reading
<1> USE <1>0
<1> DEFINE e == [prev |-> actions - 1, id |-> actions, change |-> writing.change]
<1>1. /\ writing # None /\ writing \in Publishing(C) /\ writing.change \in C
      /\ actions \in Nat /\ actions # 0 /\ Len(stream) \in Nat
  BY DEF Adding, StreamOK, Publishing
<1>2. e \in Published(C) /\ e.prev = e.id - 1 /\ e.id = actions /\ e.change = writing.change
  BY <1>1 DEF Published
<1> HIDE DEF e
<1>3. /\ stream' \in Seq(Published(C)) /\ Len(stream') = Len(stream) + 1
      /\ stream'[Len(stream) + 1] = e
      /\ \A i \in 1..Len(stream) : stream'[i] = stream[i]
  BY <1>2 DEF StreamOK, Adds, e
<1>4. /\ ~Adding' /\ ~Ahead' /\ Recorded = actions - 1 /\ Recorded' = actions
      /\ End = Len(stream) + 1 /\ End' = Len(stream) + 1
  BY <1>1, <1>3 DEF Adding, Ahead, Recorded, End
<1>5. StreamOK(C)'
  <2>1. ASSUME NEW i \in 1..Len(stream')
        PROVE  stream'[i].prev = stream'[i].id - 1 /\ stream'[i].id <= actions
    <3>1. CASE i = Len(stream) + 1
      BY <3>1, <1>1, <1>2, <1>3
    <3>2. CASE i # Len(stream) + 1
      <4>1. i \in 1..Len(stream) BY <3>2, <1>1, <1>3
      <4>2. stream[i] \in Published(C) /\ stream[i].prev = stream[i].id - 1 /\ stream[i].id <= actions - 1
        BY <4>1, <1>4 DEF StreamOK
      <4>3. stream[i].id \in Nat BY <4>2 DEF Published
      <4> QED BY <4>1, <4>2, <4>3, <1>1, <1>3
    <3> QED BY <3>1, <3>2
  <2> QED BY <2>1, <1>1, <1>3, <1>4 DEF StreamOK
<1>6. ReaderOK'
  <2>1. last_entry_id \in 0..Len(stream') /\ upto \in 0..Len(stream')
    BY <1>1, <1>3 DEF ReaderOK
  <2>2. pc = "apply" => stream'[last_entry_id + 1] = stream[last_entry_id + 1]
    <3> SUFFICES ASSUME pc = "apply" PROVE stream'[last_entry_id + 1] = stream[last_entry_id + 1]
      OBVIOUS
    <3>1. last_entry_id + 1 \in 1..Len(stream) BY <1>1 DEF ReaderOK
    <3> QED BY <3>1, <1>3
  <2> QED BY <2>1, <2>2, <1>4 DEF ReaderOK
<1>7. \A i \in 1..End : ChangeAt(i)' = ChangeAt(i)
  <2> SUFFICES ASSUME NEW i \in 1..End PROVE ChangeAt(i)' = ChangeAt(i) OBVIOUS
  <2>1. CASE i = Len(stream) + 1 BY <2>1, <1>1, <1>2, <1>3 DEF ChangeAt
  <2>2. CASE i # Len(stream) + 1
    <3>1. i \in 1..Len(stream) BY <2>2, <1>1, <1>4
    <3> QED BY <3>1, <1>1, <1>3 DEF ChangeAt
  <2> QED BY <2>1, <2>2
<1>8. ASSUME NEW n \in Nat PROVE After(n)' = After(n)
  <2>1. n + 1..End \subseteq 1..End BY <1>1, <1>4
  <2>2. {ChangeAt(i)' : i \in n + 1..End} = {ChangeAt(i) : i \in n + 1..End} BY <2>1, <1>7
  <2> QED BY <2>2, <1>4 DEF After
<1>9. ASSUME NEW n \in 0..Len(stream), NoGap(n)' PROVE NoGap(n)
  <2> SUFFICES ASSUME NEW i \in n + 1..Len(stream)
               PROVE  stream[i].id = Recorded - (Len(stream) - i)
    BY DEF NoGap
  <2>1. i \in n + 1..Len(stream') /\ i \in 1..Len(stream) BY <1>1, <1>3
  <2>2. stream'[i].id = Recorded' - (Len(stream') - i) BY <2>1, <1>9 DEF NoGap
  <2> QED BY <2>1, <2>2, <1>1, <1>3, <1>4
<1>10. ASSUME Current' PROVE Current /\ LoadPending' = LoadPending /\ CachePending' = CachePending
  <2>1. Complete' BY <1>10, <1>4 DEF Current
  <2>2. PICK m \in 0..Len(stream) : m = last_entry_id BY DEF ReaderOK
  <2>3. NoGap(m)' BY <2>1, <2>2 DEF Complete
  <2>4. NoGap(last_entry_id) BY <2>2, <2>3, <1>9
  <2>5. action_id = actions - (Len(stream) + 1 - last_entry_id)
    <3>1. action_id' = Recorded' - (Len(stream') - last_entry_id') BY <2>1 DEF Complete
    <3>2. action_id' = action_id /\ last_entry_id' = last_entry_id OBVIOUS
    <3>3. Recorded' = actions /\ Len(stream') = Len(stream) + 1 BY <1>3, <1>4
    <3>4. last_entry_id \in Int /\ actions \in Int /\ Len(stream) \in Int /\ action_id \in Int
      BY <1>1 DEF ReaderOK
    <3> QED BY <3>1, <3>2, <3>3, <3>4
  <2>6. Complete /\ ~Ahead BY <2>4, <2>5, <2>2, <1>1, <1>4 DEF Complete, Ahead
  <2>7. After(m)' = After(m) /\ After(m + 1)' = After(m + 1) BY <2>2, <1>8
  <2>8. LoadPending' = LoadPending
    BY <2>2, <2>6, <2>7, <1>4 DEF LoadPending
  <2> QED BY <2>2, <2>6, <2>7, <2>8 DEF Current, CachePending
<1> QED BY <1>4, <1>5, <1>6, <1>7, <1>8, <1>9, <1>10

\* AddEvent loses the event: there is a gap before whatever comes, and a reader
\* that is still current has read the number of the change before.
LEMMA LoseStream ==
  ASSUME NEW C, StreamOK(C), ReaderOK, None \notin Publishing(C), Loses
  PROVE  /\ StreamOK(C)' /\ ReaderOK'
         /\ \A n \in 0..Len(stream) : NoGap(n)' => n = Len(stream)
         /\ End' = Len(stream) /\ After(Len(stream))' = {}
         /\ pc \notin {"action", "entry"} /\ Current' =>
              Current /\ LoadPending' = LoadPending /\ CachePending' = CachePending
<1>0. /\ Adding /\ writing' = None
      /\ UNCHANGED <<actions, stream, pc, dirty, action_id, last_entry_id, upto, target>>
  BY DEF Loses, Reading
<1> USE <1>0
<1>1. actions \in Nat /\ actions # 0 /\ Len(stream) \in Nat
  BY DEF Adding, StreamOK
<1>2. /\ ~Adding' /\ ~Ahead' /\ Recorded = actions - 1 /\ Recorded' = actions /\ End' = Len(stream)
  BY DEF Adding, Ahead, Recorded, End
<1>3. \A i \in 1..Len(stream) : stream[i].id \in Nat /\ stream[i].id <= actions - 1
  <2> SUFFICES ASSUME NEW i \in 1..Len(stream) PROVE stream[i].id \in Nat /\ stream[i].id <= actions - 1
    OBVIOUS
  <2>1. stream[i] \in Published(C) /\ stream[i].id <= Recorded BY DEF StreamOK
  <2> QED BY <2>1, <1>2 DEF Published
<1>4. StreamOK(C)'
  BY <1>1, <1>2, <1>3 DEF StreamOK
<1>5. ReaderOK'
  BY <1>2 DEF ReaderOK
<1>6. ASSUME NEW n \in 0..Len(stream), NoGap(n)' PROVE n = Len(stream)
  <2> SUFFICES ASSUME n # Len(stream) PROVE FALSE OBVIOUS
  <2>1. Len(stream) \in n + 1..Len(stream) /\ Len(stream) \in 1..Len(stream) BY <1>1
  <2>2. stream[Len(stream)].id = actions - (Len(stream) - Len(stream))
    BY <2>1, <1>2, <1>6 DEF NoGap
  <2> QED BY <2>1, <2>2, <1>1, <1>3
<1>7. After(Len(stream))' = {}
  <2>1. Len(stream) + 1..Len(stream) = {} BY <1>1
  <2> QED BY <2>1, <1>2 DEF After
<1>8. ASSUME pc \notin {"action", "entry"}, Current'
      PROVE  Current /\ LoadPending' = LoadPending /\ CachePending' = CachePending
  <2>1. Complete' BY <1>2, <1>8 DEF Current
  <2>2. PICK m \in 0..Len(stream) : m = last_entry_id BY DEF ReaderOK
  <2>3. NoGap(m)' BY <2>1, <2>2 DEF Complete
  <2>4. last_entry_id = Len(stream) BY <2>2, <2>3, <1>6
  <2>5. action_id = actions BY <2>1, <2>4, <1>1, <1>2 DEF Complete
  <2>6. Ahead BY <2>5 DEF Ahead
  <2>7. pc # "apply" /\ target # "cached" BY <2>4, <1>1 DEF ReaderOK
  <2>8. LoadPending = {} /\ LoadPending' = {} BY <2>4, <2>6, <2>7, <1>2, <1>7 DEF LoadPending
  <2> QED BY <2>6, <2>7, <2>8 DEF Current, CachePending
<1> QED BY <1>2, <1>4, <1>5, <1>6, <1>7, <1>8

-----------------------------------------------------------------------------
\* The reader's steps leave the stream alone; Fixed names what does not change.

Fixed == UNCHANGED <<writing, actions, stream>>

\* Then nothing that is said of the stream does.
LEMMA FixedStream ==
  ASSUME NEW C, StreamOK(C), Fixed
  PROVE  /\ StreamOK(C)' /\ End' = End /\ (Adding' <=> Adding) /\ Recorded' = Recorded
         /\ \A n : (NoGap(n)' <=> NoGap(n)) /\ After(n)' = After(n)
         /\ \A i : ChangeAt(i)' = ChangeAt(i)
BY DEF Fixed, StreamOK, Adding, Recorded, End, NoGap, After, ChangeAt

\* The place of the reader stays, and so does what is pending.
LEMMA FixedReader ==
  ASSUME NEW C, StreamOK(C), ReaderOK, Fixed, UNCHANGED <<action_id, last_entry_id>>,
         (pc = "apply") <=> (pc' = "apply")
  PROVE  (Current' <=> Current) /\ LoadPending' = LoadPending
<1>1. (Complete' <=> Complete) /\ (Ahead' <=> Ahead)
  BY DEF Fixed, Complete, Ahead, Adding, Recorded, NoGap
<1>2. After(last_entry_id)' = After(last_entry_id) /\ After(last_entry_id + 1)' = After(last_entry_id + 1)
  BY DEF Fixed, After, End, ChangeAt
<1> QED BY <1>1, <1>2 DEF Current, LoadPending

\* The reader does not look at an event while it is ahead of the stream.
LEMMA NotAhead ==
  ASSUME NEW C, StreamOK(C), ReaderOK, pc \in {"events", "apply"}, last_entry_id < upto
  PROVE  ~Ahead /\ last_entry_id + 1 \in 1..Len(stream) /\ last_entry_id \in Nat
BY DEF StreamOK, ReaderOK

\* HandleEvent looks the event up: it is still pending for what is cached, and not
\* for what is loaded from now on.
LEMMA LookUpReader ==
  ASSUME NEW C, StreamOK(C), ReaderOK, Fixed, UNCHANGED <<action_id, last_entry_id, upto>>,
         pc = "events", last_entry_id < upto, pc' = "apply",
         dirty' = (dirty \/ action_id # stream[last_entry_id + 1].prev)
  PROVE  /\ ReaderOK' /\ (Current' <=> Current)
         /\ LoadPending = {ChangeAt(last_entry_id + 1)} \cup LoadPending'
         /\ LoadPending' = After(last_entry_id + 1)' /\ LoadPending = After(last_entry_id)
         /\ CachePending = LoadPending
         /\ target' = "cached" => CachePending' = CachePending
         /\ target' # "cached" => CachePending' = LoadPending'
         /\ last_entry_id + 1 \in 1..End
<1>1. ~Ahead /\ last_entry_id + 1 \in 1..Len(stream) /\ last_entry_id \in Nat
  BY NotAhead
<1>2. (Complete' <=> Complete) /\ ~Ahead'
  BY <1>1 DEF Fixed, Complete, Ahead, Adding, Recorded, NoGap
<1>3. After(last_entry_id)' = After(last_entry_id) /\ After(last_entry_id + 1)' = After(last_entry_id + 1)
  BY DEF Fixed, After, End, ChangeAt
<1>4. last_entry_id < End /\ last_entry_id + 1 \in 1..End
  BY <1>1 DEF End, StreamOK
<1>5. After(last_entry_id) = {ChangeAt(last_entry_id + 1)} \cup After(last_entry_id + 1)
  BY <1>1, <1>4, AfterStep
<1>6. LoadPending = After(last_entry_id) /\ LoadPending' = After(last_entry_id + 1)'
  BY <1>1, <1>2 DEF LoadPending
<1>7. ReaderOK'
  BY <1>1, <1>2 DEF Fixed, ReaderOK
<1>8. CachePending = LoadPending /\ (target' # "cached" => CachePending' = LoadPending')
      /\ (target' = "cached" => CachePending' = After(last_entry_id)')
  BY DEF ReaderOK, CachePending
<1> QED BY <1>1, <1>2, <1>3, <1>4, <1>5, <1>6, <1>7, <1>8 DEF Current

\* Apply: the event is no longer pending for anything.
LEMMA ApplyReader ==
  ASSUME NEW C, StreamOK(C), ReaderOK, Fixed, pc = "apply", pc' = "events",
         action_id' = stream[last_entry_id + 1].id, last_entry_id' = last_entry_id + 1,
         target' = "none", UNCHANGED <<upto, dirty>>
  PROVE  /\ ReaderOK' /\ (~dirty /\ Current' => Current /\ Complete)
         /\ last_entry_id + 1 \in 1..Len(stream) /\ last_entry_id + 1 \in 1..End
         /\ ~Ahead
         /\ LoadPending' = After(last_entry_id + 1) /\ LoadPending = LoadPending'
         /\ CachePending' = LoadPending'
         /\ target = "cached" => CachePending = {ChangeAt(last_entry_id + 1)} \cup CachePending'
         /\ target # "cached" => CachePending = CachePending'
<1>1. ~Ahead /\ last_entry_id + 1 \in 1..Len(stream) /\ last_entry_id \in Nat
  BY NotAhead DEF ReaderOK
<1>2. /\ stream[last_entry_id + 1].prev = stream[last_entry_id + 1].id - 1
      /\ stream[last_entry_id + 1].id \in Nat /\ stream[last_entry_id + 1].id <= Recorded
  <2>1. stream[last_entry_id + 1] \in Published(C) BY <1>1 DEF StreamOK
  <2> QED BY <2>1, <1>1 DEF StreamOK, Published
<1>3. actions \in Nat /\ Recorded <= actions /\ (Adding => Recorded = actions - 1) /\ Recorded \in Int
      /\ Len(stream) \in Nat
  BY DEF StreamOK, Recorded
<1>4. ~Ahead'
  BY <1>2, <1>3 DEF Fixed, Ahead, Adding
<1>5. ReaderOK'
  BY <1>1, <1>2, <1>3, <1>4 DEF Fixed, ReaderOK
<1>6. PICK k \in Nat : k = last_entry_id + 1 BY <1>1
<1>11. After(k)' = After(last_entry_id + 1)
  BY <1>6 DEF Fixed, After, End, ChangeAt
<1>7. last_entry_id < End /\ last_entry_id + 1 \in 1..End
  BY <1>1, <1>3 DEF End
<1>8. After(last_entry_id) = {ChangeAt(last_entry_id + 1)} \cup After(last_entry_id + 1)
  BY <1>1, <1>7, AfterStep
<1>9. LoadPending = After(last_entry_id + 1) /\ LoadPending' = After(last_entry_id + 1)
  BY <1>1, <1>4, <1>6, <1>11 DEF LoadPending
<1>10. ASSUME ~dirty, Current' PROVE Complete
  <2>1. Complete' BY <1>4, <1>10 DEF Current
  <2>2. action_id = stream[last_entry_id + 1].prev /\ action_id \in Nat BY <1>10 DEF ReaderOK
  <2>3. action_id + 1 = Recorded - (Len(stream) - (last_entry_id + 1))
    <3>1. action_id' = Recorded' - (Len(stream') - last_entry_id') BY <2>1 DEF Complete
    <3>2. Recorded' = Recorded /\ stream' = stream BY DEF Fixed, Recorded, Adding
    <3>3. action_id' = action_id + 1 BY <2>2, <1>2
    <3> QED BY <3>1, <3>2, <3>3
  <2>4. ASSUME NEW i \in last_entry_id + 1..Len(stream)
        PROVE  stream[i].id = Recorded - (Len(stream) - i)
    <3>1. CASE i = last_entry_id + 1
      BY <3>1, <2>2, <2>3, <1>1, <1>2, <1>3
    <3>2. CASE i # last_entry_id + 1
      <4>1. i \in (last_entry_id + 1) + 1..Len(stream) BY <3>2, <1>1, <1>3
      <4> QED BY <4>1, <2>1 DEF Complete, NoGap, Fixed, Recorded, Adding
    <3> QED BY <3>1, <3>2
  <2> QED BY <2>2, <2>3, <2>4, <1>1, <1>3 DEF Complete, NoGap
<1> QED BY <1>1, <1>4, <1>5, <1>6, <1>7, <1>8, <1>9, <1>10 DEF Current, CachePending

\* The steps of Publish.
LEMMA Publishes ==
  ASSUME Gc!Publish \/ Rc!Publish
  PROVE  Records \/ Adds \/ Loses
<1>1. CASE Gc!RecordAction \/ Rc!RecordAction
  <2>1. Records
    BY <1>1, Zenon DEF Gc!RecordAction, Rc!RecordAction, Records, Reading, Gc!readerVars, Rc!readerVars, Gc!cacheVars, Rc!cacheVars
  <2> QED BY <2>1
<1>2. CASE Gc!AddEvent \/ Rc!AddEvent
  <2>1. /\ Adding /\ writing' = None /\ UNCHANGED <<db, actions>> /\ UNCHANGED Reading
        /\ \/ stream' = Append(stream, [prev |-> actions - 1, id |-> actions, change |-> writing.change])
           \/ UNCHANGED stream
    BY <1>2, Zenon DEF Gc!AddEvent, Rc!AddEvent, Adding, Reading, Gc!readerVars, Rc!readerVars, Gc!cacheVars, Rc!cacheVars
  <2> QED BY <2>1 DEF Adds, Loses
<1> QED BY <1>1, <1>2 DEF Gc!Publish, Rc!Publish

-----------------------------------------------------------------------------
(***************************************************************************)
(* Groups.  First what one change does to the database and to a group that *)
(* is cached or loaded; P is what may still reach it, D the database.      *)
(***************************************************************************)

\* The changes of whether u is a member, and how u is one after it.
About(c, u)  == c.name \in {"create", "disband"} \/ (c.name \in {"add", "remove", "mute"} /\ c.uid = u)
IsAdd(c, u)  == c.name = "add" /\ c.uid = u
IsMute(c, u) == c.name = "mute" /\ c.uid = u
Outs(c, u)   == c.name \in {"create", "disband"} \/ (c.name = "remove" /\ c.uid = u)
SetTo(c)     == IF c.name = "add" THEN "in" ELSE IF c.name = "mute" THEN c.to ELSE "out"

\* The changes of the kind of the group, and whether it is a super group after it.
OfKind(c)  == c.name \in {"create", "upgrade", "disband"}
SuperOf(c) == IF c.name = "create" THEN c.super ELSE c.name = "upgrade"

\* The group is still there, unless it will be disbanded; it is a super group if
\* that of the database is, unless that will change.
Stays(P, D) == (\A d \in P : d.name # "disband") => D.state = "there"
SuperAgrees(s, P, D) == (\A d \in P : ~OfKind(d)) => s = D.group.super

\* A member is what the database says, unless that will change; an event that mutes
\* or unmutes finds the member.  A failed query hides members.
MembersAgree(m, P, D, failed) ==
  \A u \in Uids :
    /\ (\A d \in P : ~About(d, u)) => m[u] = D.group.members[u] \/ (failed /\ m[u] = "out")
    /\ ~failed /\ (\E d \in P : About(d, u)) /\ (\A d \in P : About(d, u) => IsMute(d, u)) =>
         m[u] # "out"

Agrees(g, P, D, failed) ==
  Stays(P, D) /\ SuperAgrees(g.super, P, D) /\ MembersAgree(g.members, P, D, failed)

\* D is what c, and then the changes of P, made of it.
Follows(c, P, D) ==
  /\ OfKind(c) /\ (\A d \in P : ~OfKind(d)) => D.group.super = SuperOf(c)
  /\ \A u \in Uids :
       /\ About(c, u) /\ (\A d \in P : ~About(d, u)) => D.group.members[u] = SetTo(c)
       /\ Outs(c, u) /\ (\A d \in P : ~IsAdd(d, u)) =>
            D.group.members[u] = "out" /\ \A d \in P : ~IsMute(d, u)
  /\ c.name \notin {"other", "disband"} => Stays(P, D)

\* The change c makes E of D.
Moves(c, D, E) ==
  \/ c.name = "create" /\ E = Gc!Row("there", Gc!Group(c.super, Gc!NoMembers))
  \/ /\ c.name \in {"upgrade", "add", "remove", "mute"} /\ D.state = "there"
     /\ E = Gc!Row("there", Gc!Handled(D.group, c))
     /\ c.name = "mute" => D.group.members[c.uid] # "out"
  \/ c.name = "disband" /\ E = Gc!Row("gone", Gc!Group(FALSE, Gc!NoMembers))
  \/ c.name = "other" /\ E = D

Rows == [state : {"new", "there", "gone"}, group : Gc!Groups]

\* The fields of a change.
LEMMA ChangeFields ==
  ASSUME NEW c \in Gc!Changes
  PROVE  /\ c.name \in {"create", "upgrade", "disband", "other", "add", "remove", "mute"}
         /\ c.name = "create" => c.super \in BOOLEAN
         /\ c.name \in {"add", "remove", "mute"} => c.uid \in Uids
         /\ c.name = "mute" => c.to \in {"in", "mute"}
<1>1. CASE c \in [name : {"create"}, super : BOOLEAN] BY <1>1
<1>2. CASE c \in [name : {"upgrade", "disband", "other"}] BY <1>2
<1>3. CASE c \in [name : {"add", "remove"}, uid : Uids] BY <1>3
<1>4. CASE c \in [name : {"mute"}, uid : Uids, to : {"in", "mute"}] BY <1>4
<1> QED BY <1>1, <1>2, <1>3, <1>4 DEF Gc!Changes

\* What Handled makes of a group.
LEMMA HandledFacts ==
  ASSUME NEW g \in Gc!Groups, NEW c \in Gc!Changes, c.name \in {"upgrade", "add", "remove", "mute"}
  PROVE  /\ Gc!Handled(g, c) \in Gc!Groups
         /\ Gc!Handled(g, c).super = (c.name = "upgrade" \/ g.super)
         /\ \A u \in Uids : Gc!Handled(g, c).members[u] =
              IF ~About(c, u) THEN g.members[u]
              ELSE IF c.name = "mute" /\ g.members[u] = "out" THEN "out" ELSE SetTo(c)
<1>1. /\ g = [super |-> g.super, members |-> g.members] /\ g.super \in BOOLEAN
      /\ g.members \in [Uids -> {"out", "in", "mute"}]
  BY DEF Gc!Groups
<1>2. CASE c.name = "upgrade"
  <2>1. Gc!Handled(g, c) = [super |-> TRUE, members |-> g.members]
    BY <1>1, <1>2 DEF Gc!Handled
  <2>2. \A u \in Uids : ~About(c, u) BY <1>2 DEF About
  <2>3. Gc!Handled(g, c) \in Gc!Groups BY <1>1, <2>1 DEF Gc!Groups
  <2>4. Gc!Handled(g, c).super = TRUE /\ Gc!Handled(g, c).members = g.members BY <2>1
  <2> QED BY <1>2, <2>2, <2>3, <2>4
<1>3. CASE c.name = "add"
  <2>1. Gc!Handled(g, c) = [super |-> g.super, members |-> [g.members EXCEPT ![c.uid] = "in"]]
    BY <1>1, <1>3 DEF Gc!Handled, Gc!AddMember
  <2>2. \A u \in Uids : About(c, u) <=> u = c.uid BY <1>3 DEF About
  <2>3. SetTo(c) = "in" BY <1>3 DEF SetTo
  <2>4. Gc!Handled(g, c) \in Gc!Groups
    <3>1. [g.members EXCEPT ![c.uid] = "in"] \in [Uids -> {"out", "in", "mute"}] BY <1>1
    <3> QED BY <1>1, <2>1, <3>1 DEF Gc!Groups
  <2>5. Gc!Handled(g, c).super = (c.name = "upgrade" \/ g.super) BY <1>1, <1>3, <2>1
  <2>6. \A u \in Uids : Gc!Handled(g, c).members[u] = IF u = c.uid THEN "in" ELSE g.members[u]
    BY <1>1, <2>1
  <2> QED BY <1>3, <2>2, <2>3, <2>4, <2>5, <2>6
<1>4. CASE c.name = "remove"
  <2>1. Gc!Handled(g, c) = [super |-> g.super, members |-> [g.members EXCEPT ![c.uid] = "out"]]
    BY <1>1, <1>4 DEF Gc!Handled, Gc!RemoveMember
  <2>2. \A u \in Uids : About(c, u) <=> u = c.uid BY <1>4 DEF About
  <2>3. SetTo(c) = "out" BY <1>4 DEF SetTo
  <2>4. Gc!Handled(g, c) \in Gc!Groups
    <3>1. [g.members EXCEPT ![c.uid] = "out"] \in [Uids -> {"out", "in", "mute"}] BY <1>1
    <3> QED BY <1>1, <2>1, <3>1 DEF Gc!Groups
  <2>5. Gc!Handled(g, c).super = (c.name = "upgrade" \/ g.super) BY <1>1, <1>4, <2>1
  <2>6. \A u \in Uids : Gc!Handled(g, c).members[u] = IF u = c.uid THEN "out" ELSE g.members[u]
    BY <1>1, <2>1
  <2> QED BY <1>4, <2>2, <2>3, <2>4, <2>5, <2>6
<1>5. CASE c.name = "mute"
  <2>1. c.uid \in Uids /\ c.to \in {"in", "mute"} BY <1>5, ChangeFields
  <2>2. \A u \in Uids : About(c, u) <=> u = c.uid BY <1>5 DEF About
  <2>3. SetTo(c) = c.to BY <1>5 DEF SetTo
  <2>4. CASE g.members[c.uid] = "out"
    <3>1. Gc!Handled(g, c) = g
      BY <1>5, <2>4 DEF Gc!Handled, Gc!SetMemberMute
    <3> QED BY <1>1, <1>5, <2>2, <2>4, <3>1
  <2>5. CASE g.members[c.uid] # "out"
    <3>1. Gc!Handled(g, c) = [super |-> g.super, members |-> [g.members EXCEPT ![c.uid] = c.to]]
      BY <1>1, <1>5, <2>5 DEF Gc!Handled, Gc!SetMemberMute
    <3> QED BY <1>1, <1>5, <2>1, <2>2, <2>3, <2>5, <3>1 DEF Gc!Groups
  <2> QED BY <2>4, <2>5
<1> QED BY <1>2, <1>3, <1>4, <1>5

\* What a change of the database does to the members.
LEMMA MovesFacts ==
  ASSUME NEW c \in Gc!Changes, NEW D \in Rows, NEW E, Moves(c, D, E)
  PROVE  /\ E \in Rows
         /\ ~OfKind(c) => E.group.super = D.group.super
         /\ OfKind(c) => E.group.super = SuperOf(c)
         /\ \A u \in Uids :
              /\ ~About(c, u) => E.group.members[u] = D.group.members[u]
              /\ About(c, u) => E.group.members[u] = SetTo(c)
              /\ IsMute(c, u) => D.group.members[u] # "out"
         /\ c.name \notin {"other", "disband"} => E.state = "there"
         /\ c.name = "other" => E = D
<1>0. D.group \in Gc!Groups /\ D.state \in {"new", "there", "gone"} /\ D.group.super \in BOOLEAN
  BY DEF Rows, Gc!Groups
<1>1. Gc!NoMembers \in [Uids -> {"out", "in", "mute"}] /\ \A u \in Uids : Gc!NoMembers[u] = "out"
  BY DEF Gc!NoMembers
<1>2. CASE c.name = "create" /\ E = Gc!Row("there", Gc!Group(c.super, Gc!NoMembers))
  <2>1. /\ E.state = "there" /\ E.group.super = c.super /\ E.group.members = Gc!NoMembers
        /\ E.group \in Gc!Groups
    BY <1>1, <1>2, ChangeFields DEF Gc!Row, Gc!Group, Gc!Groups
  <2>2. E \in Rows BY <1>2, <2>1 DEF Gc!Row, Rows
  <2> QED BY <1>1, <1>2, <2>1, <2>2 DEF OfKind, SuperOf, About, SetTo, IsMute
<1>3. CASE /\ c.name \in {"upgrade", "add", "remove", "mute"} /\ D.state = "there"
           /\ E = Gc!Row("there", Gc!Handled(D.group, c))
           /\ c.name = "mute" => D.group.members[c.uid] # "out"
  <2>1. E.state = "there" /\ E.group = Gc!Handled(D.group, c) BY <1>3 DEF Gc!Row
  <2>2. E \in Rows BY <1>0, <1>3, <2>1, HandledFacts DEF Gc!Row, Rows
  <2>3. E.group.super = (c.name = "upgrade" \/ D.group.super) BY <1>0, <1>3, <2>1, HandledFacts
  <2>4. ASSUME NEW u \in Uids
        PROVE  /\ ~About(c, u) => E.group.members[u] = D.group.members[u]
               /\ About(c, u) => E.group.members[u] = SetTo(c)
               /\ IsMute(c, u) => D.group.members[u] # "out"
    <3>1. E.group.members[u] = IF ~About(c, u) THEN D.group.members[u]
                               ELSE IF c.name = "mute" /\ D.group.members[u] = "out" THEN "out" ELSE SetTo(c)
      BY <1>0, <1>3, <2>1, HandledFacts
    <3>2. c.name = "mute" /\ About(c, u) => D.group.members[u] # "out"
      BY <1>3 DEF About
    <3>3. IsMute(c, u) => c.name = "mute" /\ About(c, u) BY DEF IsMute, About
    <3> QED BY <3>1, <3>2, <3>3
  <2>5. /\ ~OfKind(c) => E.group.super = D.group.super
        /\ OfKind(c) => E.group.super = SuperOf(c)
    BY <1>0, <1>3, <2>3 DEF OfKind, SuperOf
  <2> QED BY <1>3, <2>1, <2>2, <2>4, <2>5
<1>4. CASE c.name = "disband" /\ E = Gc!Row("gone", Gc!Group(FALSE, Gc!NoMembers))
  <2>1. /\ E.state = "gone" /\ E.group.super = FALSE /\ E.group.members = Gc!NoMembers
        /\ E.group \in Gc!Groups
    BY <1>1, <1>4 DEF Gc!Row, Gc!Group, Gc!Groups
  <2>2. E \in Rows BY <1>4, <2>1 DEF Gc!Row, Rows
  <2> QED BY <1>1, <1>4, <2>1, <2>2 DEF OfKind, SuperOf, About, SetTo, IsMute
<1>5. CASE c.name = "other" /\ E = D
  BY <1>5 DEF OfKind, About, IsMute
<1> QED BY <1>2, <1>3, <1>4, <1>5 DEF Moves

\* A change that comes after P is the last of P.
LEMMA FollowsGrows ==
  ASSUME NEW c \in Gc!Changes, NEW P, NEW d \in Gc!Changes, NEW D \in Rows, NEW E,
         Moves(d, D, E), Follows(c, P, D)
  PROVE  Follows(c, P \cup {d}, E)
<1>1. OfKind(c) /\ (\A x \in P \cup {d} : ~OfKind(x)) => E.group.super = SuperOf(c)
  BY MovesFacts DEF Follows
<1>2. ASSUME NEW u \in Uids, About(c, u), \A x \in P \cup {d} : ~About(x, u)
      PROVE  E.group.members[u] = SetTo(c)
  BY <1>2, MovesFacts DEF Follows
<1>3. ASSUME NEW u \in Uids, Outs(c, u), \A x \in P \cup {d} : ~IsAdd(x, u)
      PROVE  E.group.members[u] = "out" /\ \A x \in P \cup {d} : ~IsMute(x, u)
  <2>1. D.group.members[u] = "out" /\ \A x \in P : ~IsMute(x, u) BY <1>3 DEF Follows
  <2>2. ~IsMute(d, u) BY <2>1, MovesFacts
  <2>3. About(d, u) => SetTo(d) = "out"
    BY <1>3, <2>2 DEF About, SetTo, IsAdd, IsMute
  <2> QED BY <2>1, <2>2, <2>3, MovesFacts
<1>4. ASSUME c.name \notin {"other", "disband"}, \A x \in P \cup {d} : x.name # "disband"
      PROVE  E.state = "there"
  <2>1. D.state = "there" BY <1>4 DEF Follows, Stays
  <2> QED BY <1>4, <2>1, MovesFacts
<1> QED BY <1>1, <1>2, <1>3, <1>4 DEF Follows, Stays

\* The change just made.
LEMMA FollowsNew ==
  ASSUME NEW d \in Gc!Changes, NEW D \in Rows, NEW E, Moves(d, D, E)
  PROVE  Follows(d, {}, E)
<1>1. \A u \in Uids : Outs(d, u) => About(d, u) /\ SetTo(d) = "out"
  BY DEF Outs, About, SetTo
<1> QED BY <1>1, MovesFacts DEF Follows, Stays

\* A cached or loaded group that agrees does so after a change of the database.
LEMMA AgreeGrows ==
  ASSUME NEW P, NEW d \in Gc!Changes, NEW D \in Rows, NEW E, Moves(d, D, E)
  PROVE  /\ Stays(P, D) => Stays(P \cup {d}, E)
         /\ \A s : SuperAgrees(s, P, D) => SuperAgrees(s, P \cup {d}, E)
         /\ \A m : \A failed \in BOOLEAN :
              MembersAgree(m, P, D, failed) => MembersAgree(m, P \cup {d}, E, failed)
         /\ MembersAgree(D.group.members, P, D, FALSE) => MembersAgree(E.group.members, P \cup {d}, E, FALSE)
<1>1. ASSUME Stays(P, D), \A x \in P \cup {d} : x.name # "disband" PROVE E.state = "there"
  <2>1. D.state = "there" BY <1>1 DEF Stays
  <2> QED BY <1>1, <2>1, MovesFacts
<1>2. \A s : SuperAgrees(s, P, D) => SuperAgrees(s, P \cup {d}, E)
  BY MovesFacts DEF SuperAgrees
<1>3. ASSUME NEW m, NEW failed \in BOOLEAN, MembersAgree(m, P, D, failed), NEW u \in Uids
      PROVE  /\ (\A x \in P \cup {d} : ~About(x, u)) =>
                  m[u] = E.group.members[u] \/ (failed /\ m[u] = "out")
             /\ ~failed /\ (\E x \in P \cup {d} : About(x, u))
                  /\ (\A x \in P \cup {d} : About(x, u) => IsMute(x, u)) => m[u] # "out"
  <2>1. CASE ~About(d, u)
    BY <1>3, <2>1, MovesFacts DEF MembersAgree
  <2>2. CASE About(d, u)
    <3> SUFFICES ASSUME ~failed, \A x \in P \cup {d} : About(x, u) => IsMute(x, u) PROVE m[u] # "out"
      BY <2>2
    <3>1. D.group.members[u] # "out" BY <2>2, MovesFacts
    <3>2. CASE \E x \in P : About(x, u) BY <1>3, <3>2 DEF MembersAgree
    <3>3. CASE ~\E x \in P : About(x, u) BY <1>3, <3>1, <3>3 DEF MembersAgree
    <3> QED BY <3>2, <3>3
  <2> QED BY <2>1, <2>2
<1>4. ASSUME MembersAgree(D.group.members, P, D, FALSE), NEW u \in Uids,
             \E x \in P \cup {d} : About(x, u), \A x \in P \cup {d} : About(x, u) => IsMute(x, u)
      PROVE  E.group.members[u] # "out"
  <2>1. CASE ~About(d, u)
    BY <1>4, <2>1, MovesFacts DEF MembersAgree
  <2>2. CASE About(d, u)
    <3>1. IsMute(d, u) BY <1>4, <2>2
    <3>2. SetTo(d) # "out" BY <3>1, ChangeFields DEF IsMute, SetTo
    <3> QED BY <2>2, <3>2, MovesFacts
  <2> QED BY <2>1, <2>2
<1> QED BY <1>1, <1>2, <1>3, <1>4 DEF Stays, MembersAgree

\* HandleUpgrade, HandleMemberAdd, HandleMemberRemove and HandleMute take a change
\* from what is pending.
LEMMA AgreeApplied ==
  ASSUME NEW c \in Gc!Changes, NEW P, NEW D \in Rows, NEW g \in Gc!Groups, NEW failed \in BOOLEAN,
         c.name \in {"upgrade", "add", "remove", "mute"},
         Follows(c, P, D), Agrees(g, {c} \cup P, D, failed)
  PROVE  Agrees(Gc!Handled(g, c), P, D, failed)
<1>1. Stays(P, D) BY DEF Agrees, Stays
<1>2. SuperAgrees(Gc!Handled(g, c).super, P, D)
  <2>1. CASE c.name = "upgrade"
    BY <2>1, HandledFacts DEF SuperAgrees, Follows, OfKind, SuperOf
  <2>2. CASE c.name # "upgrade"
    <3>1. ~OfKind(c) BY <2>2 DEF OfKind
    <3>2. g.super \in BOOLEAN BY DEF Gc!Groups
    <3> QED BY <2>2, <3>1, <3>2, HandledFacts DEF Agrees, SuperAgrees
  <2> QED BY <2>1, <2>2
<1>3. ASSUME NEW u \in Uids
      PROVE  /\ (\A d \in P : ~About(d, u)) =>
                  \/ Gc!Handled(g, c).members[u] = D.group.members[u]
                  \/ failed /\ Gc!Handled(g, c).members[u] = "out"
             /\ ~failed /\ (\E d \in P : About(d, u)) /\ (\A d \in P : About(d, u) => IsMute(d, u)) =>
                  Gc!Handled(g, c).members[u] # "out"
  <2>1. MembersAgree(g.members, {c} \cup P, D, failed) BY DEF Agrees
  <2>2. CASE ~About(c, u)
    <3>1. Gc!Handled(g, c).members[u] = g.members[u] BY <2>2, HandledFacts
    <3> QED BY <2>1, <2>2, <3>1 DEF MembersAgree
  <2>3. CASE About(c, u)
    <3>1. c.name \in {"add", "remove", "mute"} /\ c.uid = u BY <2>3 DEF About
    <3>2. Gc!Handled(g, c).members[u] =
            IF c.name = "mute" /\ g.members[u] = "out" THEN "out" ELSE SetTo(c)
      BY <2>3, HandledFacts
    <3>3. c.name = "mute" => IsMute(c, u) /\ SetTo(c) # "out"
      BY <3>1, ChangeFields DEF IsMute, SetTo
    <3>4. (\A d \in P : ~About(d, u)) => D.group.members[u] = SetTo(c)
      BY <2>3 DEF Follows
    <3>5. ~failed /\ c.name = "mute" /\ (\A d \in P : About(d, u) => IsMute(d, u)) => g.members[u] # "out"
      BY <2>1, <2>3, <3>3 DEF MembersAgree
    <3>6. c.name = "add" => SetTo(c) = "in" BY DEF SetTo
    <3>7. ASSUME c.name = "remove", \A d \in P : About(d, u) => IsMute(d, u)
          PROVE  \A d \in P : ~About(d, u)
      <4>1. Outs(c, u) BY <3>1, <3>7 DEF Outs
      <4>2. \A d \in P : ~IsAdd(d, u) BY <3>7 DEF About, IsAdd, IsMute
      <4> QED BY <3>7, <4>1, <4>2 DEF Follows
    <3>8. (\A d \in P : ~About(d, u)) =>
            \/ Gc!Handled(g, c).members[u] = D.group.members[u]
            \/ failed /\ Gc!Handled(g, c).members[u] = "out"
      BY <3>2, <3>4, <3>5
    <3>9. ~failed /\ (\E d \in P : About(d, u)) /\ (\A d \in P : About(d, u) => IsMute(d, u)) =>
            Gc!Handled(g, c).members[u] # "out"
      BY <3>1, <3>2, <3>3, <3>5, <3>6, <3>7
    <3> QED BY <3>8, <3>9
  <2> QED BY <2>2, <2>3
<1> QED BY <1>1, <1>2, <1>3 DEF Agrees, MembersAgree

\* HandleCreate caches a group without members, whatever it found.
LEMMA CreateAgrees ==
  ASSUME NEW c \in Gc!Changes, NEW P, NEW D \in Rows, c.name = "create", Follows(c, P, D)
  PROVE  Agrees(Gc!Group(c.super, Gc!NoMembers), P, D, FALSE)
<1>1. /\ Gc!Group(c.super, Gc!NoMembers).super = c.super
      /\ \A u \in Uids : Gc!Group(c.super, Gc!NoMembers).members[u] = "out"
  BY DEF Gc!Group, Gc!NoMembers
<1>2. Stays(P, D) BY DEF Follows
<1>3. SuperAgrees(Gc!Group(c.super, Gc!NoMembers).super, P, D)
  BY <1>1 DEF Follows, SuperAgrees, OfKind, SuperOf
<1>4. ASSUME NEW u \in Uids
      PROVE  /\ (\A d \in P : ~About(d, u)) => D.group.members[u] = "out"
             /\ (\A d \in P : About(d, u) => IsMute(d, u)) => \A d \in P : ~About(d, u)
  <2>1. About(c, u) /\ Outs(c, u) /\ SetTo(c) = "out" BY DEF About, Outs, SetTo
  <2>2. (\A d \in P : About(d, u) => IsMute(d, u)) => \A d \in P : ~IsAdd(d, u)
    BY DEF About, IsAdd, IsMute
  <2> QED BY <2>1, <2>2 DEF Follows
<1> QED BY <1>1, <1>2, <1>3, <1>4 DEF Agrees, MembersAgree

-----------------------------------------------------------------------------
\* The invariant of the group cache.

Loading ==
  [super : BOOLEAN, members : [Uids -> {"out", "in", "mute"}] \cup {None},
   suspect : SUBSET {"overtaken", "failed"}]

GroupTypes ==
  /\ db \in Rows /\ cache \in Gc!Groups \cup {None} /\ suspect \in SUBSET {"overtaken", "failed"}
  /\ load \in [Gc!Goroutines -> Loading \cup {None}]

\* As far as no event was lost, the database is what the changes made of it.
GroupHistory ==
  \A n \in 0..Len(stream) : NoGap(n) =>
    /\ \A i \in n + 1..End : Follows(ChangeAt(i), After(i), db)
    /\ MembersAgree(db.group.members, After(n), db, FALSE)

\* A group is found for an event about it only; nothing is loaded before load().
GroupPlaces ==
  /\ target = "cached" => cache # None /\ ChangeAt(last_entry_id + 1).name # "other"
  /\ pc \in {"action", "entry"} => cache = None /\ \A l \in Gc!Goroutines : load[l] = None

CacheAgrees ==
  cache # None /\ "overtaken" \notin suspect => Agrees(cache, CachePending, db, "failed" \in suspect)

\* A load in progress, as far as it got.
LoadAgrees(x, P, D) ==
  x # None /\ "overtaken" \notin x.suspect =>
    /\ Stays(P, D) /\ SuperAgrees(x.super, P, D)
    /\ x.members # None => MembersAgree(x.members, P, D, "failed" \in x.suspect)

LoadsAgree == \A l \in Gc!Goroutines : LoadAgrees(load[l], LoadPending, db)

GroupInv ==
  /\ StreamOK(Gc!Changes) /\ ReaderOK /\ GroupTypes /\ GroupHistory /\ GroupPlaces
  /\ ~dirty /\ Current => CacheAgrees /\ LoadsAgree

\* No publishing service is at None.
LEMMA GroupNone == None \notin Publishing(Gc!Changes)
BY ConstantsAreBounds DEF Gc!GroupAssumption, Publishing

\* A change of the database, which is to be recorded.
Wrote == \E c \in Gc!Changes : Commits(c) /\ Moves(c, db, db')

\* The steps of Write.
LEMMA GroupWrites ==
  ASSUME GroupTypes, Gc!Write
  PROVE  Wrote
<1>1. ASSUME NEW c \in Gc!Changes, NEW E, Gc!Commit(c, E), Moves(c, db, E) PROVE Wrote
  BY <1>1 DEF Wrote, Commits, Reading, Gc!Commit, Gc!readerVars, Gc!cacheVars
<1>2. CASE Gc!WriteCreate
  <2>1. PICK s \in BOOLEAN :
          Gc!Commit([name |-> "create", super |-> s], Gc!Row("there", Gc!Group(s, Gc!NoMembers)))
    BY <1>2 DEF Gc!WriteCreate
  <2>2. [name |-> "create", super |-> s] \in Gc!Changes BY DEF Gc!Changes
  <2>3. Moves([name |-> "create", super |-> s], db, Gc!Row("there", Gc!Group(s, Gc!NoMembers)))
    BY DEF Moves
  <2> QED BY <2>1, <2>2, <2>3, <1>1
<1>3. ASSUME NEW c \in Gc!Changes, c.name \in {"upgrade", "add", "remove", "mute"}, Gc!Change(c),
             c.name = "mute" => db.group.members[c.uid] # "out"
      PROVE  Wrote
  <2>1. Gc!Commit(c, Gc!Row("there", Gc!Handled(db.group, c))) /\ db.state = "there"
    BY <1>3 DEF Gc!Change, Gc!Exists
  <2>2. Moves(c, db, Gc!Row("there", Gc!Handled(db.group, c)))
    BY <1>3, <2>1 DEF Moves
  <2> QED BY <2>1, <2>2, <1>1
<1>4. CASE Gc!WriteChange
  <2>1. CASE Gc!Change([name |-> "upgrade"])
    <3>1. [name |-> "upgrade"] \in Gc!Changes BY DEF Gc!Changes
    <3> QED BY <2>1, <3>1, <1>3
  <2>2. ASSUME NEW u \in Uids, Gc!Change([name |-> "add", uid |-> u]) PROVE Wrote
    <3>1. [name |-> "add", uid |-> u] \in Gc!Changes BY DEF Gc!Changes
    <3> QED BY <2>2, <3>1, <1>3
  <2>3. ASSUME NEW u \in Uids, Gc!Change([name |-> "remove", uid |-> u]) PROVE Wrote
    <3>1. [name |-> "remove", uid |-> u] \in Gc!Changes BY DEF Gc!Changes
    <3> QED BY <2>3, <3>1, <1>3
  <2>4. ASSUME NEW u \in Uids, NEW s \in {"in", "mute"}, db.group.members[u] # "out",
               Gc!Change([name |-> "mute", uid |-> u, to |-> s])
        PROVE  Wrote
    <3>1. [name |-> "mute", uid |-> u, to |-> s] \in Gc!Changes BY DEF Gc!Changes
    <3> QED BY <2>4, <3>1, <1>3
  <2> QED BY <1>4, <2>1, <2>2, <2>3, <2>4 DEF Gc!WriteChange
<1>5. CASE Gc!WriteDisband
  <2>1. Gc!Commit([name |-> "disband"], Gc!Row("gone", Gc!Group(FALSE, Gc!NoMembers)))
    BY <1>5 DEF Gc!WriteDisband
  <2>2. [name |-> "disband"] \in Gc!Changes BY DEF Gc!Changes
  <2>3. Moves([name |-> "disband"], db, Gc!Row("gone", Gc!Group(FALSE, Gc!NoMembers)))
    BY DEF Moves
  <2> QED BY <2>1, <2>2, <2>3, <1>1
<1>6. CASE Gc!WriteOther
  <2>1. Gc!Commit([name |-> "other"], db) BY <1>6 DEF Gc!WriteOther
  <2>2. [name |-> "other"] \in Gc!Changes BY DEF Gc!Changes
  <2>3. Moves([name |-> "other"], db, db) BY DEF Moves
  <2> QED BY <2>1, <2>2, <2>3, <1>1
<1> QED BY <1>2, <1>4, <1>5, <1>6 DEF Gc!Write

-----------------------------------------------------------------------------
\* The invariant holds initially, and the services that write keep it.

\* Nothing is cached at first.
LEMMA GroupInitInv ==
  ASSUME Gc!GroupInit
  PROVE  GroupInv
<1> USE DEF Gc!GroupInit, Gc!StreamInit
<1>1. ~Adding /\ ~Ahead /\ Recorded = 0 /\ End = 0 /\ Len(stream) = 0
  BY DEF Adding, Ahead, Recorded, End
<1>2. StreamOK(Gc!Changes)
  <2>1. stream \in Seq(Published(Gc!Changes)) OBVIOUS
  <2> QED BY <1>1, <2>1 DEF StreamOK
<1>3. ReaderOK BY <1>1 DEF ReaderOK
<1>4. GroupTypes
  <2>1. \A s \in {"new", "there"} : Gc!Row(s, Gc!Group(FALSE, Gc!NoMembers)) \in Rows
    BY DEF Gc!Row, Gc!Group, Gc!NoMembers, Rows, Gc!Groups
  <2> QED BY <2>1 DEF GroupTypes
<1>5. GroupHistory
  <2>1. \A n \in 0..Len(stream) : n + 1..End = {} BY <1>1
  <2>2. \A n \in 0..Len(stream) : After(n) = {} BY <2>1 DEF After
  <2>3. MembersAgree(db.group.members, {}, db, FALSE) BY DEF MembersAgree
  <2> QED BY <2>1, <2>2, <2>3 DEF GroupHistory
<1>6. GroupPlaces BY DEF GroupPlaces
<1> QED BY <1>2, <1>3, <1>4, <1>5, <1>6 DEF GroupInv

\* Whether a query failed is one of two.
LEMMA FailedOrNot ==
  ASSUME NEW m, NEW P, NEW D, NEW s
  PROVE  /\ "failed" \in s => (MembersAgree(m, P, D, "failed" \in s) <=> MembersAgree(m, P, D, TRUE))
         /\ "failed" \notin s => (MembersAgree(m, P, D, "failed" \in s) <=> MembersAgree(m, P, D, FALSE))
BY DEF MembersAgree

\* Members that agree do so after a change of the database, whether or not a query failed.
LEMMA MembersGrow ==
  ASSUME NEW P, NEW d \in Gc!Changes, NEW D \in Rows, NEW E, Moves(d, D, E), NEW m, NEW s,
         MembersAgree(m, P, D, "failed" \in s)
  PROVE  MembersAgree(m, P \cup {d}, E, "failed" \in s)
<1>1. CASE "failed" \in s BY <1>1, AgreeGrows, FailedOrNot
<1>2. CASE "failed" \notin s BY <1>2, AgreeGrows, FailedOrNot
<1> QED BY <1>1, <1>2

\* A change of the database is pending from then on.
LEMMA GroupWriteInv ==
  ASSUME GroupInv, Gc!Write
  PROVE  GroupInv'
<1>0. StreamOK(Gc!Changes) /\ ReaderOK /\ GroupTypes /\ GroupHistory /\ GroupPlaces
  BY DEF GroupInv
<1>1. PICK c \in Gc!Changes : Commits(c) /\ Moves(c, db, db')
  BY <1>0, GroupWrites DEF Wrote
<1>2. UNCHANGED <<cache, load, suspect, pc, dirty, last_entry_id, target, stream>>
  BY <1>1 DEF Commits, Reading
<1>3. /\ StreamOK(Gc!Changes)' /\ ReaderOK'
      /\ \A n \in 0..Len(stream) : (NoGap(n)' <=> NoGap(n)) /\ After(n)' = After(n) \cup {c}
      /\ End' = Len(stream) + 1 /\ End = Len(stream) /\ ChangeAt(Len(stream) + 1)' = c
      /\ \A i \in 1..Len(stream) : ChangeAt(i)' = ChangeAt(i)
      /\ After(Len(stream) + 1)' = {}
      /\ Current' <=> Current
      /\ LoadPending' = LoadPending \cup {c} /\ CachePending' = CachePending \cup {c}
  BY <1>0, <1>1, GroupNone, CommitStream
<1>4. db \in Rows /\ db' \in Rows
  BY <1>0, <1>1, MovesFacts DEF GroupTypes
<1>5. GroupTypes' BY <1>0, <1>2, <1>4 DEF GroupTypes
<1>6. GroupHistory'
  <2> SUFFICES ASSUME NEW n \in 0..Len(stream), NoGap(n)
               PROVE  /\ \A i \in n + 1..Len(stream) + 1 : Follows(ChangeAt(i)', After(i)', db')
                      /\ MembersAgree(db'.group.members, After(n) \cup {c}, db', FALSE)
    BY <1>2, <1>3 DEF GroupHistory
  <2>1. /\ \A i \in n + 1..Len(stream) : Follows(ChangeAt(i), After(i), db)
        /\ MembersAgree(db.group.members, After(n), db, FALSE)
    BY <1>0, <1>3 DEF GroupHistory
  <2>2. ASSUME NEW i \in n + 1..Len(stream) + 1 PROVE Follows(ChangeAt(i)', After(i)', db')
    <3>0. Len(stream) \in Nat BY <1>0 DEF StreamOK
    <3>1. CASE i = Len(stream) + 1
      <4>1. ChangeAt(Len(stream) + 1)' = c /\ After(Len(stream) + 1)' = {} BY <1>3
      <4>2. PICK k : k = Len(stream) + 1 OBVIOUS
      <4>3. k = Len(stream)' + 1 BY <4>2, <1>2
      <4>4. ChangeAt(k)' = c /\ After(k)' = {} BY <4>1, <4>3
      <4>5. Follows(c, {}, db') BY <1>1, <1>4, FollowsNew
      <4> QED BY <3>1, <4>2, <4>4, <4>5
    <3>2. CASE i # Len(stream) + 1
      <4>1. i \in 1..Len(stream) /\ i \in n + 1..Len(stream) /\ i \in 1..End BY <3>0, <3>2, <1>3
      <4>2. ChangeAt(i)' = ChangeAt(i) /\ After(i)' = After(i) \cup {c} BY <4>1, <1>3
      <4>3. ChangeAt(i) \in Gc!Changes BY <4>1, <1>0, ChangesTyped
      <4>4. Follows(ChangeAt(i), After(i), db) BY <2>1, <4>1
      <4>5. Follows(ChangeAt(i), After(i) \cup {c}, db') BY <1>1, <1>4, <4>3, <4>4, FollowsGrows
      <4> QED BY <4>2, <4>5
    <3> QED BY <3>1, <3>2
  <2>3. MembersAgree(db'.group.members, After(n) \cup {c}, db', FALSE)
    BY <1>1, <1>4, <2>1, AgreeGrows
  <2> QED BY <2>2, <2>3
<1>7. GroupPlaces'
  <2>1. target = "cached" => ChangeAt(last_entry_id + 1)' = ChangeAt(last_entry_id + 1)
    <3> SUFFICES ASSUME target = "cached" PROVE ChangeAt(last_entry_id + 1)' = ChangeAt(last_entry_id + 1)
      OBVIOUS
    <3>1. last_entry_id + 1 \in 1..Len(stream) BY <1>0 DEF ReaderOK, StreamOK
    <3>2. PICK k \in 1..Len(stream) : k = last_entry_id + 1 BY <3>1
    <3> QED BY <3>2, <1>2, <1>3
  <2> QED BY <1>0, <1>2, <2>1 DEF GroupPlaces
<1>8. ASSUME ~dirty', Current' PROVE CacheAgrees' /\ LoadsAgree'
  <2>1. CacheAgrees /\ LoadsAgree BY <1>2, <1>3, <1>8 DEF GroupInv
  <2>2. ASSUME cache' # None, "overtaken" \notin suspect'
        PROVE  Agrees(cache', CachePending', db', "failed" \in suspect')
    <3>1. Agrees(cache, CachePending, db, "failed" \in suspect) BY <1>2, <2>1, <2>2 DEF CacheAgrees
    <3>2. Agrees(cache, CachePending \cup {c}, db', "failed" \in suspect)
      BY <1>1, <1>4, <3>1, AgreeGrows, MembersGrow DEF Agrees
    <3> QED BY <1>2, <1>3, <3>2
  <2>3. ASSUME NEW l \in Gc!Goroutines PROVE LoadAgrees(load'[l], LoadPending', db')
    <3>1. LoadAgrees(load[l], LoadPending, db) BY <2>1 DEF LoadsAgree
    <3>2. LoadAgrees(load[l], LoadPending \cup {c}, db')
      BY <1>1, <1>4, <3>1, AgreeGrows, MembersGrow DEF LoadAgrees
    <3> QED BY <1>2, <1>3, <3>2
  <2> QED BY <2>2, <2>3 DEF CacheAgrees, LoadsAgree
<1> QED BY <1>3, <1>5, <1>6, <1>7, <1>8 DEF GroupInv

\* The change is recorded, and its event added or lost: a lost event leaves a gap.
LEMMA GroupPublishInv ==
  ASSUME GroupInv, Gc!Publish
  PROVE  GroupInv'
<1>0. StreamOK(Gc!Changes) /\ ReaderOK /\ GroupTypes /\ GroupHistory /\ GroupPlaces
  BY DEF GroupInv
<1>1. Records \/ Adds \/ Loses BY Publishes
<1>2. UNCHANGED <<db, cache, load, suspect, pc, dirty, last_entry_id, target>>
  BY <1>1 DEF Records, Adds, Loses, Reading
<1>3. StreamOK(Gc!Changes)' /\ ReaderOK'
  <2>1. CASE Records BY <1>0, <2>1, GroupNone, RecordStream
  <2>2. CASE Adds BY <1>0, <2>2, GroupNone, AddStream
  <2>3. CASE Loses BY <1>0, <2>3, GroupNone, LoseStream
  <2> QED BY <1>1, <2>1, <2>2, <2>3
<1>4. GroupTypes' BY <1>0, <1>2 DEF GroupTypes
<1>5. MembersAgree(db.group.members, {}, db, FALSE) BY DEF MembersAgree
<1>6. GroupHistory'
  <2>1. CASE Records
    <3>1. /\ \A n : (NoGap(n)' <=> NoGap(n)) /\ After(n)' = After(n)
          /\ \A i : ChangeAt(i)' = ChangeAt(i)
          /\ End' = End /\ stream' = stream
      BY <1>0, <2>1, GroupNone, RecordStream DEF Records
    <3> QED BY <1>0, <1>2, <3>1 DEF GroupHistory
  <2>2. CASE Adds
    <3>1. /\ \A n \in 0..Len(stream) : (NoGap(n)' => NoGap(n)) /\ After(n)' = After(n)
          /\ \A i \in 1..End : ChangeAt(i)' = ChangeAt(i) /\ After(i)' = After(i)
          /\ End' = End /\ End = Len(stream) + 1
      BY <1>0, <2>2, GroupNone, AddStream
    <3>2. Len(stream') = Len(stream) + 1 /\ Len(stream) \in Nat
      BY <1>0, <2>2 DEF Adds, StreamOK
    <3> SUFFICES ASSUME NEW n \in 0..Len(stream) + 1, NoGap(n)'
                 PROVE  /\ \A i \in n + 1..End : Follows(ChangeAt(i)', After(i)', db)
                        /\ MembersAgree(db.group.members, After(n)', db, FALSE)
      BY <1>2, <3>1, <3>2 DEF GroupHistory
    <3>3. CASE n = Len(stream) + 1
      <4>1. n \in 1..End /\ n + 1..End = {} /\ n \in Nat /\ n >= End BY <3>1, <3>2, <3>3
      <4>2. After(n)' = {} BY <1>0, <3>1, <4>1, AfterEnd
      <4> QED BY <1>5, <4>1, <4>2
    <3>4. CASE n # Len(stream) + 1
      <4>1. n \in 0..Len(stream) BY <3>2, <3>4
      <4>2. NoGap(n) BY <3>1, <4>1
      <4>3. n + 1..End \subseteq 1..End BY <3>1, <3>2
      <4> QED BY <1>0, <3>1, <4>1, <4>2, <4>3 DEF GroupHistory
    <3> QED BY <3>3, <3>4
  <2>3. CASE Loses
    <3>1. /\ \A n \in 0..Len(stream) : NoGap(n)' => n = Len(stream)
          /\ End' = Len(stream) /\ After(Len(stream))' = {}
      BY <1>0, <2>3, GroupNone, LoseStream
    <3>2. stream' = stream /\ Len(stream) \in Nat BY <1>0, <2>3 DEF Loses, StreamOK
    <3> SUFFICES ASSUME NEW n \in 0..Len(stream), NoGap(n)'
                 PROVE  /\ \A i \in n + 1..Len(stream) : Follows(ChangeAt(i)', After(i)', db)
                        /\ MembersAgree(db.group.members, After(n)', db, FALSE)
      BY <1>2, <3>1, <3>2 DEF GroupHistory
    <3>3. n = Len(stream) BY <3>1
    <3>4. n + 1..Len(stream) = {} BY <3>2, <3>3
    <3>5. After(n)' = {} BY <3>1, <3>2, <3>3
    <3> QED BY <1>5, <3>4, <3>5
  <2> QED BY <1>1, <2>1, <2>2, <2>3
<1>7. GroupPlaces'
  <2>1. ASSUME target = "cached" PROVE ChangeAt(last_entry_id + 1)' = ChangeAt(last_entry_id + 1)
    <3>1. last_entry_id + 1 \in 1..Len(stream) BY <1>0, <2>1 DEF ReaderOK, StreamOK
    <3>2. PICK k \in 1..Len(stream) : k = last_entry_id + 1 BY <3>1
    <3>3. k \in 1..End BY <1>0 DEF End, StreamOK
    <3>4. CASE Records BY <1>0, <1>2, <3>2, <3>4, GroupNone, RecordStream
    <3>5. CASE Adds BY <1>0, <1>2, <3>2, <3>3, <3>5, GroupNone, AddStream
    <3>6. CASE Loses
      <4>1. stream' = stream BY <3>6 DEF Loses
      <4> QED BY <1>2, <3>2, <4>1 DEF ChangeAt
    <3> QED BY <1>1, <3>4, <3>5, <3>6
  <2> QED BY <1>0, <1>2, <2>1 DEF GroupPlaces
<1>8. ASSUME ~dirty', Current' PROVE CacheAgrees' /\ LoadsAgree'
  <2>1. CASE pc \in {"action", "entry"}
    <3>1. cache' = None /\ \A l \in Gc!Goroutines : load'[l] = None
      BY <1>0, <1>2, <2>1 DEF GroupPlaces
    <3> QED BY <3>1 DEF CacheAgrees, LoadsAgree, LoadAgrees
  <2>2. CASE pc \notin {"action", "entry"}
    <3>1. Current /\ LoadPending' = LoadPending /\ CachePending' = CachePending
      <4>1. CASE Records BY <1>0, <1>8, <4>1, GroupNone, RecordStream
      <4>2. CASE Adds BY <1>0, <1>8, <4>2, GroupNone, AddStream
      <4>3. CASE Loses BY <1>0, <1>8, <2>2, <4>3, GroupNone, LoseStream
      <4> QED BY <1>1, <4>1, <4>2, <4>3
    <3>2. CacheAgrees /\ LoadsAgree BY <1>2, <1>8, <3>1 DEF GroupInv
    <3> QED BY <1>2, <3>1, <3>2 DEF CacheAgrees, LoadsAgree
  <2> QED BY <2>1, <2>2
<1> QED BY <1>3, <1>4, <1>6, <1>7, <1>8 DEF GroupInv

\* As long as the database is not changed, what the changes made of it is the same.
LEMMA FixedHistory ==
  ASSUME StreamOK(Gc!Changes), Fixed, UNCHANGED db, GroupHistory
  PROVE  GroupHistory'
<1>1. /\ Len(stream)' = Len(stream) /\ End' = End
      /\ \A n : (NoGap(n)' <=> NoGap(n)) /\ After(n)' = After(n)
      /\ \A i : ChangeAt(i)' = ChangeAt(i)
  BY FixedStream DEF Fixed
<1> SUFFICES ASSUME NEW n \in 0..Len(stream), NoGap(n)
             PROVE  /\ \A i \in n + 1..End : Follows(ChangeAt(i), After(i), db)
                    /\ MembersAgree(db.group.members, After(n), db, FALSE)
  BY <1>1 DEF GroupHistory
<1> QED BY DEF GroupHistory

\* LoadGroupMember reads the members as the events that are pending leave them.
LEMMA FreshPending ==
  ASSUME GroupInv, Current
  PROVE  MembersAgree(db.group.members, LoadPending, db, FALSE)
<1>0. StreamOK(Gc!Changes) /\ ReaderOK /\ GroupHistory BY DEF GroupInv
<1>1. CASE Ahead BY <1>1 DEF LoadPending, MembersAgree
<1>2. CASE ~Ahead
  <2>1. NoGap(last_entry_id) BY <1>2 DEF Current, Complete
  <2>2. Len(stream) \in Nat /\ last_entry_id \in 0..Len(stream) BY <1>0 DEF StreamOK, ReaderOK
  <2>3. CASE pc = "apply"
    <3>1. last_entry_id + 1 \in 0..Len(stream) BY <1>0, <2>2, <2>3 DEF ReaderOK
    <3>2. NoGap(last_entry_id + 1) BY <2>1, <2>2 DEF NoGap
    <3> QED BY <1>0, <1>2, <2>3, <3>1, <3>2 DEF GroupHistory, LoadPending
  <2>4. CASE pc # "apply" BY <1>0, <1>2, <2>1, <2>2, <2>4 DEF GroupHistory, LoadPending
  <2> QED BY <2>3, <2>4
<1> QED BY <1>1, <1>2

\* An event of another group leaves what agrees as it is.
LEMMA OtherPasses ==
  ASSUME NEW c, c.name = "other", NEW P, NEW D
  PROVE  /\ Stays({c} \cup P, D) => Stays(P, D)
         /\ \A s : SuperAgrees(s, {c} \cup P, D) => SuperAgrees(s, P, D)
         /\ \A m, s : MembersAgree(m, {c} \cup P, D, "failed" \in s) => MembersAgree(m, P, D, "failed" \in s)
<1>1. ~OfKind(c) /\ \A u \in Uids : ~About(c, u) BY DEF OfKind, About
<1>2. Stays({c} \cup P, D) => Stays(P, D) BY DEF Stays
<1>3. \A s : SuperAgrees(s, {c} \cup P, D) => SuperAgrees(s, P, D) BY <1>1 DEF SuperAgrees
<1>4. ASSUME NEW m, NEW s, MembersAgree(m, {c} \cup P, D, "failed" \in s), NEW u \in Uids
      PROVE  /\ (\A d \in P : ~About(d, u)) => m[u] = D.group.members[u] \/ ("failed" \in s /\ m[u] = "out")
             /\ "failed" \notin s /\ (\E d \in P : About(d, u)) /\ (\A d \in P : About(d, u) => IsMute(d, u)) =>
                  m[u] # "out"
  BY <1>1, <1>4 DEF MembersAgree
<1>5. \A m, s : MembersAgree(m, {c} \cup P, D, "failed" \in s) => MembersAgree(m, P, D, "failed" \in s)
  BY <1>4 DEF MembersAgree
<1> QED BY <1>2, <1>3, <1>5

\* A step that is neither of the reader nor of those who write: GroupInv holds after it
\* if it does of the group that is cached and of those that are loaded.
Quiet == Fixed /\ UNCHANGED <<db, pc, dirty, action_id, last_entry_id, upto>>

\* The invariant after such a step.
LEMMA QuietInv ==
  ASSUME GroupInv, Quiet, target' = target \/ target' # "cached", GroupTypes',
         target' = "cached" => cache' # None,
         pc \in {"action", "entry"} => cache' = None /\ \A l \in Gc!Goroutines : load'[l] = None,
         ~dirty /\ Current =>
           /\ cache' # None /\ "overtaken" \notin suspect' =>
                Agrees(cache', IF target' = "cached" THEN CachePending ELSE LoadPending, db, "failed" \in suspect')
           /\ \A l \in Gc!Goroutines : LoadAgrees(load'[l], LoadPending, db)
  PROVE  GroupInv'
<1>0. StreamOK(Gc!Changes) /\ ReaderOK /\ GroupHistory /\ GroupPlaces BY DEF GroupInv
<1>1. Fixed /\ UNCHANGED <<db, pc, dirty, action_id, last_entry_id, upto>> BY DEF Quiet
<1>2. /\ StreamOK(Gc!Changes)' /\ \A n : After(n)' = After(n) /\ \A i : ChangeAt(i)' = ChangeAt(i)
  BY <1>0, <1>1, FixedStream
<1>3. (Current' <=> Current) /\ LoadPending' = LoadPending /\ (Ahead' <=> Ahead)
  BY <1>0, <1>1, FixedReader DEF Fixed, Ahead, Adding
<1>4. ReaderOK'
  BY <1>0, <1>1, <1>3 DEF ReaderOK, Fixed
<1>5. GroupHistory' BY <1>0, <1>1, FixedHistory
<1>6. GroupPlaces'
  <2>1. ChangeAt(last_entry_id + 1)' = ChangeAt(last_entry_id + 1) BY <1>1 DEF Fixed, ChangeAt
  <2> QED BY <1>0, <1>1, <2>1 DEF GroupPlaces
<1>7. CachePending' = IF target' = "cached" THEN CachePending ELSE LoadPending
  <2>1. After(last_entry_id)' = After(last_entry_id) BY <1>1 DEF Fixed, After, End, ChangeAt
  <2> QED BY <1>3, <2>1 DEF CachePending
<1>8. ~dirty' /\ Current' => CacheAgrees' /\ LoadsAgree'
  BY <1>1, <1>3, <1>7 DEF CacheAgrees, LoadsAgree
<1> QED BY <1>2, <1>4, <1>5, <1>6, <1>8 DEF GroupInv

\* LoadGroup: its two queries, and the group it puts into the cache.
LEMMA GroupLoadInv ==
  ASSUME GroupInv, NEW l \in Deliverers,
         Gc!LoadRow(l) \/ Gc!LoadGroupMember(l) \/ Gc!PutGroup(l) \/ Gc!GiveUp(l)
  PROVE  GroupInv'
<1>0. StreamOK(Gc!Changes) /\ ReaderOK /\ GroupTypes /\ GroupHistory /\ GroupPlaces
  BY DEF GroupInv
<1>1. l \in Gc!Goroutines BY DEF Gc!Goroutines
<1>2. ~dirty /\ Current =>
        /\ cache # None /\ "overtaken" \notin suspect => Agrees(cache, CachePending, db, "failed" \in suspect)
        /\ \A x \in Gc!Goroutines : LoadAgrees(load[x], LoadPending, db)
  BY DEF GroupInv, CacheAgrees, LoadsAgree
<1>3. target # "cached" => CachePending = LoadPending BY DEF CachePending
<1>4. CASE Gc!LoadRow(l)
  <2> DEFINE x == [super |-> db.group.super, members |-> None, suspect |-> {}]
  <2>1. /\ Quiet /\ UNCHANGED <<target, cache, suspect>> /\ load' = [load EXCEPT ![l] = x]
        /\ pc \notin {"action", "entry"} /\ db.state = "there"
    BY <1>4 DEF Gc!LoadRow, Gc!dbVars, Gc!readerVars, Gc!Exists, Quiet, Fixed
  <2>2. x \in Loading BY <1>0 DEF GroupTypes, Loading, Rows, Gc!Groups
  <2>3. GroupTypes' BY <1>0, <2>1, <2>2 DEF GroupTypes, Quiet
  <2>4. LoadAgrees(x, LoadPending, db)
    BY <2>1 DEF LoadAgrees, Stays, SuperAgrees
  <2>5. \A y \in Gc!Goroutines : load'[y] = IF y = l THEN x ELSE load[y]
    BY <1>0, <1>1, <2>1 DEF GroupTypes
  <2> QED BY <1>0, <1>2, <1>3, <2>1, <2>3, <2>4, <2>5, QuietInv DEF GroupPlaces
<1>5. CASE Gc!LoadGroupMember(l)
  <2>1. PICK kept \in SUBSET Uids :
          LET found == [u \in Uids |-> IF u \in kept THEN db.group.members[u] ELSE "out"]
          IN load' = [load EXCEPT ![l].members = found,
                                  ![l].suspect = @ \cup IF found = db.group.members THEN {} ELSE {"failed"}]
    BY <1>5 DEF Gc!LoadGroupMember
  <2> DEFINE found == [u \in Uids |-> IF u \in kept THEN db.group.members[u] ELSE "out"]
             s == load[l].suspect \cup IF found = db.group.members THEN {} ELSE {"failed"}
             x == [super |-> load[l].super, members |-> found, suspect |-> s]
  <2>2. /\ Quiet /\ UNCHANGED <<target, cache, suspect>> /\ load[l] # None /\ load[l].members = None
    BY <1>5 DEF Gc!LoadGroupMember, Gc!dbVars, Gc!readerVars, Quiet, Fixed
  <2>3. db.group.members \in [Uids -> {"out", "in", "mute"}] BY <1>0 DEF GroupTypes, Rows, Gc!Groups
  <2>4. found \in [Uids -> {"out", "in", "mute"}] BY <2>3
  <2>5. load[l] \in Loading BY <1>0, <1>1, <2>2 DEF GroupTypes
  <2>6. load[l] = [super |-> load[l].super, members |-> load[l].members, suspect |-> load[l].suspect]
    BY <2>5 DEF Loading
  <2>7. load' \in [Gc!Goroutines -> {load'[y] : y \in Gc!Goroutines}]
    BY <1>0, <2>1 DEF GroupTypes
  <2>8. \A y \in Gc!Goroutines : load'[y] = IF y = l THEN x ELSE load[y]
    <3>1. load \in [Gc!Goroutines -> Loading \cup {None}] BY <1>0 DEF GroupTypes
    <3>2. load' = [load EXCEPT ![l].members = found, ![l].suspect = s] BY <2>1, <2>6, <3>1, <1>1
    <3>3. \A y \in Gc!Goroutines : y # l => load'[y] = load[y] BY <3>1, <3>2
    <3>4. load'[l] = [load[l] EXCEPT !.members = found, !.suspect = s] BY <3>1, <3>2, <1>1
    <3>5. load'[l] = x BY <2>6, <3>4
    <3> QED BY <3>3, <3>5
  <2>9. s \in SUBSET {"overtaken", "failed"}
    BY <2>5 DEF Loading
  <2>10. x \in Loading BY <2>4, <2>5, <2>9 DEF Loading
  <2>11. GroupTypes'
    BY <1>0, <2>2, <2>7, <2>8, <2>10 DEF GroupTypes, Quiet
  <2>12. ASSUME Current, LoadAgrees(load[l], LoadPending, db) PROVE LoadAgrees(x, LoadPending, db)
    <3>1. MembersAgree(db.group.members, LoadPending, db, FALSE) BY <2>12, FreshPending
    <3>2. CASE found = db.group.members
      <4>1. MembersAgree(found, LoadPending, db, TRUE) BY <3>1, <3>2 DEF MembersAgree
      <4>2. MembersAgree(found, LoadPending, db, "failed" \in s) BY <3>1, <3>2, <4>1, FailedOrNot
      <4> QED BY <2>12, <2>2, <4>2 DEF LoadAgrees
    <3>3. CASE found # db.group.members
      <4>1. MembersAgree(found, LoadPending, db, TRUE)
        <5>1. \A u \in Uids : found[u] = db.group.members[u] \/ found[u] = "out" OBVIOUS
        <5> QED BY <5>1 DEF MembersAgree
      <4>2. "failed" \in s BY <3>3
      <4>3. MembersAgree(found, LoadPending, db, "failed" \in s) BY <4>1, <4>2, FailedOrNot
      <4> QED BY <2>12, <2>2, <4>3 DEF LoadAgrees
    <3> QED BY <3>2, <3>3
  <2> HIDE DEF x
  <2> QED BY <1>0, <1>1, <1>2, <1>3, <2>2, <2>8, <2>11, <2>12, QuietInv DEF GroupPlaces
<1>6. CASE Gc!PutGroup(l)
  <2>1. /\ Quiet /\ load[l] # None /\ load[l].members # None
        /\ cache' = Gc!Group(load[l].super, load[l].members) /\ suspect' = load[l].suspect
        /\ load' = [load EXCEPT ![l] = None] /\ target' # "cached"
    BY <1>6 DEF Gc!PutGroup, Gc!Put, Gc!Detach, Gc!dbVars, Gc!readerVars, Quiet, Fixed
  <2>2. load[l] \in Loading BY <1>0, <1>1, <2>1 DEF GroupTypes
  <2>3. cache' \in Gc!Groups /\ suspect' \in SUBSET {"overtaken", "failed"}
        /\ cache'.super = load[l].super /\ cache'.members = load[l].members
    BY <2>1, <2>2 DEF Loading, Gc!Group, Gc!Groups
  <2>4. \A y \in Gc!Goroutines : load'[y] = IF y = l THEN None ELSE load[y]
    BY <1>0, <1>1, <2>1 DEF GroupTypes
  <2>5. GroupTypes' BY <1>0, <2>1, <2>3 DEF GroupTypes, Quiet
  <2>6. ASSUME LoadAgrees(load[l], LoadPending, db), "overtaken" \notin suspect'
        PROVE  Agrees(cache', LoadPending, db, "failed" \in suspect')
    BY <2>1, <2>3, <2>6 DEF LoadAgrees, Agrees
  <2>7. LoadAgrees(None, LoadPending, db) BY DEF LoadAgrees
  <2> QED BY <1>0, <1>1, <1>2, <2>1, <2>4, <2>5, <2>6, <2>7, QuietInv DEF GroupPlaces
<1>7. CASE Gc!GiveUp(l)
  <2>1. Quiet /\ UNCHANGED <<target, cache, suspect>> /\ load' = [load EXCEPT ![l] = None]
    BY <1>7 DEF Gc!GiveUp, Gc!dbVars, Gc!readerVars, Quiet, Fixed
  <2>2. \A y \in Gc!Goroutines : load'[y] = IF y = l THEN None ELSE load[y]
    BY <1>0, <1>1, <2>1 DEF GroupTypes
  <2>3. GroupTypes' BY <1>0, <2>1 DEF GroupTypes, Quiet
  <2>4. LoadAgrees(None, LoadPending, db) BY DEF LoadAgrees
  <2> QED BY <1>0, <1>2, <1>3, <2>1, <2>2, <2>3, <2>4, QuietInv DEF GroupPlaces
<1> QED BY <1>4, <1>5, <1>6, <1>7

\* A group that was not used is dropped.
LEMMA GroupRecycleInv ==
  ASSUME GroupInv, Gc!Recycle
  PROVE  GroupInv'
<1>1. /\ Quiet /\ cache' = None /\ suspect' = {} /\ load' = load /\ target' # "cached"
  BY DEF Gc!Recycle, Gc!Detach, Gc!dbVars, Gc!readerVars, Quiet, Fixed
<1>2. GroupTypes' BY <1>1 DEF GroupInv, GroupTypes, Quiet
<1> QED BY <1>1, <1>2, QuietInv DEF GroupInv, GroupPlaces, LoadsAgree

\* load() reads the number of the last change and the end of the stream, again and
\* again until both succeed; nothing is cached meanwhile.
LEMMA GroupStartInv ==
  ASSUME GroupInv, Gc!GetActionID \/ Gc!GetLastEntryID
  PROVE  GroupInv'
<1>0. StreamOK(Gc!Changes) /\ ReaderOK /\ GroupTypes /\ GroupHistory /\ GroupPlaces
  BY DEF GroupInv
<1>1. /\ pc \in {"action", "entry"} /\ Fixed /\ UNCHANGED <<db, upto, target, cache, load, suspect>>
      /\ \/ pc' = "entry" /\ action_id' = actions /\ UNCHANGED last_entry_id
         \/ pc' = "read" /\ last_entry_id' = Len(stream) /\ UNCHANGED action_id
         \/ pc' = "action" /\ UNCHANGED <<action_id, last_entry_id>>
  BY DEF Gc!GetActionID, Gc!GetLastEntryID, Gc!dbVars, Gc!cacheVars, Fixed
<1>2. cache = None /\ \A l \in Gc!Goroutines : load[l] = None BY <1>0, <1>1 DEF GroupPlaces
<1>3. target # "cached" BY <1>0, <1>1 DEF ReaderOK
<1>4. StreamOK(Gc!Changes)' BY <1>0, <1>1, FixedStream
<1>5. actions \in Nat /\ Len(stream) \in Nat BY <1>0 DEF StreamOK
<1>6. ReaderOK' BY <1>0, <1>1, <1>3, <1>5 DEF ReaderOK, Fixed
<1>7. GroupTypes' BY <1>0, <1>1 DEF GroupTypes
<1>8. GroupHistory' BY <1>0, <1>1, FixedHistory
<1>9. GroupPlaces' BY <1>1, <1>2, <1>3 DEF GroupPlaces
<1>10. CacheAgrees' /\ LoadsAgree' BY <1>1, <1>2 DEF CacheAgrees, LoadsAgree, LoadAgrees
<1> QED BY <1>4, <1>6, <1>7, <1>8, <1>9, <1>10 DEF GroupInv

\* A batch of events is read, and is over.
LEMMA GroupBatchInv ==
  ASSUME GroupInv, Gc!ReadEvents \/ Gc!EndOfBatch
  PROVE  GroupInv'
<1>0. StreamOK(Gc!Changes) /\ ReaderOK /\ GroupTypes /\ GroupHistory /\ GroupPlaces
  BY DEF GroupInv
<1>1. /\ Fixed /\ UNCHANGED <<db, dirty, action_id, last_entry_id, target, cache, load, suspect>>
      /\ \/ pc = "read" /\ pc' = "events" /\ upto' = Len(stream)
         \/ pc = "events" /\ pc' = "read" /\ UNCHANGED upto
  BY DEF Gc!ReadEvents, Gc!EndOfBatch, Gc!BatchDone, Gc!dbVars, Gc!readerVars, Gc!cacheVars, Fixed
<1>2. StreamOK(Gc!Changes)' BY <1>0, <1>1, FixedStream
<1>3. (Current' <=> Current) /\ LoadPending' = LoadPending /\ (Ahead' <=> Ahead)
  BY <1>0, <1>1, FixedReader DEF Fixed, Ahead, Adding
<1>4. target # "cached" /\ Len(stream) \in Nat BY <1>0, <1>1 DEF ReaderOK, StreamOK
<1>5. ReaderOK' BY <1>0, <1>1, <1>3, <1>4 DEF ReaderOK, Fixed
<1>6. GroupTypes' BY <1>0, <1>1 DEF GroupTypes
<1>7. GroupHistory' BY <1>0, <1>1, FixedHistory
<1>8. GroupPlaces' BY <1>1, <1>4 DEF GroupPlaces
<1>9. CachePending' = CachePending BY <1>1, <1>3, <1>4 DEF CachePending
<1>10. ~dirty' /\ Current' => CacheAgrees' /\ LoadsAgree'
  BY <1>1, <1>3, <1>9 DEF GroupInv, CacheAgrees, LoadsAgree
<1> QED BY <1>2, <1>5, <1>6, <1>7, <1>8, <1>10 DEF GroupInv

\* What an event or a clearing does to the loads in progress.
LEMMA GroupOvertaken ==
  ASSUME GroupTypes
  PROVE  /\ Gc!Overtaken \in [Gc!Goroutines -> Loading \cup {None}]
         /\ \A l \in Gc!Goroutines : \A P, D : LoadAgrees(Gc!Overtaken[l], P, D)
<1>1. ASSUME NEW l \in Gc!Goroutines, load[l] # None
      PROVE  LET x == [load[l] EXCEPT !.suspect = @ \cup {"overtaken"}]
             IN x \in Loading /\ "overtaken" \in x.suspect
  <2>1. load[l] \in Loading BY <1>1 DEF GroupTypes
  <2>2. load[l] = [super |-> load[l].super, members |-> load[l].members, suspect |-> load[l].suspect]
    BY <2>1 DEF Loading
  <2>3. [load[l] EXCEPT !.suspect = @ \cup {"overtaken"}] =
          [super |-> load[l].super, members |-> load[l].members, suspect |-> load[l].suspect \cup {"overtaken"}]
    BY <2>2
  <2>4. load[l].suspect \cup {"overtaken"} \in SUBSET {"overtaken", "failed"} BY <2>1 DEF Loading
  <2> QED BY <2>1, <2>3, <2>4 DEF Loading
<1>2. Gc!Overtaken \in [Gc!Goroutines -> Loading \cup {None}] BY <1>1 DEF Gc!Overtaken
<1>3. ASSUME NEW l \in Gc!Goroutines, NEW P, NEW D PROVE LoadAgrees(Gc!Overtaken[l], P, D)
  BY <1>1 DEF Gc!Overtaken, LoadAgrees
<1> QED BY <1>2, <1>3

\* The lazy clear: nothing is cached, and the loads in progress are overtaken.
LEMMA GroupClearInv ==
  ASSUME GroupInv, Gc!Clear
  PROVE  GroupInv'
<1>0. StreamOK(Gc!Changes) /\ ReaderOK /\ GroupTypes /\ GroupHistory /\ GroupPlaces
  BY DEF GroupInv
<1>1. /\ Fixed /\ UNCHANGED <<db, action_id, last_entry_id, upto, target>>
      /\ pc = "events" /\ pc' = "read" /\ dirty' = FALSE /\ cache' = None /\ suspect' = {}
      /\ load' = Gc!Overtaken
  BY DEF Gc!Clear, Gc!BatchDone, Gc!dbVars, Gc!readerVars, Fixed
<1>2. StreamOK(Gc!Changes)' BY <1>0, <1>1, FixedStream
<1>3. target # "cached" /\ (Ahead' <=> Ahead) BY <1>0, <1>1 DEF ReaderOK, Fixed, Ahead, Adding
<1>4. ReaderOK' BY <1>0, <1>1, <1>3 DEF ReaderOK, Fixed
<1>5. GroupTypes' BY <1>0, <1>1, GroupOvertaken DEF GroupTypes
<1>6. GroupHistory' BY <1>0, <1>1, FixedHistory
<1>7. GroupPlaces' BY <1>1, <1>3 DEF GroupPlaces
<1>8. CacheAgrees' BY <1>1 DEF CacheAgrees
<1>9. \A l \in Gc!Goroutines : LoadAgrees(load'[l], LoadPending', db') BY <1>0, <1>1, GroupOvertaken
<1> QED BY <1>2, <1>4, <1>5, <1>6, <1>7, <1>8, <1>9 DEF GroupInv, LoadsAgree

\* handleEvent looks the event up: from then on it is not pending for a load, which
\* it overtakes if it is about the group.
LEMMA GroupLookUpInv ==
  ASSUME GroupInv, Gc!HandleEvent(Gc!Concerns)
  PROVE  GroupInv'
<1>0. StreamOK(Gc!Changes) /\ ReaderOK /\ GroupTypes /\ GroupHistory /\ GroupPlaces
  BY DEF GroupInv
<1>1. /\ Fixed /\ UNCHANGED <<db, action_id, last_entry_id, upto, cache, suspect>>
      /\ pc = "events" /\ last_entry_id < upto /\ pc' = "apply"
      /\ dirty' = (dirty \/ action_id # stream[last_entry_id + 1].prev)
      /\ target' = IF Gc!Concerns /\ cache # None THEN "cached" ELSE "none"
      /\ load' = IF Gc!Concerns THEN Gc!Overtaken ELSE load
  BY DEF Gc!HandleEvent, Gc!Event, Gc!dbVars, Gc!readerVars, Fixed
<1>2. /\ ReaderOK' /\ (Current' <=> Current)
      /\ LoadPending = {ChangeAt(last_entry_id + 1)} \cup LoadPending'
      /\ CachePending = LoadPending
      /\ target' = "cached" => CachePending' = CachePending
      /\ target' # "cached" => CachePending' = LoadPending'
  BY <1>0, <1>1, LookUpReader
<1>3. StreamOK(Gc!Changes)' /\ \A i : ChangeAt(i)' = ChangeAt(i) BY <1>0, <1>1, FixedStream
<1>4. ~Ahead /\ last_entry_id + 1 \in 1..Len(stream) BY <1>0, <1>1, NotAhead
<1>5. ChangeAt(last_entry_id + 1) = stream[last_entry_id + 1].change BY <1>4 DEF ChangeAt, StreamOK
<1>6. Gc!Concerns <=> ChangeAt(last_entry_id + 1).name # "other" BY <1>5 DEF Gc!Concerns, Gc!Event
<1>7. GroupTypes' BY <1>0, <1>1, GroupOvertaken DEF GroupTypes
<1>8. GroupHistory' BY <1>0, <1>1, FixedHistory
<1>9. GroupPlaces'
  <2>1. ChangeAt(last_entry_id + 1)' = ChangeAt(last_entry_id + 1) BY <1>1 DEF Fixed, ChangeAt
  <2> QED BY <1>0, <1>1, <1>6, <2>1 DEF GroupPlaces
<1>10. ASSUME ~dirty', Current' PROVE CacheAgrees' /\ LoadsAgree'
  <2>1. CacheAgrees /\ LoadsAgree BY <1>1, <1>2, <1>10 DEF GroupInv
  <2>2. CASE Gc!Concerns
    <3>1. CacheAgrees' BY <1>1, <1>2, <2>1, <2>2 DEF CacheAgrees
    <3>2. \A l \in Gc!Goroutines : LoadAgrees(load'[l], LoadPending', db')
      BY <1>0, <1>1, <2>2, GroupOvertaken
    <3> QED BY <3>1, <3>2 DEF LoadsAgree
  <2>3. CASE ~Gc!Concerns
    <3> DEFINE c == ChangeAt(last_entry_id + 1)
               P == LoadPending'
    <3>1. c.name = "other" /\ target' # "cached" BY <1>1, <1>6, <2>3
    <3>2. CachePending = {c} \cup P /\ LoadPending = {c} \cup P /\ CachePending' = P
      BY <1>2, <3>1
    <3> HIDE DEF c, P
    <3>3. /\ Stays({c} \cup P, db) => Stays(P, db)
          /\ \A s : SuperAgrees(s, {c} \cup P, db) => SuperAgrees(s, P, db)
          /\ \A m, s : MembersAgree(m, {c} \cup P, db, "failed" \in s) => MembersAgree(m, P, db, "failed" \in s)
      BY <3>1, OtherPasses
    <3>4. ASSUME cache # None, "overtaken" \notin suspect
          PROVE  Agrees(cache, P, db, "failed" \in suspect)
      BY <2>1, <3>2, <3>3, <3>4 DEF CacheAgrees, Agrees
    <3>5. ASSUME NEW l \in Gc!Goroutines PROVE LoadAgrees(load[l], P, db)
      <4>1. LoadAgrees(load[l], {c} \cup P, db) BY <2>1, <3>2 DEF LoadsAgree
      <4> QED BY <4>1, <3>3 DEF LoadAgrees
    <3>6. CacheAgrees' BY <1>1, <3>2, <3>4 DEF CacheAgrees
    <3>7. LoadsAgree' BY <1>1, <2>3, <3>5 DEF LoadsAgree, P
    <3> QED BY <3>6, <3>7
  <2> QED BY <2>2, <2>3
<1> QED BY <1>2, <1>3, <1>7, <1>8, <1>9, <1>10 DEF GroupInv

\* handleEvent does what the event says: then the change is no longer pending.
LEMMA GroupApplyInv ==
  ASSUME GroupInv, pc = "apply", Gc!HandleCreate \/ Gc!HandleDisband \/ Gc!HandleChange
  PROVE  GroupInv'
<1>0. StreamOK(Gc!Changes) /\ ReaderOK /\ GroupTypes /\ GroupHistory /\ GroupPlaces
  BY DEF GroupInv
<1> DEFINE c == ChangeAt(last_entry_id + 1)
           P == After(last_entry_id + 1)
<1>1. /\ Fixed /\ UNCHANGED <<db, dirty, upto, load>> /\ pc' = "events"
      /\ action_id' = stream[last_entry_id + 1].id /\ last_entry_id' = last_entry_id + 1
      /\ target' = "none"
  BY DEF Gc!HandleCreate, Gc!HandleDisband, Gc!HandleChange, Gc!Apply, Gc!Event, Gc!dbVars, Fixed
<1>2. /\ ReaderOK' /\ (~dirty /\ Current' => Current /\ Complete)
      /\ last_entry_id + 1 \in 1..Len(stream) /\ last_entry_id + 1 \in 1..End
      /\ LoadPending' = P /\ LoadPending = P /\ CachePending' = P
      /\ target = "cached" => CachePending = {c} \cup P
      /\ target # "cached" => CachePending = P
  BY <1>0, <1>1, ApplyReader
<1>3. c = stream[last_entry_id + 1].change BY <1>2 DEF ChangeAt, StreamOK
<1>4. c \in Gc!Changes BY <1>0, <1>2, ChangesTyped
<1>5. \/ c.name = "create" /\ cache' = Gc!Group(c.super, Gc!NoMembers) /\ suspect' = {}
      \/ cache' = None /\ suspect' = {}
      \/ /\ c.name \notin {"create", "disband"} /\ suspect' = suspect
         /\ cache' = IF target = "cached" THEN Gc!Handled(cache, c) ELSE cache
  BY <1>3 DEF Gc!HandleCreate, Gc!HandleDisband, Gc!HandleChange, Gc!Apply, Gc!Event
<1>6. target = "cached" => cache \in Gc!Groups /\ c.name # "other"
  BY <1>0 DEF GroupPlaces, GroupTypes
<1>7. target = "cached" /\ c.name \notin {"create", "disband"} => c.name \in {"upgrade", "add", "remove", "mute"}
  BY <1>4, <1>6, ChangeFields
<1>8. Complete => Follows(c, P, db)
  <2>1. last_entry_id \in 0..Len(stream) BY <1>0 DEF ReaderOK
  <2>2. last_entry_id + 1 \in last_entry_id + 1..End BY <1>2, <2>1 DEF StreamOK
  <2> QED BY <1>0, <2>1, <2>2 DEF GroupHistory, Complete
<1> HIDE DEF c, P
<1>9. StreamOK(Gc!Changes)' BY <1>0, <1>1, FixedStream
<1>10. GroupTypes'
  <2>1. Gc!Group(c.super, Gc!NoMembers) \in Gc!Groups \/ c.name # "create"
    BY <1>4, ChangeFields DEF Gc!Group, Gc!Groups, Gc!NoMembers
  <2>2. cache' \in Gc!Groups \cup {None}
    BY <1>0, <1>4, <1>5, <1>6, <1>7, <2>1, HandledFacts DEF GroupTypes
  <2> QED BY <1>0, <1>1, <1>5, <2>2 DEF GroupTypes
<1>11. GroupHistory' BY <1>0, <1>1, FixedHistory
<1>12. GroupPlaces' BY <1>1 DEF GroupPlaces
<1>13. ASSUME ~dirty', Current' PROVE CacheAgrees' /\ LoadsAgree'
  <2>1. CacheAgrees /\ LoadsAgree /\ Follows(c, P, db) BY <1>1, <1>2, <1>8, <1>13 DEF GroupInv
  <2>2. LoadsAgree' BY <1>1, <1>2, <2>1 DEF LoadsAgree
  <2>3. db \in Rows BY <1>0 DEF GroupTypes
  <2>4. ASSUME cache' # None, "overtaken" \notin suspect' PROVE Agrees(cache', P, db, "failed" \in suspect')
    <3>1. CASE c.name = "create" /\ cache' = Gc!Group(c.super, Gc!NoMembers) /\ suspect' = {}
      <4>1. Agrees(cache', P, db, FALSE) BY <3>1, <1>4, <2>1, <2>3, CreateAgrees
      <4> QED BY <3>1, <4>1, FailedOrNot DEF Agrees
    <3>2. CASE /\ c.name \notin {"create", "disband"} /\ suspect' = suspect
               /\ cache' = IF target = "cached" THEN Gc!Handled(cache, c) ELSE cache
      <4>1. CASE target # "cached"
        BY <3>2, <4>1, <2>1, <2>4, <1>2 DEF CacheAgrees
      <4>2. CASE target = "cached"
        <5>1. cache # None BY <1>0, <4>2 DEF GroupPlaces
        <5>2. Agrees(cache, {c} \cup P, db, "failed" \in suspect)
          BY <3>2, <4>2, <5>1, <2>1, <2>4, <1>2 DEF CacheAgrees
        <5>3. CASE "failed" \in suspect
          <6>1. Agrees(cache, {c} \cup P, db, TRUE) BY <5>2, <5>3, FailedOrNot DEF Agrees
          <6>2. Agrees(Gc!Handled(cache, c), P, db, TRUE)
            BY <6>1, <1>4, <1>6, <1>7, <2>1, <2>3, <3>2, <4>2, AgreeApplied
          <6> QED BY <3>2, <4>2, <5>3, <6>2, FailedOrNot DEF Agrees
        <5>4. CASE "failed" \notin suspect
          <6>1. Agrees(cache, {c} \cup P, db, FALSE) BY <5>2, <5>4, FailedOrNot DEF Agrees
          <6>2. Agrees(Gc!Handled(cache, c), P, db, FALSE)
            BY <6>1, <1>4, <1>6, <1>7, <2>1, <2>3, <3>2, <4>2, AgreeApplied
          <6> QED BY <3>2, <4>2, <5>4, <6>2, FailedOrNot DEF Agrees
        <5> QED BY <5>3, <5>4
      <4> QED BY <4>1, <4>2
    <3> QED BY <1>5, <2>4, <3>1, <3>2
  <2>5. CacheAgrees' BY <1>1, <1>2, <2>4 DEF CacheAgrees
  <2> QED BY <2>2, <2>5
<1> QED BY <1>2, <1>9, <1>10, <1>11, <1>12, <1>13 DEF GroupInv

\* The steps of GroupNext.
LEMMA GroupNextInv ==
  ASSUME GroupInv, Gc!GroupNext
  PROVE  GroupInv'
<1>1. CASE Gc!Write BY <1>1, GroupWriteInv
<1>2. CASE Gc!Publish BY <1>2, GroupPublishInv
<1>3. CASE Gc!ManagerStep
  <2>1. CASE Gc!GetActionID \/ Gc!GetLastEntryID BY <2>1, GroupStartInv
  <2>2. CASE Gc!ReadEvents \/ Gc!EndOfBatch BY <2>2, GroupBatchInv
  <2>3. CASE Gc!HandleEvent(Gc!Concerns) BY <2>3, GroupLookUpInv
  <2>4. CASE pc = "apply" /\ (Gc!HandleCreate \/ Gc!HandleDisband \/ Gc!HandleChange)
    BY <2>4, GroupApplyInv
  <2>5. CASE Gc!Clear BY <2>5, GroupClearInv
  <2> QED BY <1>3, <2>1, <2>2, <2>3, <2>4, <2>5 DEF Gc!ManagerStep
<1>4. CASE Gc!Recycle BY <1>4, GroupRecycleInv
<1>5. ASSUME NEW l \in Deliverers,
             Gc!LoadRow(l) \/ Gc!LoadGroupMember(l) \/ Gc!PutGroup(l) \/ Gc!GiveUp(l)
      PROVE  GroupInv'
  BY <1>5, GroupLoadInv
<1> QED BY <1>1, <1>2, <1>3, <1>4, <1>5 DEF Gc!GroupNext

\* While the group cache runs its invariant holds.
LEMMA GroupInvariant == Spec => [](which = "group" => GroupInv)
<1>1. Init => (which = "group" => GroupInv)
  BY GroupInitInv DEF Init
<1>2. (which = "group" => GroupInv) /\ [Next]_<<which, cacheVars, keyVars, peerVars, groupVars>> =>
        (which = "group" => GroupInv)'
  <2> SUFFICES ASSUME which = "group" => GroupInv, [Next]_<<which, cacheVars, keyVars, peerVars, groupVars>>,
                      which' = "group"
               PROVE  GroupInv'
    OBVIOUS
  <2>1. GroupInv BY DEF Next
  <2>2. CASE Gc!GroupNext BY <2>1, <2>2, GroupNextInv
  <2>3. CASE UNCHANGED cacheVars
    <3>1. Quiet /\ UNCHANGED <<target, cache, load, suspect>> BY <2>3 DEF cacheVars, Quiet, Fixed
    <3>2. GroupTypes' BY <2>1, <3>1 DEF GroupInv, GroupTypes, Quiet
    <3>3. GroupPlaces /\ (~dirty /\ Current => CacheAgrees /\ LoadsAgree) BY <2>1 DEF GroupInv
    <3>4. CachePending = IF target = "cached" THEN CachePending ELSE LoadPending BY DEF CachePending
    <3> QED BY <2>1, <3>1, <3>2, <3>3, <3>4, QuietInv DEF GroupPlaces, CacheAgrees, LoadsAgree
  <2> QED BY <2>2, <2>3 DEF Next
<1> QED BY <1>1, <1>2, PTL DEF Spec

\* Once every event is read nothing is pending.
LEMMA NothingPending ==
  ASSUME NEW C, StreamOK(C), ReaderOK, Gc!CaughtUp \/ Rc!CaughtUp
  PROVE  ~dirty /\ Current /\ CachePending = {}
<1>1. /\ writing = None /\ pc \in {"read", "events"} /\ last_entry_id = Len(stream)
      /\ action_id = actions /\ ~dirty
  BY DEF Gc!CaughtUp, Rc!CaughtUp
<1>2. ~Adding /\ Recorded = actions /\ ~Ahead /\ End = Len(stream)
  BY <1>1 DEF Adding, Recorded, Ahead, End
<1>3. actions \in Nat /\ Len(stream) \in Nat BY DEF StreamOK
<1>4. Complete BY <1>1, <1>2, <1>3 DEF Complete, NoGap
<1>5. target # "cached" BY <1>1 DEF ReaderOK
<1>6. After(last_entry_id) = {} BY <1>1, <1>2, <1>3, AfterEnd
<1> QED BY <1>1, <1>2, <1>4, <1>5, <1>6 DEF Current, CachePending, LoadPending

\* Once GroupManager has handled every event, a cached group is what the database
\* holds, unless an event overtook the load it comes from or a query failed.
THEOREM AccessGroupExact == Spec => []GroupExact
<1>1. ASSUME GroupInv, Gc!CaughtUp, cache # None, suspect = {} PROVE cache = Gc!Actual
  <2>1. ~dirty /\ Current /\ CachePending = {} BY <1>1, NothingPending DEF GroupInv
  <2>2. "failed" \notin suspect BY <1>1
  <2>3. Agrees(cache, {}, db, "failed" \in suspect) BY <1>1, <2>1 DEF GroupInv, CacheAgrees
  <2>4. Agrees(cache, {}, db, FALSE) BY <2>2, <2>3, FailedOrNot DEF Agrees
  <2>5. db.state = "there" /\ cache.super = db.group.super
        /\ \A u \in Uids : cache.members[u] = db.group.members[u]
    BY <2>4 DEF Agrees, Stays, SuperAgrees, MembersAgree
  <2>6. cache \in Gc!Groups /\ db.group \in Gc!Groups BY <1>1 DEF GroupInv, GroupTypes, Rows
  <2>7. cache.members = db.group.members BY <2>5, <2>6 DEF Gc!Groups
  <2>8. cache = [super |-> cache.super, members |-> cache.members]
        /\ db.group = [super |-> db.group.super, members |-> db.group.members]
    BY <2>6 DEF Gc!Groups
  <2> QED BY <2>5, <2>7, <2>8 DEF Gc!Actual, Gc!Exists
<1>2. (which = "group" => GroupInv) => GroupExact BY <1>1 DEF GroupExact, Gc!GroupExact
<1> QED BY <1>2, GroupInvariant, PTL

\* A failed query of LoadGroupMember only hides members: nobody is taken for a member
\* who is not.
THEOREM AccessNoStrangers == Spec => []NoStrangers
<1>1. ASSUME GroupInv, Gc!CaughtUp, cache # None, suspect \subseteq {"failed"}
      PROVE  /\ Gc!Actual # None /\ cache.super = Gc!Actual.super
             /\ \A u \in Uids : cache.members[u] \in {"out", Gc!Actual.members[u]}
  <2>1. ~dirty /\ Current /\ CachePending = {} BY <1>1, NothingPending DEF GroupInv
  <2>2. Agrees(cache, {}, db, "failed" \in suspect) BY <1>1, <2>1 DEF GroupInv, CacheAgrees
  <2>3. db.state = "there" /\ cache.super = db.group.super
        /\ \A u \in Uids : cache.members[u] = db.group.members[u] \/ cache.members[u] = "out"
    BY <2>2 DEF Agrees, Stays, SuperAgrees, MembersAgree
  <2>4. db.group \in Gc!Groups BY <1>1 DEF GroupInv, GroupTypes, Rows
  <2>5. db.group # None BY <2>4, ConstantsAreBounds DEF Gc!GroupAssumption
  <2> QED BY <2>3, <2>5 DEF Gc!Actual, Gc!Exists
<1>2. (which = "group" => GroupInv) => NoStrangers BY <1>1 DEF NoStrangers, Gc!NoStrangers
<1> QED BY <1>2, GroupInvariant, PTL

-----------------------------------------------------------------------------
(***************************************************************************)
(* Relationships: each event sets one bit of the pair.                     *)
(***************************************************************************)

\* Change c sets bit b.
Sets(c, b) == c.name # "other" /\ Rc!BitOf(c) = b

\* The change c makes E of D.
Turns(c, D, E) ==
  /\ E \in SUBSET Rc!Bits
  /\ \A b \in Rc!Bits : (Sets(c, b) => (b \in E <=> c.on)) /\ (~Sets(c, b) => (b \in E <=> b \in D))

\* D is what c, and then the changes of P, made of it.
Leaves(c, P, D) == \A b \in Rc!Bits : Sets(c, b) /\ (\A d \in P : ~Sets(d, b)) => (b \in D <=> c.on)

\* The bits of S, as far as they were read, are what the database says unless that
\* will change; a failed query leaves bits out.
BitsAgree(S, rs, P, D, why) ==
  /\ rs \subseteq S
  /\ \A b \in S : (\A d \in P : ~Sets(d, b)) => (b \in rs <=> b \in D) \/ ("failed" \in why /\ b \notin rs)

\* The fields of a change, and what it sets.
LEMMA RelFields ==
  ASSUME NEW c \in Rc!Changes
  PROVE  c.name # "other" => c.on \in BOOLEAN /\ Rc!BitOf(c) \in Rc!Bits
<1>1. CASE c \in [name : {"friend", "blacklist"}, uid : {"low", "high"}, on : BOOLEAN]
  <2>1. c.on \in BOOLEAN /\ c.uid \in {"low", "high"} /\ c.name \in {"friend", "blacklist"} BY <1>1
  <2> QED BY <2>1 DEF Rc!BitOf, Rc!SetMyFriend, Rc!SetInMyBlacklist, Rc!Bits
<1>2. CASE c \in [name : {"other"}] BY <1>2
<1> QED BY <1>1, <1>2 DEF Rc!Changes

\* A change of the database: of the history, and of what is cached or loaded.
LEMMA RelGrows ==
  ASSUME NEW d, NEW D, NEW E, Turns(d, D, E), NEW P
  PROVE  /\ Leaves(d, {}, E)
         /\ \A c : Leaves(c, P, D) => Leaves(c, P \cup {d}, E)
         /\ \A S \in SUBSET Rc!Bits : \A rs, why :
              BitsAgree(S, rs, P, D, why) => BitsAgree(S, rs, P \cup {d}, E, why)
<1>1. Leaves(d, {}, E) BY DEF Leaves, Turns
<1>2. \A c : Leaves(c, P, D) => Leaves(c, P \cup {d}, E) BY DEF Leaves, Turns
<1>3. ASSUME NEW S \in SUBSET Rc!Bits, NEW rs, NEW why, BitsAgree(S, rs, P, D, why)
      PROVE  BitsAgree(S, rs, P \cup {d}, E, why)
  BY <1>3 DEF BitsAgree, Turns
<1> QED BY <1>1, <1>2, <1>3

\* An event that is applied is no longer pending.
LEMMA RelApplied ==
  ASSUME NEW c, Rc!BitOf(c) \in Rc!Bits, c.name # "other", NEW P, NEW D, NEW rs, NEW why,
         Leaves(c, P, D), BitsAgree(Rc!Bits, rs, {c} \cup P, D, why)
  PROVE  BitsAgree(Rc!Bits, Rc!SetBit(rs, Rc!BitOf(c), c.on), P, D, why)
<1> DEFINE b0 == Rc!BitOf(c)
           new == Rc!SetBit(rs, b0, c.on)
<1>1. \A b : Sets(c, b) <=> b = b0 BY DEF Sets
<1>2. \A b : b \in new <=> IF b = b0 THEN c.on ELSE b \in rs
  BY DEF Rc!SetBit
<1>3. new \subseteq Rc!Bits BY <1>2 DEF BitsAgree
<1> HIDE DEF new, b0
<1>4. ASSUME NEW b \in Rc!Bits, \A d \in P : ~Sets(d, b)
      PROVE  (b \in new <=> b \in D) \/ ("failed" \in why /\ b \notin new)
  <2>1. CASE b = b0 BY <1>1, <1>2, <1>4, <2>1 DEF Leaves
  <2>2. CASE b # b0 BY <1>1, <1>2, <1>4, <2>2 DEF BitsAgree
  <2> QED BY <2>1, <2>2
<1> QED BY <1>3, <1>4 DEF BitsAgree, new, b0

\* An event of another pair leaves what agrees as it is.
LEMMA RelPasses ==
  ASSUME NEW c, c.name = "other", NEW P, NEW D, NEW S, NEW rs, NEW why,
         BitsAgree(S, rs, {c} \cup P, D, why)
  PROVE  BitsAgree(S, rs, P, D, why)
BY DEF BitsAgree, Sets

-----------------------------------------------------------------------------
\* The invariant of the relationship cache.  Done(x) is what load x has read.

Done(x) == {Rc!Queries[i] : i \in 1..x.next - 1}

RelLoading ==
  [next : 1..5, rs : SUBSET Rc!Bits, suspect : SUBSET {"overtaken", "failed"}]

RelTypes ==
  /\ db \in SUBSET Rc!Bits /\ cache \in (SUBSET Rc!Bits) \cup {None}
  /\ suspect \in SUBSET {"overtaken", "failed"}
  /\ load \in [Rc!Goroutines -> RelLoading \cup {None}]

RelHistory ==
  \A n \in 0..Len(stream) : NoGap(n) => \A i \in n + 1..End : Leaves(ChangeAt(i), After(i), db)

RelPlaces ==
  /\ target = "cached" => cache # None /\ ChangeAt(last_entry_id + 1).name # "other"
  /\ pc \in {"action", "entry"} => cache = None /\ \A l \in Rc!Goroutines : load[l] = None

ItemAgrees ==
  cache # None /\ "overtaken" \notin suspect => BitsAgree(Rc!Bits, cache, CachePending, db, suspect)

ReadAgrees(x, P, D) ==
  x # None /\ "overtaken" \notin x.suspect => BitsAgree(Done(x), x.rs, P, D, x.suspect)

ReadsAgree == \A l \in Rc!Goroutines : ReadAgrees(load[l], LoadPending, db)

RelInv ==
  /\ StreamOK(Rc!Changes) /\ ReaderOK /\ RelTypes /\ RelHistory /\ RelPlaces
  /\ ~dirty /\ Current => ItemAgrees
  /\ (~dirty \/ pc = "reload") /\ Current => ReadsAgree

\* The queries read the bits, all of them in the end.
LEMMA QueriesAreBits ==
  /\ \A i \in 1..4 : Rc!Queries[i] \in Rc!Bits
  /\ \A b \in Rc!Bits : \E i \in 1..4 : Rc!Queries[i] = b
  /\ Len(Rc!Queries) = 4
<1>1. /\ Rc!Queries[1] = "my_friend" /\ Rc!Queries[2] = "your_friend"
      /\ Rc!Queries[3] = "in_my_blacklist" /\ Rc!Queries[4] = "in_your_blacklist"
      /\ Len(Rc!Queries) = 4
  BY DEF Rc!Queries
<1>2. \A i \in 1..4 : i = 1 \/ i = 2 \/ i = 3 \/ i = 4 OBVIOUS
<1>3. 1 \in 1..4 /\ 2 \in 1..4 /\ 3 \in 1..4 /\ 4 \in 1..4 OBVIOUS
<1> QED BY <1>1, <1>2, <1>3 DEF Rc!Bits

\* A load has read some of the bits, and after the last query all of them.
LEMMA DoneFacts ==
  ASSUME NEW x \in RelLoading
  PROVE  /\ Done(x) \in SUBSET Rc!Bits
         /\ x.next > Len(Rc!Queries) => Done(x) = Rc!Bits
<1>1. x.next \in 1..5 BY DEF RelLoading
<1>2. \A i \in 1..x.next - 1 : i \in 1..4 BY <1>1
<1>3. Done(x) \in SUBSET Rc!Bits BY <1>2, QueriesAreBits DEF Done
<1>4. ASSUME x.next > Len(Rc!Queries) PROVE Rc!Bits \subseteq Done(x)
  <2>1. x.next = 5 BY <1>1, <1>4, QueriesAreBits
  <2>2. 1..x.next - 1 = 1..4 BY <2>1
  <2> QED BY <2>2, QueriesAreBits DEF Done
<1> QED BY <1>3, <1>4

\* No publishing service is at None.
LEMMA RelNone == None \notin Publishing(Rc!Changes)
BY ConstantsAreBounds DEF Rc!RelationshipAssumption, Publishing

\* The steps of Write change the database, which is to be recorded.
LEMMA RelWrites ==
  ASSUME RelTypes, Rc!Write
  PROVE  \E c \in Rc!Changes : Commits(c) /\ Turns(c, db, db')
<1>1. ASSUME NEW c \in Rc!Changes, NEW E, Rc!Commit(c, E), Turns(c, db, E)
      PROVE  Commits(c) /\ Turns(c, db, db')
  <2>1. db' = E BY <1>1 DEF Rc!Commit
  <2> QED BY <1>1, <2>1 DEF Commits, Reading, Rc!Commit, Rc!readerVars, Rc!cacheVars
<1>2. CASE Rc!Commit([name |-> "other"], db)
  <2>1. [name |-> "other"] \in Rc!Changes BY DEF Rc!Changes
  <2>2. Turns([name |-> "other"], db, db) BY DEF Turns, Sets, RelTypes
  <2> QED BY <1>1, <1>2, <2>1, <2>2
<1>3. ASSUME NEW u \in {"low", "high"}, NEW name \in {"friend", "blacklist"},
             LET bit == Rc!RowBit(name, u)
                 on  == bit \notin db
             IN Rc!Commit([name |-> name, uid |-> u, on |-> on], Rc!SetBit(db, bit, on))
      PROVE  \E c \in Rc!Changes : Commits(c) /\ Turns(c, db, db')
  <2> DEFINE bit == Rc!RowBit(name, u)
             on == bit \notin db
             c == [name |-> name, uid |-> u, on |-> on]
             E == Rc!SetBit(db, bit, on)
  <2>1. on \in BOOLEAN OBVIOUS
  <2>2. c \in Rc!Changes BY <2>1 DEF Rc!Changes
  <2>3. Rc!BitOf(c) = bit /\ bit \in Rc!Bits
    BY DEF Rc!BitOf, Rc!RowBit, Rc!OtherSide, Rc!SetMyFriend, Rc!SetInMyBlacklist, Rc!Bits
  <2>4. \A b : Sets(c, b) <=> b = bit BY <2>3 DEF Sets
  <2>5. c.on <=> bit \notin db OBVIOUS
  <2> HIDE DEF bit, c
  <2>6. \A b : b \in E <=> IF b = bit THEN bit \notin db ELSE b \in db BY DEF Rc!SetBit
  <2>7. E \in SUBSET Rc!Bits BY <2>3, <2>6 DEF RelTypes
  <2>8. Turns(c, db, E) BY <2>4, <2>5, <2>6, <2>7 DEF Turns
  <2>9. Rc!Commit(c, E) BY <1>3 DEF c, bit
  <2> QED BY <1>1, <2>2, <2>8, <2>9
<1> QED BY <1>2, <1>3 DEF Rc!Write

\* Nothing is cached at first.
LEMMA RelInitInv ==
  ASSUME Rc!RelationshipInit
  PROVE  RelInv
<1> USE DEF Rc!RelationshipInit, Rc!StreamInit
<1>1. ~Adding /\ ~Ahead /\ Recorded = 0 /\ End = 0 /\ Len(stream) = 0
  BY DEF Adding, Ahead, Recorded, End
<1>2. StreamOK(Rc!Changes)
  <2>1. stream \in Seq(Published(Rc!Changes)) OBVIOUS
  <2> QED BY <1>1, <2>1 DEF StreamOK
<1>3. ReaderOK BY <1>1 DEF ReaderOK
<1>4. RelTypes
  <2>1. db \in SUBSET Rc!Bits BY DEF Rc!Bits
  <2>2. load \in [Rc!Goroutines -> RelLoading \cup {None}] OBVIOUS
  <2>3. cache = None /\ suspect \in SUBSET {"overtaken", "failed"} OBVIOUS
  <2>4. cache \in (SUBSET Rc!Bits) \cup {None} BY <2>3, Zenon
  <2> HIDE DEF Rc!RelationshipInit, Rc!StreamInit
  <2> QED BY <2>1, <2>2, <2>3, <2>4 DEF RelTypes
<1>5. \A n \in 0..Len(stream) : n + 1..End = {} BY <1>1
<1>6. RelHistory BY <1>5 DEF RelHistory
<1>7. RelPlaces BY DEF RelPlaces
<1>8. ItemAgrees /\ ReadsAgree BY DEF ItemAgrees, ReadsAgree, ReadAgrees
<1> QED BY <1>2, <1>3, <1>4, <1>6, <1>7, <1>8 DEF RelInv

\* A change of the database is pending from then on.
LEMMA RelWriteInv ==
  ASSUME RelInv, Rc!Write
  PROVE  RelInv'
<1>0. StreamOK(Rc!Changes) /\ ReaderOK /\ RelTypes /\ RelHistory /\ RelPlaces
  BY DEF RelInv
<1>1. PICK c \in Rc!Changes : Commits(c) /\ Turns(c, db, db')
  BY <1>0, RelWrites
<1>2. UNCHANGED <<cache, load, suspect, pc, dirty, last_entry_id, target, stream>>
  BY <1>1 DEF Commits, Reading
<1>3. /\ StreamOK(Rc!Changes)' /\ ReaderOK'
      /\ \A n \in 0..Len(stream) : (NoGap(n)' <=> NoGap(n)) /\ After(n)' = After(n) \cup {c}
      /\ End' = Len(stream) + 1 /\ End = Len(stream) /\ ChangeAt(Len(stream) + 1)' = c
      /\ \A i \in 1..Len(stream) : ChangeAt(i)' = ChangeAt(i)
      /\ After(Len(stream) + 1)' = {}
      /\ Current' <=> Current
      /\ LoadPending' = LoadPending \cup {c} /\ CachePending' = CachePending \cup {c}
  BY <1>0, <1>1, RelNone, CommitStream
<1>4. RelTypes' BY <1>0, <1>1, <1>2 DEF RelTypes, Turns
<1>5. RelHistory'
  <2> SUFFICES ASSUME NEW n \in 0..Len(stream), NoGap(n),
                      NEW i \in n + 1..Len(stream) + 1
               PROVE  Leaves(ChangeAt(i)', After(i)', db')
    BY <1>2, <1>3 DEF RelHistory
  <2>0. Len(stream) \in Nat BY <1>0 DEF StreamOK
  <2>1. CASE i = Len(stream) + 1
    <3>1. ChangeAt(Len(stream) + 1)' = c /\ After(Len(stream) + 1)' = {} BY <1>3
    <3>2. PICK k : k = Len(stream) + 1 OBVIOUS
    <3>3. k = Len(stream)' + 1 BY <3>2, <1>2
    <3>4. ChangeAt(k)' = c /\ After(k)' = {} BY <3>1, <3>3
    <3>5. Leaves(c, {}, db') BY <1>1, RelGrows
    <3> QED BY <2>1, <3>2, <3>4, <3>5
  <2>2. CASE i # Len(stream) + 1
    <3>1. i \in 1..Len(stream) /\ i \in n + 1..Len(stream) /\ i \in 1..End BY <2>0, <2>2, <1>3
    <3>2. ChangeAt(i)' = ChangeAt(i) /\ After(i)' = After(i) \cup {c} BY <3>1, <1>3
    <3>3. Leaves(ChangeAt(i), After(i), db) BY <1>0, <1>3, <3>1 DEF RelHistory
    <3>4. Leaves(ChangeAt(i), After(i) \cup {c}, db') BY <1>1, <3>3, RelGrows
    <3> QED BY <3>2, <3>4
  <2> QED BY <2>1, <2>2
<1>6. RelPlaces'
  <2>1. target = "cached" => ChangeAt(last_entry_id + 1)' = ChangeAt(last_entry_id + 1)
    <3> SUFFICES ASSUME target = "cached" PROVE ChangeAt(last_entry_id + 1)' = ChangeAt(last_entry_id + 1)
      OBVIOUS
    <3>1. last_entry_id + 1 \in 1..Len(stream) BY <1>0 DEF ReaderOK, StreamOK
    <3>2. PICK k \in 1..Len(stream) : k = last_entry_id + 1 BY <3>1
    <3> QED BY <3>2, <1>2, <1>3
  <2> QED BY <1>0, <1>2, <2>1 DEF RelPlaces
<1>7. ItemAgrees => ItemAgrees'
  BY <1>1, <1>2, <1>3, RelGrows DEF ItemAgrees
<1>8. ReadsAgree => ReadsAgree'
  <2> SUFFICES ASSUME ReadsAgree, NEW l \in Rc!Goroutines
               PROVE  ReadAgrees(load[l], LoadPending \cup {c}, db')
    BY <1>2, <1>3 DEF ReadsAgree
  <2>1. ReadAgrees(load[l], LoadPending, db) BY DEF ReadsAgree
  <2>2. load[l] # None => Done(load[l]) \in SUBSET Rc!Bits BY <1>0, DoneFacts DEF RelTypes
  <2> QED BY <1>1, <2>1, <2>2, RelGrows DEF ReadAgrees
<1> QED BY <1>2, <1>3, <1>4, <1>5, <1>6, <1>7, <1>8 DEF RelInv

\* The change is recorded, and its event added or lost: a lost event leaves a gap.
LEMMA RelPublishInv ==
  ASSUME RelInv, Rc!Publish
  PROVE  RelInv'
<1>0. StreamOK(Rc!Changes) /\ ReaderOK /\ RelTypes /\ RelHistory /\ RelPlaces
  BY DEF RelInv
<1>1. Records \/ Adds \/ Loses BY Publishes
<1>2. UNCHANGED <<db, cache, load, suspect, pc, dirty, last_entry_id, target>>
  BY <1>1 DEF Records, Adds, Loses, Reading
<1>3. StreamOK(Rc!Changes)' /\ ReaderOK'
  <2>1. CASE Records BY <1>0, <2>1, RelNone, RecordStream
  <2>2. CASE Adds BY <1>0, <2>2, RelNone, AddStream
  <2>3. CASE Loses BY <1>0, <2>3, RelNone, LoseStream
  <2> QED BY <1>1, <2>1, <2>2, <2>3
<1>4. RelTypes' BY <1>0, <1>2 DEF RelTypes
<1>5. RelHistory'
  <2>1. CASE Records
    <3>1. /\ \A n : (NoGap(n)' <=> NoGap(n)) /\ After(n)' = After(n)
          /\ \A i : ChangeAt(i)' = ChangeAt(i)
          /\ End' = End /\ stream' = stream
      BY <1>0, <2>1, RelNone, RecordStream DEF Records
    <3> QED BY <1>0, <1>2, <3>1 DEF RelHistory
  <2>2. CASE Adds
    <3>1. /\ \A n \in 0..Len(stream) : (NoGap(n)' => NoGap(n)) /\ After(n)' = After(n)
          /\ \A i \in 1..End : ChangeAt(i)' = ChangeAt(i) /\ After(i)' = After(i)
          /\ End' = End /\ End = Len(stream) + 1
      BY <1>0, <2>2, RelNone, AddStream
    <3>2. Len(stream') = Len(stream) + 1 /\ Len(stream) \in Nat
      BY <1>0, <2>2 DEF Adds, StreamOK
    <3> SUFFICES ASSUME NEW n \in 0..Len(stream) + 1, NoGap(n)', NEW i \in n + 1..End
                 PROVE  Leaves(ChangeAt(i)', After(i)', db)
      BY <1>2, <3>1, <3>2 DEF RelHistory
    <3>3. n \in 0..Len(stream) /\ i \in 1..End BY <3>1, <3>2
    <3>4. NoGap(n) BY <3>1, <3>3
    <3> QED BY <1>0, <3>1, <3>3, <3>4 DEF RelHistory
  <2>3. CASE Loses
    <3>1. /\ \A n \in 0..Len(stream) : NoGap(n)' => n = Len(stream)
          /\ End' = Len(stream)
      BY <1>0, <2>3, RelNone, LoseStream
    <3>2. stream' = stream /\ Len(stream) \in Nat BY <1>0, <2>3 DEF Loses, StreamOK
    <3>3. \A n \in 0..Len(stream) : NoGap(n)' => n + 1..End' = {} BY <3>1, <3>2
    <3> QED BY <3>2, <3>3 DEF RelHistory
  <2> QED BY <1>1, <2>1, <2>2, <2>3
<1>6. RelPlaces'
  <2>1. ASSUME target = "cached" PROVE ChangeAt(last_entry_id + 1)' = ChangeAt(last_entry_id + 1)
    <3>1. last_entry_id + 1 \in 1..Len(stream) BY <1>0, <2>1 DEF ReaderOK, StreamOK
    <3>2. PICK k \in 1..Len(stream) : k = last_entry_id + 1 BY <3>1
    <3>3. k \in 1..End BY <1>0 DEF End, StreamOK
    <3>4. CASE Records BY <1>0, <1>2, <3>2, <3>4, RelNone, RecordStream
    <3>5. CASE Adds BY <1>0, <1>2, <3>2, <3>3, <3>5, RelNone, AddStream
    <3>6. CASE Loses
      <4>1. stream' = stream BY <3>6 DEF Loses
      <4> QED BY <1>2, <3>2, <4>1 DEF ChangeAt
    <3> QED BY <1>1, <3>4, <3>5, <3>6
  <2> QED BY <1>0, <1>2, <2>1 DEF RelPlaces
<1>7. CASE pc \in {"action", "entry"}
  <2>1. cache' = None /\ \A l \in Rc!Goroutines : load'[l] = None
    BY <1>0, <1>2, <1>7 DEF RelPlaces
  <2>2. ItemAgrees' /\ ReadsAgree' BY <2>1 DEF ItemAgrees, ReadsAgree, ReadAgrees
  <2> QED BY <1>3, <1>4, <1>5, <1>6, <2>2 DEF RelInv
<1>8. CASE pc \notin {"action", "entry"}
  <2>1. ASSUME Current' PROVE Current /\ LoadPending' = LoadPending /\ CachePending' = CachePending
    <3>1. CASE Records BY <1>0, <2>1, <3>1, RelNone, RecordStream
    <3>2. CASE Adds BY <1>0, <2>1, <3>2, RelNone, AddStream
    <3>3. CASE Loses BY <1>0, <1>8, <2>1, <3>3, RelNone, LoseStream
    <3> QED BY <1>1, <3>1, <3>2, <3>3
  <2>2. Current' /\ ItemAgrees => ItemAgrees' BY <1>2, <2>1 DEF ItemAgrees
  <2>3. Current' /\ ReadsAgree => ReadsAgree' BY <1>2, <2>1 DEF ReadsAgree
  <2> QED BY <1>2, <1>3, <1>4, <1>5, <1>6, <2>1, <2>2, <2>3 DEF RelInv
<1> QED BY <1>7, <1>8

\* As long as the database is not changed, what the changes made of it is the same.
LEMMA FixedRelHistory ==
  ASSUME StreamOK(Rc!Changes), Fixed, UNCHANGED db, RelHistory
  PROVE  RelHistory'
<1>1. /\ Len(stream)' = Len(stream) /\ End' = End
      /\ \A n : (NoGap(n)' <=> NoGap(n)) /\ After(n)' = After(n)
      /\ \A i : ChangeAt(i)' = ChangeAt(i)
  BY FixedStream DEF Fixed
<1> SUFFICES ASSUME NEW n \in 0..Len(stream), NoGap(n), NEW i \in n + 1..End
             PROVE  Leaves(ChangeAt(i), After(i), db)
  BY <1>1 DEF RelHistory
<1> QED BY DEF RelHistory

\* A step that is neither of the reader nor of those who write: RelInv holds after it
\* if it does of the item that is cached and of those that are loaded.
LEMMA QuietRelInv ==
  ASSUME RelInv, Quiet, target' = target \/ target' # "cached", RelTypes',
         target' = "cached" => cache' # None,
         pc \in {"action", "entry"} => cache' = None /\ \A l \in Rc!Goroutines : load'[l] = None,
         ~dirty /\ Current /\ cache' # None /\ "overtaken" \notin suspect' =>
           BitsAgree(Rc!Bits, cache', IF target' = "cached" THEN CachePending ELSE LoadPending, db, suspect'),
         (~dirty \/ pc = "reload") /\ Current => \A l \in Rc!Goroutines : ReadAgrees(load'[l], LoadPending, db)
  PROVE  RelInv'
<1>0. StreamOK(Rc!Changes) /\ ReaderOK /\ RelHistory /\ RelPlaces BY DEF RelInv
<1>1. Fixed /\ UNCHANGED <<db, pc, dirty, action_id, last_entry_id, upto>> BY DEF Quiet
<1>2. /\ StreamOK(Rc!Changes)' /\ \A n : After(n)' = After(n) /\ \A i : ChangeAt(i)' = ChangeAt(i)
  BY <1>0, <1>1, FixedStream
<1>3. (Current' <=> Current) /\ LoadPending' = LoadPending /\ (Ahead' <=> Ahead)
  BY <1>0, <1>1, FixedReader DEF Fixed, Ahead, Adding
<1>4. ReaderOK'
  BY <1>0, <1>1, <1>3 DEF ReaderOK, Fixed
<1>5. RelHistory' BY <1>0, <1>1, FixedRelHistory
<1>6. RelPlaces'
  <2>1. ChangeAt(last_entry_id + 1)' = ChangeAt(last_entry_id + 1) BY <1>1 DEF Fixed, ChangeAt
  <2> QED BY <1>0, <1>1, <2>1 DEF RelPlaces
<1>7. CachePending' = IF target' = "cached" THEN CachePending ELSE LoadPending
  <2>1. After(last_entry_id)' = After(last_entry_id) BY <1>1 DEF Fixed, After, End, ChangeAt
  <2> QED BY <1>3, <2>1 DEF CachePending
<1>8. ~dirty' /\ Current' => ItemAgrees' BY <1>1, <1>3, <1>7 DEF ItemAgrees
<1>9. (~dirty' \/ pc' = "reload") /\ Current' => ReadsAgree' BY <1>1, <1>3 DEF ReadsAgree
<1> QED BY <1>2, <1>4, <1>5, <1>6, <1>8, <1>9 DEF RelInv

\* What connections do, and the pool's goroutine when it reloads an item.
LEMMA RelLoadInv ==
  ASSUME RelInv, NEW l \in Rc!Goroutines,
         Rc!BeginLoad(l) \/ Rc!QueryRow(l) \/ Rc!StoreItem(l) \/ Rc!GiveUp(l)
  PROVE  RelInv'
<1>0. StreamOK(Rc!Changes) /\ ReaderOK /\ RelTypes /\ RelHistory /\ RelPlaces
  BY DEF RelInv
<1>1. ~dirty /\ Current => ItemAgrees BY DEF RelInv
<1>2. (~dirty \/ pc = "reload") /\ Current =>
        \A x \in Rc!Goroutines : ReadAgrees(load[x], LoadPending, db)
  BY DEF RelInv, ReadsAgree
<1>3. target # "cached" => CachePending = LoadPending BY DEF CachePending
<1>4. CASE Rc!BeginLoad(l)
  <2> DEFINE x == [next |-> 1, rs |-> {}, suspect |-> {}]
  <2>1. /\ Quiet /\ UNCHANGED <<target, cache, suspect>> /\ load' = [load EXCEPT ![l] = x]
        /\ pc \notin {"action", "entry"}
    BY <1>4 DEF Rc!BeginLoad, Rc!dbVars, Rc!readerVars, Quiet, Fixed
  <2>2. x \in RelLoading BY DEF RelLoading
  <2>3. RelTypes' BY <1>0, <2>1, <2>2 DEF RelTypes, Quiet
  <2>4. Done(x) = {} BY DEF Done
  <2>5. ReadAgrees(x, LoadPending, db) BY <2>4 DEF ReadAgrees, BitsAgree
  <2>6. \A y \in Rc!Goroutines : load'[y] = IF y = l THEN x ELSE load[y]
    BY <1>0, <2>1 DEF RelTypes
  <2> HIDE DEF x
  <2> QED BY <1>0, <1>1, <1>2, <1>3, <2>1, <2>3, <2>5, <2>6, QuietRelInv DEF RelPlaces, ItemAgrees
<1>5. CASE Rc!QueryRow(l)
  <2> DEFINE bit == Rc!Queries[load[l].next]
  <2>1. PICK found \in {{bit} \cap db, {}}, why \in {{}, {"failed"}} :
          /\ load' = [load EXCEPT ![l] = [next |-> @.next + 1, rs |-> @.rs \cup found,
                                          suspect |-> @.suspect \cup why]]
          /\ found = {bit} \cap db \/ (found = {} /\ why = {"failed"})
    BY <1>5 DEF Rc!QueryRow
  <2> DEFINE x == [next |-> load[l].next + 1, rs |-> load[l].rs \cup found,
                   suspect |-> load[l].suspect \cup why]
  <2>2. /\ Quiet /\ UNCHANGED <<target, cache, suspect>> /\ load[l] # None
        /\ ~(load[l].next > Len(Rc!Queries))
    BY <1>5 DEF Rc!QueryRow, Rc!Read, Rc!dbVars, Rc!readerVars, Quiet, Fixed
  <2>3. load[l] \in RelLoading BY <1>0, <2>2 DEF RelTypes
  <2>4. load[l].next \in 1..4 BY <2>2, <2>3, QueriesAreBits DEF RelLoading
  <2>5. bit \in Rc!Bits BY <2>4, QueriesAreBits
  <2>6. x \in RelLoading
    <3>1. load[l].rs \in SUBSET Rc!Bits /\ load[l].suspect \in SUBSET {"overtaken", "failed"}
      BY <2>3 DEF RelLoading
    <3>2. x.next \in 1..5 BY <2>4
    <3>3. load[l].rs \cup found \in SUBSET Rc!Bits BY <2>1, <2>5, <3>1
    <3>4. load[l].suspect \cup why \in SUBSET {"overtaken", "failed"} BY <2>1, <3>1
    <3> QED BY <3>2, <3>3, <3>4 DEF RelLoading
  <2>7. load' = [load EXCEPT ![l] = x] BY <2>1, <1>0 DEF RelTypes
  <2>8. \A y \in Rc!Goroutines : load'[y] = IF y = l THEN x ELSE load[y]
    BY <1>0, <2>7 DEF RelTypes
  <2>9. Done(x) = Done(load[l]) \cup {bit}
    <3>1. 1..x.next - 1 = (1..load[l].next - 1) \cup {load[l].next} BY <2>4
    <3> QED BY <3>1 DEF Done
  <2>10. x.rs = load[l].rs \cup found /\ x.suspect = load[l].suspect \cup why OBVIOUS
  <2> HIDE DEF x, bit
  <2>11. RelTypes' BY <1>0, <2>2, <2>6, <2>7 DEF RelTypes, Quiet
  <2>12. ASSUME ReadAgrees(load[l], LoadPending, db) PROVE ReadAgrees(x, LoadPending, db)
    <3> SUFFICES ASSUME "overtaken" \notin x.suspect
                 PROVE  BitsAgree(Done(x), x.rs, LoadPending, db, x.suspect)
      BY DEF ReadAgrees
    <3>1. BitsAgree(Done(load[l]), load[l].rs, LoadPending, db, load[l].suspect)
      BY <2>2, <2>10, <2>12 DEF ReadAgrees
    <3>2. x.rs \subseteq Done(x) BY <2>1, <2>9, <2>10, <3>1 DEF BitsAgree
    <3>3. ASSUME NEW b \in Done(load[l]), \A d \in LoadPending : ~Sets(d, b)
          PROVE  (b \in x.rs <=> b \in db) \/ ("failed" \in x.suspect /\ b \notin x.rs)
      <4>1. (b \in load[l].rs <=> b \in db) \/ ("failed" \in load[l].suspect /\ b \notin load[l].rs)
        BY <3>1, <3>3 DEF BitsAgree
      <4>2. b \in x.rs <=> b \in load[l].rs \/ b \in found BY <2>10
      <4>3. b \in found => b \in db BY <2>1
      <4>4. "failed" \in load[l].suspect => "failed" \in x.suspect BY <2>10
      <4> QED BY <4>1, <4>2, <4>3, <4>4
    <3>4. ASSUME bit \notin load[l].rs, \A d \in LoadPending : ~Sets(d, bit)
          PROVE  (bit \in x.rs <=> bit \in db) \/ ("failed" \in x.suspect /\ bit \notin x.rs)
      BY <2>1, <2>10, <3>4
    <3>5. bit \in load[l].rs => bit \in Done(load[l]) BY <3>1 DEF BitsAgree
    <3> QED BY <2>9, <3>2, <3>3, <3>4, <3>5 DEF BitsAgree
  <2>13. load'[l] # None \/ x = None BY <2>8
  <2> QED BY <1>0, <1>1, <1>2, <1>3, <2>2, <2>8, <2>11, <2>12, QuietRelInv DEF RelPlaces, ItemAgrees
<1>6. CASE Rc!StoreItem(l)
  <2>1. /\ Quiet /\ load[l] # None /\ load[l].next > Len(Rc!Queries)
        /\ cache' = load[l].rs /\ suspect' = load[l].suspect
        /\ load' = [load EXCEPT ![l] = None] /\ target' # "cached"
    BY <1>6 DEF Rc!StoreItem, Rc!Read, Rc!Put, Rc!Detach, Rc!dbVars, Rc!readerVars, Quiet, Fixed
  <2>2. load[l] \in RelLoading BY <1>0, <2>1 DEF RelTypes
  <2>3. cache' \in SUBSET Rc!Bits /\ suspect' \in SUBSET {"overtaken", "failed"}
    BY <2>1, <2>2 DEF RelLoading
  <2>4. \A y \in Rc!Goroutines : load'[y] = IF y = l THEN None ELSE load[y]
    BY <1>0, <2>1 DEF RelTypes
  <2>5. RelTypes' BY <1>0, <2>1, <2>3 DEF RelTypes, Quiet
  <2>6. ASSUME ReadAgrees(load[l], LoadPending, db), "overtaken" \notin suspect'
        PROVE  BitsAgree(Rc!Bits, cache', LoadPending, db, suspect')
    <3>1. Done(load[l]) = Rc!Bits BY <2>1, <2>2, DoneFacts
    <3> QED BY <2>1, <2>6, <3>1 DEF ReadAgrees
  <2>7. ReadAgrees(None, LoadPending, db) BY DEF ReadAgrees
  <2> QED BY <1>0, <1>2, <2>1, <2>4, <2>5, <2>6, <2>7, QuietRelInv DEF RelPlaces
<1>7. CASE Rc!GiveUp(l)
  <2>1. Quiet /\ UNCHANGED <<target, cache, suspect>> /\ load' = [load EXCEPT ![l] = None]
    BY <1>7 DEF Rc!GiveUp, Rc!dbVars, Rc!readerVars, Quiet, Fixed
  <2>2. \A y \in Rc!Goroutines : load'[y] = IF y = l THEN None ELSE load[y]
    BY <1>0, <2>1 DEF RelTypes
  <2>3. RelTypes' BY <1>0, <2>1 DEF RelTypes, Quiet
  <2>4. ReadAgrees(None, LoadPending, db) BY DEF ReadAgrees
  <2> QED BY <1>0, <1>1, <1>2, <1>3, <2>1, <2>2, <2>3, <2>4, QuietRelInv DEF RelPlaces, ItemAgrees
<1> QED BY <1>4, <1>5, <1>6, <1>7

\* An item that was not used is dropped.
LEMMA RelRecycleInv ==
  ASSUME RelInv, Rc!RecycleItem
  PROVE  RelInv'
<1>1. /\ Quiet /\ cache' = None /\ suspect' = {} /\ load' = load /\ target' # "cached"
  BY DEF Rc!RecycleItem, Rc!Recycle, Rc!Detach, Rc!dbVars, Rc!readerVars, Quiet, Fixed
<1>2. cache' \in (SUBSET Rc!Bits) \cup {None} BY <1>1, Zenon
<1>3. RelTypes' BY <1>1, <1>2 DEF RelInv, RelTypes, Quiet
<1> QED BY <1>1, <1>3, QuietRelInv DEF RelInv, RelPlaces, ReadsAgree

\* load() reads the number of the last change and the end of the stream, again and
\* again until both succeed; nothing is cached meanwhile.
LEMMA RelStartInv ==
  ASSUME RelInv, Rc!LoadStream
  PROVE  RelInv'
<1>0. StreamOK(Rc!Changes) /\ ReaderOK /\ RelTypes /\ RelHistory /\ RelPlaces
  BY DEF RelInv
<1>1. /\ pc \in {"action", "entry"} /\ Fixed /\ UNCHANGED <<db, upto, target, cache, load, suspect>>
      /\ \/ pc' = "entry" /\ action_id' = actions /\ UNCHANGED last_entry_id
         \/ pc' = "read" /\ last_entry_id' = Len(stream) /\ UNCHANGED action_id
         \/ pc' = "action" /\ UNCHANGED <<action_id, last_entry_id>>
  BY DEF Rc!LoadStream, Rc!LoadActionID, Rc!LoadLastEntryID, Rc!GetActionID, Rc!GetLastEntryID,
         Rc!dbVars, Rc!cacheVars, Fixed
<1>2. cache = None /\ \A l \in Rc!Goroutines : load[l] = None BY <1>0, <1>1 DEF RelPlaces
<1>3. target # "cached" BY <1>0, <1>1 DEF ReaderOK
<1>4. StreamOK(Rc!Changes)' BY <1>0, <1>1, FixedStream
<1>5. actions \in Nat /\ Len(stream) \in Nat BY <1>0 DEF StreamOK
<1>6. ReaderOK' BY <1>0, <1>1, <1>3, <1>5 DEF ReaderOK, Fixed
<1>7. RelTypes' BY <1>0, <1>1 DEF RelTypes
<1>8. RelHistory' BY <1>0, <1>1, FixedRelHistory
<1>9. RelPlaces' BY <1>1, <1>2, <1>3 DEF RelPlaces
<1>10. ItemAgrees' /\ ReadsAgree' BY <1>1, <1>2 DEF ItemAgrees, ReadsAgree, ReadAgrees
<1> QED BY <1>4, <1>6, <1>7, <1>8, <1>9, <1>10 DEF RelInv

\* A batch of events is read, and is over.
LEMMA RelBatchInv ==
  ASSUME RelInv, Rc!ReadBatch \/ Rc!NextBatch
  PROVE  RelInv'
<1>0. StreamOK(Rc!Changes) /\ ReaderOK /\ RelTypes /\ RelHistory /\ RelPlaces
  BY DEF RelInv
<1>1. /\ Fixed /\ UNCHANGED <<db, dirty, action_id, last_entry_id, target, cache, load, suspect>>
      /\ \/ pc = "read" /\ pc' = "events" /\ upto' = Len(stream)
         \/ pc = "events" /\ pc' = "read" /\ UNCHANGED upto
  BY DEF Rc!ReadBatch, Rc!NextBatch, Rc!ReadEvents, Rc!EndOfBatch, Rc!BatchDone, Rc!dbVars,
         Rc!readerVars, Rc!cacheVars, Fixed
<1>2. StreamOK(Rc!Changes)' BY <1>0, <1>1, FixedStream
<1>3. (Current' <=> Current) /\ LoadPending' = LoadPending /\ (Ahead' <=> Ahead)
  BY <1>0, <1>1, FixedReader DEF Fixed, Ahead, Adding
<1>4. target # "cached" /\ Len(stream) \in Nat BY <1>0, <1>1 DEF ReaderOK, StreamOK
<1>5. ReaderOK' BY <1>0, <1>1, <1>3, <1>4 DEF ReaderOK, Fixed
<1>6. RelTypes' BY <1>0, <1>1 DEF RelTypes
<1>7. RelHistory' BY <1>0, <1>1, FixedRelHistory
<1>8. RelPlaces' BY <1>1, <1>4 DEF RelPlaces
<1>9. CachePending' = CachePending BY <1>1, <1>3, <1>4 DEF CachePending
<1>10. (ItemAgrees => ItemAgrees') /\ (ReadsAgree => ReadsAgree')
  BY <1>1, <1>3, <1>9 DEF ItemAgrees, ReadsAgree
<1> QED BY <1>1, <1>2, <1>3, <1>5, <1>6, <1>7, <1>8, <1>10 DEF RelInv

\* What an event or a reload does to the loads in progress.
LEMMA RelOvertaken ==
  ASSUME RelTypes
  PROVE  /\ Rc!Overtaken \in [Rc!Goroutines -> RelLoading \cup {None}]
         /\ \A l \in Rc!Goroutines : \A P, D : ReadAgrees(Rc!Overtaken[l], P, D)
<1>1. ASSUME NEW l \in Rc!Goroutines, load[l] # None
      PROVE  LET x == [load[l] EXCEPT !.suspect = @ \cup {"overtaken"}]
             IN x \in RelLoading /\ "overtaken" \in x.suspect
  <2>1. load[l] \in RelLoading BY <1>1 DEF RelTypes
  <2>2. load[l] = [next |-> load[l].next, rs |-> load[l].rs, suspect |-> load[l].suspect]
    BY <2>1 DEF RelLoading
  <2>3. [load[l] EXCEPT !.suspect = @ \cup {"overtaken"}] =
          [next |-> load[l].next, rs |-> load[l].rs, suspect |-> load[l].suspect \cup {"overtaken"}]
    BY <2>2
  <2>4. load[l].suspect \cup {"overtaken"} \in SUBSET {"overtaken", "failed"} BY <2>1 DEF RelLoading
  <2> QED BY <2>1, <2>3, <2>4 DEF RelLoading
<1>2. Rc!Overtaken \in [Rc!Goroutines -> RelLoading \cup {None}] BY <1>1 DEF Rc!Overtaken
<1>3. ASSUME NEW l \in Rc!Goroutines, NEW P, NEW D PROVE ReadAgrees(Rc!Overtaken[l], P, D)
  BY <1>1 DEF Rc!Overtaken, ReadAgrees
<1> QED BY <1>2, <1>3

\* handleEvent looks the event up: from then on it is not pending for a load, which
\* it overtakes if it is about the pair.
LEMMA RelLookUpInv ==
  ASSUME RelInv, Rc!FindItem
  PROVE  RelInv'
<1>0. StreamOK(Rc!Changes) /\ ReaderOK /\ RelTypes /\ RelHistory /\ RelPlaces
  BY DEF RelInv
<1>1. /\ Fixed /\ UNCHANGED <<db, action_id, last_entry_id, upto, cache, suspect>>
      /\ pc = "events" /\ last_entry_id < upto /\ pc' = "apply"
      /\ dirty' = (dirty \/ action_id # stream[last_entry_id + 1].prev)
      /\ target' = IF Rc!Concerns /\ cache # None THEN "cached" ELSE "none"
      /\ load' = IF Rc!Concerns THEN Rc!Overtaken ELSE load
  BY DEF Rc!FindItem, Rc!HandleEvent, Rc!Event, Rc!dbVars, Rc!readerVars, Fixed
<1>2. /\ ReaderOK' /\ (Current' <=> Current)
      /\ LoadPending = {ChangeAt(last_entry_id + 1)} \cup LoadPending'
      /\ CachePending = LoadPending
      /\ target' = "cached" => CachePending' = CachePending
      /\ target' # "cached" => CachePending' = LoadPending'
  BY <1>0, <1>1, LookUpReader
<1>3. StreamOK(Rc!Changes)' BY <1>0, <1>1, FixedStream
<1>4. ~Ahead /\ last_entry_id + 1 \in 1..Len(stream) BY <1>0, <1>1, NotAhead
<1>5. ChangeAt(last_entry_id + 1) = stream[last_entry_id + 1].change BY <1>4 DEF ChangeAt, StreamOK
<1>6. Rc!Concerns <=> ChangeAt(last_entry_id + 1).name # "other" BY <1>5 DEF Rc!Concerns, Rc!Event
<1>7. RelTypes' BY <1>0, <1>1, RelOvertaken DEF RelTypes
<1>8. RelHistory' BY <1>0, <1>1, FixedRelHistory
<1>9. RelPlaces'
  <2>1. ChangeAt(last_entry_id + 1)' = ChangeAt(last_entry_id + 1) BY <1>1 DEF Fixed, ChangeAt
  <2> QED BY <1>0, <1>1, <1>6, <2>1 DEF RelPlaces
<1>10. ASSUME ~dirty', Current' PROVE ItemAgrees' /\ ReadsAgree'
  <2>1. ItemAgrees /\ ReadsAgree BY <1>1, <1>2, <1>10 DEF RelInv
  <2>2. CASE Rc!Concerns
    <3>1. ItemAgrees' BY <1>1, <1>2, <2>1, <2>2 DEF ItemAgrees
    <3>2. \A l \in Rc!Goroutines : ReadAgrees(load'[l], LoadPending', db')
      BY <1>0, <1>1, <2>2, RelOvertaken
    <3> QED BY <3>1, <3>2 DEF ReadsAgree
  <2>3. CASE ~Rc!Concerns
    <3> DEFINE c == ChangeAt(last_entry_id + 1)
               P == LoadPending'
    <3>1. c.name = "other" /\ target' # "cached" BY <1>1, <1>6, <2>3
    <3>2. CachePending = {c} \cup P /\ LoadPending = {c} \cup P /\ CachePending' = P
      BY <1>2, <3>1
    <3> HIDE DEF c, P
    <3>3. ASSUME cache # None, "overtaken" \notin suspect
          PROVE  BitsAgree(Rc!Bits, cache, P, db, suspect)
      BY <2>1, <3>1, <3>2, <3>3, RelPasses DEF ItemAgrees
    <3>4. ASSUME NEW l \in Rc!Goroutines PROVE ReadAgrees(load[l], P, db)
      <4>1. ReadAgrees(load[l], {c} \cup P, db) BY <2>1, <3>2 DEF ReadsAgree
      <4> QED BY <4>1, <3>1, RelPasses DEF ReadAgrees
    <3>5. ItemAgrees' BY <1>1, <3>2, <3>3 DEF ItemAgrees
    <3>6. ReadsAgree' BY <1>1, <2>3, <3>4 DEF ReadsAgree, P
    <3> QED BY <3>5, <3>6
  <2> QED BY <2>2, <2>3
<1>11. pc' # "reload" BY <1>1
<1> QED BY <1>2, <1>3, <1>7, <1>8, <1>9, <1>10, <1>11 DEF RelInv

\* handleEvent sets the bit of the item that was found: then the change is no longer
\* pending.
LEMMA RelApplyInv ==
  ASSUME RelInv, Rc!HandleChange
  PROVE  RelInv'
<1>0. StreamOK(Rc!Changes) /\ ReaderOK /\ RelTypes /\ RelHistory /\ RelPlaces
  BY DEF RelInv
<1> DEFINE c == ChangeAt(last_entry_id + 1)
           P == After(last_entry_id + 1)
<1>1. /\ Fixed /\ UNCHANGED <<db, dirty, upto, load, suspect>> /\ pc = "apply" /\ pc' = "events"
      /\ action_id' = stream[last_entry_id + 1].id /\ last_entry_id' = last_entry_id + 1
      /\ target' = "none"
  BY DEF Rc!HandleChange, Rc!Apply, Rc!Event, Rc!dbVars, Fixed
<1>2. /\ ReaderOK' /\ (~dirty /\ Current' => Current /\ Complete)
      /\ last_entry_id + 1 \in 1..Len(stream) /\ last_entry_id + 1 \in 1..End
      /\ LoadPending' = P /\ LoadPending = P /\ CachePending' = P
      /\ target = "cached" => CachePending = {c} \cup P
      /\ target # "cached" => CachePending = P
  BY <1>0, <1>1, ApplyReader
<1>3. c = stream[last_entry_id + 1].change BY <1>2 DEF ChangeAt, StreamOK
<1>4. c \in Rc!Changes BY <1>0, <1>2, ChangesTyped
<1>5. cache' = IF target = "cached" THEN Rc!SetBit(cache, Rc!BitOf(c), c.on) ELSE cache
  BY <1>3 DEF Rc!HandleChange, Rc!Apply, Rc!Event
<1>6. target = "cached" => cache # None /\ c.name # "other" BY <1>0 DEF RelPlaces
<1>7. Complete => Leaves(c, P, db)
  <2>1. last_entry_id \in 0..Len(stream) BY <1>0 DEF ReaderOK
  <2>2. last_entry_id + 1 \in last_entry_id + 1..End BY <1>2, <2>1 DEF StreamOK
  <2> QED BY <1>0, <2>1, <2>2 DEF RelHistory, Complete
<1> HIDE DEF c, P
<1>8. StreamOK(Rc!Changes)' BY <1>0, <1>1, FixedStream
<1>9. RelTypes'
  <2>1. CASE target = "cached"
    <3>1. cache \in SUBSET Rc!Bits BY <1>0, <1>6, <2>1 DEF RelTypes
    <3>2. Rc!BitOf(c) \in Rc!Bits BY <1>4, <1>6, <2>1, RelFields
    <3>3. cache' \in SUBSET Rc!Bits BY <1>5, <2>1, <3>1, <3>2 DEF Rc!SetBit
    <3> QED BY <1>0, <1>1, <3>3 DEF RelTypes
  <2>2. CASE target # "cached" BY <1>0, <1>1, <1>5, <2>2 DEF RelTypes
  <2> QED BY <2>1, <2>2
<1>10. RelHistory' BY <1>0, <1>1, FixedRelHistory
<1>11. RelPlaces' BY <1>1 DEF RelPlaces
<1>12. ASSUME ~dirty', Current' PROVE ItemAgrees' /\ ReadsAgree'
  <2>1. ItemAgrees /\ ReadsAgree /\ Leaves(c, P, db) BY <1>1, <1>2, <1>7, <1>12 DEF RelInv
  <2>2. ReadsAgree' BY <1>1, <1>2, <2>1 DEF ReadsAgree
  <2>3. ASSUME cache' # None, "overtaken" \notin suspect PROVE BitsAgree(Rc!Bits, cache', P, db, suspect)
    <3>1. CASE target # "cached" BY <1>2, <1>5, <2>1, <2>3, <3>1 DEF ItemAgrees
    <3>2. CASE target = "cached"
      <4>1. BitsAgree(Rc!Bits, cache, {c} \cup P, db, suspect)
        BY <1>2, <1>6, <2>1, <2>3, <3>2 DEF ItemAgrees
      <4>2. Rc!BitOf(c) \in Rc!Bits BY <1>4, <1>6, <3>2, RelFields
      <4> QED BY <1>5, <1>6, <2>1, <3>2, <4>1, <4>2, RelApplied
    <3> QED BY <3>1, <3>2
  <2>4. ItemAgrees' BY <1>1, <1>2, <2>3 DEF ItemAgrees
  <2> QED BY <2>2, <2>4
<1>13. pc' # "reload" BY <1>1
<1> QED BY <1>2, <1>8, <1>9, <1>10, <1>11, <1>12, <1>13 DEF RelInv

\* ReloadRelation begins: it overtakes the loads in progress, but not those that begin
\* while it reads.
LEMMA RelReloadInv ==
  ASSUME RelInv, Rc!BeginReload
  PROVE  RelInv'
<1>0. StreamOK(Rc!Changes) /\ ReaderOK /\ RelTypes /\ RelHistory /\ RelPlaces
  BY DEF RelInv
<1> DEFINE new == [next |-> 1, rs |-> {}, suspect |-> {}]
<1>1. /\ Fixed /\ UNCHANGED <<db, dirty, action_id, last_entry_id, upto, target, cache, suspect>>
      /\ pc = "events" /\ dirty /\ pc' = "reload"
      /\ \E x \in {new, None} : load' = [Rc!Overtaken EXCEPT ![Manager] = x]
  BY DEF Rc!BeginReload, Rc!BatchDone, Rc!dbVars, Rc!readerVars, Fixed
<1>2. PICK x \in {new, None} : load' = [Rc!Overtaken EXCEPT ![Manager] = x] BY <1>1
<1>3. new \in RelLoading BY DEF RelLoading
<1>4. \A P, D : ReadAgrees(x, P, D)
  <2>1. Done(new) = {} BY DEF Done
  <2>2. \A P, D : ReadAgrees(new, P, D) BY <2>1 DEF ReadAgrees, BitsAgree
  <2>3. \A P, D : ReadAgrees(None, P, D) BY DEF ReadAgrees
  <2> QED BY <2>2, <2>3
<1> HIDE DEF new
<1>5. load' \in [Rc!Goroutines -> RelLoading \cup {None}] BY <1>0, <1>2, <1>3, RelOvertaken
<1>6. \A l \in Rc!Goroutines : ReadAgrees(load'[l], LoadPending', db')
  <2> SUFFICES ASSUME NEW l \in Rc!Goroutines PROVE ReadAgrees(load'[l], LoadPending', db') OBVIOUS
  <2>1. CASE l = Manager
    <3>1. load'[l] = x BY <1>0, <1>2, <2>1, RelOvertaken
    <3> QED BY <1>4, <3>1
  <2>2. CASE l # Manager
    <3>1. load'[l] = Rc!Overtaken[l] BY <1>0, <1>2, <2>2, RelOvertaken
    <3> QED BY <1>0, <3>1, RelOvertaken
  <2> QED BY <2>1, <2>2
<1>7. StreamOK(Rc!Changes)' BY <1>0, <1>1, FixedStream
<1>8. target # "cached" /\ (Ahead' <=> Ahead) BY <1>0, <1>1 DEF ReaderOK, Fixed, Ahead, Adding
<1>9. ReaderOK' BY <1>0, <1>1, <1>8 DEF ReaderOK, Fixed
<1>10. RelTypes' BY <1>0, <1>1, <1>5 DEF RelTypes
<1>11. RelHistory' BY <1>0, <1>1, FixedRelHistory
<1>12. RelPlaces' BY <1>1, <1>8 DEF RelPlaces
<1> QED BY <1>1, <1>6, <1>7, <1>9, <1>10, <1>11, <1>12 DEF RelInv, ReadsAgree

\* rp.items = m: the item is what ReloadRelation read, or is gone.
LEMMA RelSwapInv ==
  ASSUME RelInv, Rc!SwapItems
  PROVE  RelInv'
<1>0. StreamOK(Rc!Changes) /\ ReaderOK /\ RelTypes /\ RelHistory /\ RelPlaces
  BY DEF RelInv
<1> DEFINE m == load[Manager]
<1>1. /\ Fixed /\ UNCHANGED <<db, action_id, last_entry_id, upto, target>>
      /\ pc = "reload" /\ pc' = "read" /\ dirty' = FALSE
      /\ \/ m = None /\ cache' = None /\ suspect' = {}
         \/ m # None /\ m.next > Len(Rc!Queries) /\ cache' = m.rs /\ suspect' = m.suspect
      /\ load' = [load EXCEPT ![Manager] = None]
  BY DEF Rc!SwapItems, Rc!Read, Rc!dbVars, Rc!readerVars, Fixed
<1>2. Manager \in Rc!Goroutines BY DEF Rc!Goroutines
<1>3. m # None => m \in RelLoading BY <1>0, <1>2 DEF RelTypes
<1>4. StreamOK(Rc!Changes)' BY <1>0, <1>1, FixedStream
<1>5. (Current' <=> Current) /\ LoadPending' = LoadPending /\ (Ahead' <=> Ahead)
  BY <1>0, <1>1, FixedReader DEF Fixed, Ahead, Adding
<1>6. target # "cached" BY <1>0, <1>1 DEF ReaderOK
<1>7. ReaderOK' BY <1>0, <1>1, <1>5, <1>6 DEF ReaderOK, Fixed
<1>8. RelTypes'
  <2>1. cache' \in (SUBSET Rc!Bits) \cup {None}
    <3>1. CASE m = None
      <4>1. cache' = None BY <1>1, <3>1
      <4> QED BY <4>1, Zenon
    <3>2. CASE m # None
      <4>1. cache' \in SUBSET Rc!Bits BY <1>1, <1>3, <3>2 DEF RelLoading
      <4> QED BY <4>1
    <3> QED BY <3>1, <3>2
  <2>2. suspect' \in SUBSET {"overtaken", "failed"} BY <1>1, <1>3 DEF RelLoading
  <2>3. load' \in [Rc!Goroutines -> RelLoading \cup {None}] BY <1>0, <1>1 DEF RelTypes
  <2> QED BY <1>0, <1>1, <2>1, <2>2, <2>3 DEF RelTypes
<1>9. RelHistory' BY <1>0, <1>1, FixedRelHistory
<1>10. RelPlaces' BY <1>1, <1>6 DEF RelPlaces
<1>11. CachePending' = LoadPending BY <1>1, <1>5, <1>6 DEF CachePending
<1>12. ASSUME Current' PROVE ItemAgrees' /\ ReadsAgree'
  <2>1. \A l \in Rc!Goroutines : ReadAgrees(load[l], LoadPending, db)
    BY <1>1, <1>5, <1>12 DEF RelInv, ReadsAgree
  <2>2. ReadAgrees(None, LoadPending, db) BY DEF ReadAgrees
  <2>3. \A l \in Rc!Goroutines : load'[l] = None \/ load'[l] = load[l] BY <1>0, <1>1 DEF RelTypes
  <2>4. ReadsAgree' BY <1>1, <1>5, <2>1, <2>2, <2>3 DEF ReadsAgree
  <2>5. ASSUME cache' # None, "overtaken" \notin suspect'
        PROVE  BitsAgree(Rc!Bits, cache', LoadPending, db, suspect')
    <3>1. m # None /\ m.next > Len(Rc!Queries) /\ cache' = m.rs /\ suspect' = m.suspect BY <1>1, <2>5
    <3>2. Done(m) = Rc!Bits BY <1>3, <3>1, DoneFacts
    <3>3. ReadAgrees(m, LoadPending, db) BY <1>2, <2>1
    <3> QED BY <2>5, <3>1, <3>2, <3>3 DEF ReadAgrees
  <2>6. ItemAgrees' BY <1>1, <1>11, <2>5 DEF ItemAgrees
  <2> QED BY <2>4, <2>6
<1> QED BY <1>1, <1>4, <1>7, <1>8, <1>9, <1>10, <1>12 DEF RelInv

\* The steps of RelationshipNext.
LEMMA RelNextInv ==
  ASSUME RelInv, Rc!RelationshipNext
  PROVE  RelInv'
<1>1. Manager \in Rc!Goroutines /\ \A l \in Connections : l \in Rc!Goroutines BY DEF Rc!Goroutines
<1>2. CASE Rc!Write BY <1>2, RelWriteInv
<1>3. CASE Rc!Publish BY <1>3, RelPublishInv
<1>4. CASE Rc!PoolStep
  <2>1. CASE Rc!LoadStream BY <2>1, RelStartInv
  <2>2. CASE Rc!ReadBatch \/ Rc!NextBatch BY <2>2, RelBatchInv
  <2>3. CASE Rc!FindItem BY <2>3, RelLookUpInv
  <2>4. CASE Rc!HandleChange BY <2>4, RelApplyInv
  <2>5. CASE Rc!BeginReload BY <2>5, RelReloadInv
  <2>6. CASE Rc!QueryRow(Manager) BY <1>1, <2>6, RelLoadInv
  <2>7. CASE Rc!SwapItems BY <2>7, RelSwapInv
  <2> QED BY <1>4, <2>1, <2>2, <2>3, <2>4, <2>5, <2>6, <2>7 DEF Rc!PoolStep
<1>5. CASE Rc!RecycleItem BY <1>5, RelRecycleInv
<1>6. CASE Rc!GiveUp(Manager) BY <1>1, <1>6, RelLoadInv
<1>7. ASSUME NEW l \in Connections,
             Rc!BeginLoad(l) \/ Rc!QueryRow(l) \/ Rc!StoreItem(l) \/ Rc!GiveUp(l)
      PROVE  RelInv'
  BY <1>1, <1>7, RelLoadInv
<1> QED BY <1>2, <1>3, <1>4, <1>5, <1>6, <1>7 DEF Rc!RelationshipNext

\* While the relationship cache runs its invariant holds.
LEMMA RelInvariant == Spec => [](which = "relationship" => RelInv)
<1>1. Init => (which = "relationship" => RelInv)
  BY RelInitInv DEF Init
<1>2. (which = "relationship" => RelInv) /\ [Next]_<<which, cacheVars, keyVars, peerVars, groupVars>> =>
        (which = "relationship" => RelInv)'
  <2> SUFFICES ASSUME which = "relationship" => RelInv,
                      [Next]_<<which, cacheVars, keyVars, peerVars, groupVars>>,
                      which' = "relationship"
               PROVE  RelInv'
    OBVIOUS
  <2>1. RelInv BY DEF Next
  <2>2. CASE Rc!RelationshipNext BY <2>1, <2>2, RelNextInv
  <2>3. CASE UNCHANGED cacheVars
    <3>1. Quiet /\ UNCHANGED <<target, cache, load, suspect>> BY <2>3 DEF cacheVars, Quiet, Fixed
    <3>2. RelTypes' BY <2>1, <3>1 DEF RelInv, RelTypes, Quiet
    <3>3. /\ RelPlaces /\ (~dirty /\ Current => ItemAgrees)
          /\ (~dirty \/ pc = "reload") /\ Current => ReadsAgree
      BY <2>1 DEF RelInv
    <3>4. CachePending = IF target = "cached" THEN CachePending ELSE LoadPending BY DEF CachePending
    <3> QED BY <2>1, <3>1, <3>2, <3>3, <3>4, QuietRelInv DEF RelPlaces, ItemAgrees, ReadsAgree
  <2> QED BY <2>2, <2>3 DEF Next
<1> QED BY <1>1, <1>2, PTL DEF Spec

\* Once RelationshipPool has handled every event, a cached relationship is what the
\* database holds, unless an event overtook the load it comes from or a query failed.
THEOREM AccessRelationshipExact == Spec => []RelationshipExact
<1>1. ASSUME RelInv, Rc!CaughtUp, cache # None, suspect = {} PROVE cache = db
  <2>1. ~dirty /\ Current /\ CachePending = {} BY <1>1, NothingPending DEF RelInv
  <2>2. BitsAgree(Rc!Bits, cache, {}, db, suspect) BY <1>1, <2>1 DEF RelInv, ItemAgrees
  <2>3. \A b \in Rc!Bits : b \in cache <=> b \in db BY <1>1, <2>2 DEF BitsAgree
  <2>4. cache \subseteq Rc!Bits /\ db \subseteq Rc!Bits BY <1>1, <2>2 DEF BitsAgree, RelInv, RelTypes
  <2> QED BY <2>3, <2>4
<1>2. (which = "relationship" => RelInv) => RelationshipExact
  BY <1>1 DEF RelationshipExact, Rc!RelationshipExact
<1> QED BY <1>2, RelInvariant, PTL

\* A failed query of GetRelationship makes no friends and blocks nobody.
THEOREM AccessFailsOpen == Spec => []FailsOpen
<1>1. ASSUME RelInv, Rc!CaughtUp, cache # None, suspect \subseteq {"failed"} PROVE cache \subseteq db
  <2>1. ~dirty /\ Current /\ CachePending = {} BY <1>1, NothingPending DEF RelInv
  <2>2. BitsAgree(Rc!Bits, cache, {}, db, suspect) BY <1>1, <2>1 DEF RelInv, ItemAgrees
  <2> QED BY <2>2 DEF BitsAgree
<1>2. (which = "relationship" => RelInv) => FailsOpen BY <1>1 DEF FailsOpen, Rc!FailsOpen
<1> QED BY <1>2, RelInvariant, PTL
-----------------------------------------------------------------------------
(***************************************************************************)
(* The types of what runs.                                                 *)
(***************************************************************************)

\* Where the goroutine of GroupManager may be, and what an event may have found.
GroupFlow == pc \in {"action", "entry", "read", "events", "apply"} /\ target \in {"none", "cached", "detached"}

\* GroupManager's goroutine goes from one of these places to another.
LEMMA GroupFlowStep ==
  ASSUME GroupFlow, Gc!GroupNext
  PROVE  GroupFlow'
<1>1. CASE Gc!Write
  BY <1>1 DEF GroupFlow, Gc!Write, Gc!WriteCreate, Gc!WriteChange, Gc!Change, Gc!WriteDisband, Gc!WriteOther, Gc!Commit
<1>2. CASE Gc!Publish
  BY <1>2 DEF GroupFlow, Gc!Publish, Gc!RecordAction, Gc!AddEvent
<1>3. CASE Gc!ManagerStep
  <2>1. CASE Gc!GetActionID \/ Gc!GetLastEntryID \/ Gc!ReadEvents
    BY <2>1 DEF GroupFlow, Gc!GetActionID, Gc!GetLastEntryID, Gc!ReadEvents
  <2>2. CASE Gc!HandleEvent(Gc!Concerns)
    BY <2>2 DEF GroupFlow, Gc!HandleEvent
  <2>3. CASE Gc!HandleCreate \/ Gc!HandleDisband \/ Gc!HandleChange
    BY <2>3 DEF GroupFlow, Gc!HandleCreate, Gc!HandleDisband, Gc!HandleChange, Gc!Apply
  <2>4. CASE Gc!EndOfBatch \/ Gc!Clear
    BY <2>4 DEF GroupFlow, Gc!EndOfBatch, Gc!Clear
  <2> QED BY <1>3, <2>1, <2>2, <2>3, <2>4 DEF Gc!ManagerStep
<1>4. CASE Gc!Recycle
  BY <1>4 DEF GroupFlow, Gc!Recycle, Gc!Detach
<1>5. ASSUME NEW l, Gc!LoadRow(l) \/ Gc!LoadGroupMember(l) \/ Gc!GiveUp(l) PROVE GroupFlow'
  BY <1>5 DEF GroupFlow, Gc!LoadRow, Gc!LoadGroupMember, Gc!GiveUp
<1>6. ASSUME NEW l, Gc!PutGroup(l) PROVE GroupFlow'
  BY <1>6 DEF GroupFlow, Gc!PutGroup, Gc!Put, Gc!Detach
<1> QED BY <1>1, <1>2, <1>3, <1>4, <1>5, <1>6 DEF Gc!GroupNext

\* Only a reload in progress reads the database for the pool.
RelFlow == load[Manager] # None => pc = "reload"

\* The goroutine of RelationshipPool loads nothing but in ReloadRelation.
LEMMA RelFlowStep ==
  ASSUME RelFlow, RelTypes, Rc!RelationshipNext
  PROVE  RelFlow'
<1>1. load \in [Rc!Goroutines -> RelLoading \cup {None}] /\ Manager \in Rc!Goroutines /\ Manager \notin Connections
  BY ConstantsAreBounds DEF RelTypes, Rc!Goroutines, Rc!RelationshipAssumption
<1>2. CASE Rc!Write \/ Rc!Publish
  BY <1>2 DEF RelFlow, Rc!Write, Rc!Commit, Rc!Publish, Rc!RecordAction, Rc!AddEvent, Rc!cacheVars
<1>3. CASE Rc!PoolStep
  <2>1. CASE Rc!LoadStream \/ Rc!ReadBatch \/ Rc!NextBatch
    BY <2>1 DEF RelFlow, Rc!LoadStream, Rc!LoadActionID, Rc!LoadLastEntryID, Rc!GetActionID,
       Rc!GetLastEntryID, Rc!ReadBatch, Rc!ReadEvents, Rc!NextBatch, Rc!EndOfBatch, Rc!BatchDone, Rc!cacheVars
  <2>2. CASE Rc!FindItem
    BY <1>1, <2>2 DEF RelFlow, Rc!FindItem, Rc!HandleEvent, Rc!Overtaken
  <2>3. CASE Rc!HandleChange
    BY <2>3 DEF RelFlow, Rc!HandleChange, Rc!Apply
  <2>4. CASE Rc!BeginReload
    BY <2>4 DEF RelFlow, Rc!BeginReload
  <2>5. CASE Rc!QueryRow(Manager)
    BY <2>5 DEF RelFlow, Rc!QueryRow
  <2>6. CASE Rc!SwapItems
    BY <1>1, <2>6 DEF RelFlow, Rc!SwapItems
  <2> QED BY <1>3, <2>1, <2>2, <2>3, <2>4, <2>5, <2>6 DEF Rc!PoolStep
<1>4. CASE Rc!RecycleItem
  BY <1>4 DEF RelFlow, Rc!RecycleItem, Rc!Recycle
<1>5. CASE Rc!GiveUp(Manager)
  BY <1>1, <1>5 DEF RelFlow, Rc!GiveUp
<1>6. ASSUME NEW l \in Connections, Rc!BeginLoad(l) \/ Rc!QueryRow(l) \/ Rc!StoreItem(l) \/ Rc!GiveUp(l)
      PROVE  RelFlow'
  <2>1. load'[Manager] = load[Manager] /\ pc' = pc
    BY <1>1, <1>6 DEF Rc!BeginLoad, Rc!QueryRow, Rc!StoreItem, Rc!Put, Rc!GiveUp
  <2> QED BY <2>1 DEF RelFlow
<1> QED BY <1>2, <1>3, <1>4, <1>5, <1>6 DEF Rc!RelationshipNext

\* While one of the caches runs.
Flow == (which = "group" => GroupFlow) /\ (which = "relationship" => RelFlow)

\* Both goroutines stay where they may be.
LEMMA FlowInvariant == Spec => []Flow
<1> DEFINE Inv == which = "relationship" => RelInv
<1>1. Init => Flow
  <2>1. Gc!GroupInit => GroupFlow BY DEF Gc!GroupInit, Gc!StreamInit, GroupFlow
  <2>2. Rc!RelationshipInit => RelFlow
    BY DEF Rc!RelationshipInit, Rc!StreamInit, RelFlow, Rc!Goroutines
  <2> QED BY <2>1, <2>2 DEF Init, Flow
<1>2. Flow /\ Inv /\ [Next]_<<which, cacheVars, keyVars, peerVars, groupVars>> => Flow'
  <2> SUFFICES ASSUME Flow, Inv, [Next]_<<which, cacheVars, keyVars, peerVars, groupVars>> PROVE Flow'
    OBVIOUS
  <2>1. CASE UNCHANGED <<which, cacheVars>>
    BY <2>1 DEF Flow, cacheVars, GroupFlow, RelFlow
  <2>2. CASE which = "group" /\ Gc!GroupNext /\ which' = which
    BY <2>2, GroupFlowStep DEF Flow
  <2>3. CASE which = "relationship" /\ Rc!RelationshipNext /\ which' = which
    BY <2>3, RelFlowStep DEF RelInv, Flow
  <2> QED BY <2>1, <2>2, <2>3 DEF Next
<1> QED BY <1>1, <1>2, RelInvariant, PTL DEF Spec

\* The types of the variables of GroupManager, RelationshipPool and Connection: a
\* list never exceeds its limit, and a device is known to the route server only
\* while it has a connection.
THEOREM AccessTypes == Spec => []TypeOK
<1>1. ASSUME GroupInv, GroupFlow PROVE Gc!GroupTypeOK
  <2>1. db \in Rows /\ cache \in Gc!Groups \cup {None} /\ suspect \in SUBSET {"overtaken", "failed"}
    BY <1>1 DEF GroupInv, GroupTypes
  <2>2. target \in {"none", "cached", "detached"} /\ (target = "cached" => cache # None)
    BY <1>1 DEF GroupInv, GroupPlaces, GroupFlow
  <2>3. last_entry_id <= upto \/ pc \in {"action", "entry", "read"}
    <3>1. CASE pc = "apply" BY <1>1, <3>1 DEF GroupInv, ReaderOK, StreamOK
    <3>2. CASE pc = "events" BY <1>1, <3>2 DEF GroupInv, ReaderOK
    <3> QED BY <1>1, <3>1, <3>2 DEF GroupFlow
  <2> QED BY <2>1, <2>2, <2>3 DEF Gc!GroupTypeOK, Rows
<1>2. ASSUME RelInv, RelFlow PROVE Rc!RelationshipTypeOK
  BY <1>2 DEF RelInv, RelTypes, RelPlaces, RelFlow, Rc!RelationshipTypeOK
<1>3. Dp!SafetySpec => []Dp!TypeOK
  BY DeliveryGiven, Dp!DeliveryTypes
<1>4. Dp!TypeOK => Pd!TypeOK
  BY Zenon DEF Dp!TypeOK, Pd!TypeOK, Dp!Ids, Pd!Ids, Dp!ToSet, Pd!ToSet, Dp!AllIds, Pd!AllIds
<1>5. /\ which = "group" => GroupInv
      /\ which = "relationship" => RelInv
      /\ Flow /\ Pd!TypeOK
      => TypeOK
  BY <1>1, <1>2 DEF TypeOK, Flow
<1>6. Spec => []Pd!TypeOK
  BY <1>3, <1>4, ImplementsDelivery, PTL
<1> QED BY <1>5, <1>6, GroupInvariant, RelInvariant, FlowInvariant, PTL

-----------------------------------------------------------------------------
(***************************************************************************)
(* Super groups: what members learn of, and what acknowledgements say.     *)
(***************************************************************************)
GroupHandlers == [step : {"save", "publish"}, kind : {"client", "http"}, msg : Nat, id : Nat]
GroupItems    == [kind : {"im", "notify"}, id : Nat]
GroupAnswers  == [ids : SUBSET Nat, end : Nat]
GroupReasons  == {"untold", "dropped", "not loaded", "too old", "unanswered", "not cached"}

SuperTyped ==
  /\ gqueue \in Seq(Nat) /\ gsent \in Nat /\ handler \in [Senders -> GroupHandlers \cup {None}]
  /\ gnet \in [Servers -> Seq(GroupItems)] /\ dt \in [Servers -> [Delivers -> Seq(GroupItems)]]
  /\ gconn \subseteq Members /\ gmessages \in [Members -> Seq(GroupItems)]
  /\ gwt \in [Members -> Seq(GroupAnswers)] /\ greq \in [Members -> Seq(Nat)]
  /\ gkey \in [Members -> Nat] /\ ggot \in [Members -> SUBSET Nat]
  /\ gexcused \in [Members -> SUBSET [id : Nat, why : GroupReasons]]

\* The handlers work on messages of their own; a message is saved once, and not
\* acknowledged before the handler ends.
HandlersOwn ==
  \A s \in Senders : handler[s] # None =>
    /\ handler[s].msg \in 1..gsent
    /\ \A t \in Senders : t # s /\ handler[t] # None => handler[t].msg # handler[s].msg
    /\ \A a \in gacked : a.msg # handler[s].msg
    /\ handler[s].step = "save" => \A i \in DOMAIN gqueue : gqueue[i] # handler[s].msg
    /\ handler[s].step = "publish" => handler[s].id \in DOMAIN gqueue /\ gqueue[handler[s].id] = handler[s].msg

AcksOwn ==
  /\ \A i \in DOMAIN gqueue : gqueue[i] <= gsent
  /\ \A a \in gacked : a.msg \in 1..gsent
  /\ AckTellsKey

\* What the client has, or was not told of.
Has(d) == ggot[d] \cup Sg!Excused(d)

\* The client has all up to its key, will when it takes an answer, and asks from
\* keys it has reached.
MemberOK(d) ==
  /\ 1..gkey[d] \subseteq Has(d)
  /\ \A i \in DOMAIN greq[d] : greq[d][i] <= gkey[d]
  /\ \A i \in DOMAIN gwt[d] : 1..gwt[d][i].end \subseteq Has(d) \cup gwt[d][i].ids

\* A list has the notification of a message, or one that stands for it.
Tells(list, id)  == \E i \in DOMAIN list : list[i].kind = "notify" /\ list[i].id = id
Covers(list, id) == \E i \in DOMAIN list : list[i].kind = "notify" /\ id <= list[i].id

\* A member has learned of a message, or will.
Asking(d, id) ==
  \/ id <= gkey[d] \/ id \in Sg!Excused(d)
  \/ \E i \in DOMAIN greq[d] : greq[d][i] < id
  \/ \E i \in DOMAIN gwt[d] : id <= gwt[d][i].end
OnServer(d, id) ==
  \/ Tells(gnet[GroupHomes[d]], id)
  \/ \E g \in Delivers : Tells(dt[GroupHomes[d]][g], id)
Announcing(id) == \E s \in Senders : handler[s] # None /\ handler[s].step = "publish" /\ handler[s].id = id
Learns(d, id) == Asking(d, id) \/ Covers(gmessages[d], id) \/ OnServer(d, id) \/ Announcing(id)

SuperInv ==
  /\ SuperTyped /\ HandlersOwn /\ AcksOwn
  /\ \A d \in Members : MemberOK(d)
  /\ \A d \in gconn : \A id \in 1..Len(gqueue) : Learns(d, id)

\* The constants of the instance.
LEMMA SuperGiven ==
  /\ MESSAGE_QUEUE_LIMIT \in Nat \ {0} /\ SyncLimit \in Nat \ {0} /\ None \notin GroupHandlers
  /\ \A s \in Senders : GroupHomes[s] \in Servers
  /\ \A d \in Members : GroupHomes[d] \in Servers
  /\ \A m \in 1..GroupMsgs : KindsInGroup[m] \subseteq {"client", "http"}
BY ConstantsAreBounds DEF Sg!SuperGroupAssumption, GroupHandlers

\* EnqueueNonBlockMessage keeps a part of the list.
LEMMA ShortenedKeeps ==
  ASSUME NEW list \in Seq(GroupItems)
  PROVE  Sg!Shortened(list) \in Seq(GroupItems)
<1> DEFINE L == MESSAGE_QUEUE_LIMIT
           n == Len(list)
           I == GroupItems
<1>1. L \in Nat /\ L >= 1 /\ n \in Nat BY SuperGiven
<1>2. list \in Seq(I) OBVIOUS
<1>3. CASE n > L
  <2>1. Sg!Shortened(list) = SubSeq(list, n - L + 1, n) BY <1>3 DEF Sg!Shortened
  <2>2. n - L + 1 \in 1..n BY <1>1, <1>3
  <2> HIDE DEF I
  <2>3. SubSeq(list, n - L + 1, n) \in Seq(I) BY <2>2, <1>1, <1>2
  <2> QED BY <2>1, <2>3 DEF I
<1>4. CASE ~(n > L)
  BY <1>4 DEF Sg!Shortened
<1> QED BY <1>3, <1>4

\* A list behind another tells what both tell.
LEMMA ConcatTells ==
  ASSUME NEW s \in Seq(GroupItems), NEW t \in Seq(GroupItems), NEW id
  PROVE  /\ s \o t \in Seq(GroupItems)
         /\ Tells(s, id) \/ Tells(t, id) => Tells(s \o t, id)
         /\ Covers(s, id) \/ Covers(t, id) => Covers(s \o t, id)
<1> DEFINE I == GroupItems
           u == s \o t
<1>1. s \in Seq(I) /\ t \in Seq(I) OBVIOUS
<1> HIDE DEF I
<1>2. /\ u \in Seq(I) /\ Len(u) = Len(s) + Len(t) /\ Len(s) \in Nat /\ Len(t) \in Nat
      /\ \A i \in 1..Len(s) : u[i] = s[i]
      /\ \A i \in 1..Len(t) : u[Len(s) + i] = t[i]
  BY <1>1, Dp!ConcatSays
<1>3. DOMAIN s = 1..Len(s) /\ DOMAIN t = 1..Len(t) /\ DOMAIN u = 1..Len(u) BY <1>1, <1>2
<1> HIDE DEF u
<1>4. \A i \in DOMAIN s : i \in DOMAIN u /\ u[i] = s[i] BY <1>2, <1>3
<1>5. \A i \in DOMAIN t : Len(s) + i \in DOMAIN u /\ u[Len(s) + i] = t[i] BY <1>2, <1>3
<1>6. Tells(s, id) \/ Tells(t, id) => Tells(u, id) BY <1>4, <1>5 DEF Tells
<1>7. Covers(s, id) \/ Covers(t, id) => Covers(u, id) BY <1>4, <1>5 DEF Covers
<1> QED BY <1>2, <1>6, <1>7 DEF u, I

\* What a list tells is told by its first element or by the others.
LEMMA TailTells ==
  ASSUME NEW s \in Seq(GroupItems), s # << >>, NEW id
  PROVE  /\ Tail(s) \in Seq(GroupItems) /\ <<Head(s)>> \in Seq(GroupItems)
         /\ Tells(s, id) => Tells(<<Head(s)>>, id) \/ Tells(Tail(s), id)
<1> DEFINE I == GroupItems
           u == Tail(s)
<1>1. s \in Seq(I) OBVIOUS
<1> HIDE DEF I
<1>2. /\ u \in Seq(I) /\ Len(u) = Len(s) - 1 /\ Head(s) = s[1] /\ s[1] \in I
      /\ Len(s) \in Nat \ {0} /\ \A i \in 1..Len(s) - 1 : u[i] = s[i + 1]
  BY <1>1, Dp!TailSays
<1>3. DOMAIN s = 1..Len(s) /\ DOMAIN u = 1..Len(u) BY <1>1, <1>2
<1> HIDE DEF u
<1>4. /\ <<Head(s)>> \in Seq(I) /\ DOMAIN <<Head(s)>> = {1} /\ <<Head(s)>>[1] = s[1] BY <1>2
<1>5. ASSUME NEW i \in DOMAIN s, s[i].kind = "notify", s[i].id = id
      PROVE  Tells(<<Head(s)>>, id) \/ Tells(u, id)
  <2>1. CASE i = 1 BY <2>1, <1>4, <1>5 DEF Tells
  <2>2. CASE i # 1
    <3>1. i - 1 \in DOMAIN u /\ u[i - 1] = s[i] BY <2>2, <1>2, <1>3
    <3> QED BY <3>1, <1>5 DEF Tells
  <2> QED BY <2>1, <2>2
<1>6. Tells(s, id) => Tells(<<Head(s)>>, id) \/ Tells(u, id) BY <1>5 DEF Tells
<1> QED BY <1>2, <1>4, <1>6 DEF u, I

\* DispatchMessageToGroup: a connected member on this server is told, or what it
\* is not told any more is excused.
LEMMA DispatchSays ==
  ASSUME SuperTyped, NEW s \in Servers, NEW items \in Seq(GroupItems),
         Sg!DispatchMessageToGroup(s, items)
  PROVE  /\ gmessages' \in [Members -> Seq(GroupItems)]
         /\ gexcused' \in [Members -> SUBSET [id : Nat, why : GroupReasons]]
         /\ \A d \in Members : gexcused[d] \subseteq gexcused'[d]
         /\ \A d \in Members : \A id \in 1..Len(gqueue) :
              Covers(gmessages[d], id) \/ (d \in Sg!Local(s) /\ Tells(items, id)) =>
                Covers(gmessages'[d], id) \/ \E e \in gexcused'[d] : e.id = id
<1>1. ASSUME NEW d \in Members
      PROVE  /\ gmessages'[d] = IF d \in Sg!Local(s) THEN Sg!Shortened(gmessages[d] \o items) ELSE gmessages[d]
             /\ gexcused'[d] = IF d \in Sg!Local(s) THEN gexcused[d] \cup Sg!Dropped(gmessages[d] \o items)
                                                    ELSE gexcused[d]
             /\ gmessages[d] \in Seq(GroupItems) /\ gexcused[d] \in SUBSET [id : Nat, why : GroupReasons]
  BY DEF Sg!DispatchMessageToGroup, SuperTyped
<1>2. gmessages' = [d \in Members |-> gmessages'[d]] /\ gexcused' = [d \in Members |-> gexcused'[d]]
  BY DEF Sg!DispatchMessageToGroup
<1>3. ASSUME NEW d \in Members
      PROVE  /\ gmessages[d] \o items \in Seq(GroupItems)
             /\ Sg!Shortened(gmessages[d] \o items) \in Seq(GroupItems)
  BY <1>1, ConcatTells, ShortenedKeeps
<1>4. Len(gqueue) \in Nat /\ DOMAIN gqueue = 1..Len(gqueue) BY DEF SuperTyped
<1>5. ASSUME NEW list PROVE Sg!Dropped(list) \in SUBSET [id : Nat, why : GroupReasons]
  <2> SUFFICES ASSUME NEW x \in Sg!Dropped(list) PROVE x \in [id : Nat, why : GroupReasons] OBVIOUS
  <2>1. PICK id \in DOMAIN gqueue : x = [id |-> id, why |-> "dropped"] BY DEF Sg!Dropped, Sg!Excuse
  <2> QED BY <2>1, <1>4 DEF GroupReasons
<1>6. ASSUME NEW list, NEW id \in 1..Len(gqueue), Covers(list, id)
      PROVE  Covers(Sg!Shortened(list), id) \/ \E e \in Sg!Dropped(list) : e.id = id
  <2> SUFFICES ASSUME ~Covers(Sg!Shortened(list), id) PROVE \E e \in Sg!Dropped(list) : e.id = id
    OBVIOUS
  <2>1. [id |-> id, why |-> "dropped"] \in Sg!Dropped(list)
    BY <1>4, <1>6 DEF Sg!Dropped, Sg!Excuse, Covers
  <2> QED BY <2>1
<1>7. ASSUME NEW d \in Members, NEW id \in 1..Len(gqueue),
             Covers(gmessages[d], id) \/ (d \in Sg!Local(s) /\ Tells(items, id))
      PROVE  Covers(gmessages'[d], id) \/ \E e \in gexcused'[d] : e.id = id
  <2>1. CASE d \in Sg!Local(s)
    <3>1. Tells(items, id) => Covers(items, id)
      <4>1. id <= id BY <1>4
      <4> QED BY <4>1 DEF Tells, Covers
    <3>2. Covers(gmessages[d] \o items, id) BY <1>1, <1>7, <3>1, ConcatTells
    <3> QED BY <1>1, <1>6, <2>1, <3>2
  <2>2. CASE d \notin Sg!Local(s) BY <1>1, <1>7, <2>2
  <2> QED BY <2>1, <2>2
<1>8. ASSUME NEW d \in Members
      PROVE  /\ gmessages'[d] \in Seq(GroupItems) /\ gexcused'[d] \in SUBSET [id : Nat, why : GroupReasons]
             /\ gexcused[d] \subseteq gexcused'[d]
  BY <1>1, <1>3, <1>5
<1> QED BY <1>2, <1>7, <1>8

\* Unheard: what is not told is excused.
LEMMA UnheardSays ==
  ASSUME SuperTyped, NEW s \in Servers, NEW items \in Seq(GroupItems), NEW why \in GroupReasons,
         Sg!Unheard(s, items, why)
  PROVE  /\ gexcused' \in [Members -> SUBSET [id : Nat, why : GroupReasons]]
         /\ \A d \in Members : gexcused[d] \subseteq gexcused'[d]
         /\ \A d \in Members : \A id : d \in Sg!Local(s) /\ Tells(items, id) =>
              \E e \in gexcused'[d] : e.id = id
<1> DEFINE X == Sg!Excuse({i.id : i \in Sg!ToSet(items)}, why)
<1>1. ASSUME NEW d \in Members
      PROVE  /\ gexcused'[d] = IF d \in Sg!Local(s) THEN gexcused[d] \cup X ELSE gexcused[d]
             /\ gexcused[d] \in SUBSET [id : Nat, why : GroupReasons]
  BY DEF Sg!Unheard, SuperTyped
<1>2. gexcused' = [d \in Members |-> gexcused'[d]]
  BY DEF Sg!Unheard
<1>3. \A i \in DOMAIN items : items[i] \in GroupItems OBVIOUS
<1>4. X \in SUBSET [id : Nat, why : GroupReasons]
  <2> SUFFICES ASSUME NEW x \in X PROVE x \in [id : Nat, why : GroupReasons] OBVIOUS
  <2>1. PICK i \in DOMAIN items : x = [id |-> items[i].id, why |-> why]
    BY DEF Sg!Excuse, Sg!ToSet
  <2>2. items[i].id \in Nat BY <1>3 DEF GroupItems
  <2> QED BY <2>1, <2>2
<1>5. ASSUME NEW id, Tells(items, id) PROVE \E e \in X : e.id = id
  <2>1. PICK i \in DOMAIN items : items[i].id = id BY <1>5 DEF Tells
  <2>2. [id |-> items[i].id, why |-> why] \in X BY DEF Sg!Excuse, Sg!ToSet
  <2> QED BY <2>1, <2>2
<1> HIDE DEF X
<1>6. ASSUME NEW d \in Members
      PROVE  /\ gexcused'[d] \in SUBSET [id : Nat, why : GroupReasons] /\ gexcused[d] \subseteq gexcused'[d]
             /\ \A id : d \in Sg!Local(s) /\ Tells(items, id) => \E e \in gexcused'[d] : e.id = id
  BY <1>1, <1>4, <1>5
<1> QED BY <1>2, <1>6

\* The counts of messages and acknowledgements do not depend on the devices.
LEMMA OwnKept ==
  ASSUME SuperInv, UNCHANGED <<gqueue, handler, gsent, gacked>>,
         \A d \in Members : gexcused[d] \subseteq gexcused'[d]
  PROVE  HandlersOwn' /\ AcksOwn'
<1>1. HandlersOwn' BY DEF SuperInv, HandlersOwn
<1>2. AckTellsKey'
  <2> SUFFICES ASSUME NEW a \in gacked
               PROVE  \/ a.id \in DOMAIN gqueue /\ gqueue[a.id] = a.msg
                      \/ /\ a.id = 0
                         /\ \A id \in DOMAIN gqueue : gqueue[id] = a.msg =>
                              \A d \in Members : [id |-> id, why |-> "untold"] \in gexcused'[d]
    BY DEF AckTellsKey, Sg!AckTellsKey
  <2>1. \/ a.id \in DOMAIN gqueue /\ gqueue[a.id] = a.msg
        \/ /\ a.id = 0
           /\ \A id \in DOMAIN gqueue : gqueue[id] = a.msg =>
                \A d \in Members : [id |-> id, why |-> "untold"] \in gexcused[d]
    BY DEF SuperInv, AcksOwn, AckTellsKey, Sg!AckTellsKey
  <2> QED BY <2>1
<1> QED BY <1>1, <1>2 DEF SuperInv, AcksOwn

\* A client that does not change stays in order when only more is excused.
LEMMA MemberKept ==
  ASSUME NEW d \in Members, MemberOK(d), gexcused[d] \subseteq gexcused'[d],
         greq'[d] = greq[d], gwt'[d] = gwt[d], gkey'[d] = gkey[d], ggot'[d] = ggot[d]
  PROVE  MemberOK(d)' /\ \A id : Asking(d, id) => Asking(d, id)'
<1>1. Sg!Excused(d) \subseteq Sg!Excused(d)' /\ Has(d) \subseteq Has(d)' BY DEF Has, Sg!Excused
<1>2. MemberOK(d)' BY <1>1 DEF MemberOK
<1>3. \A id : Asking(d, id) => Asking(d, id)' BY <1>1 DEF Asking
<1> QED BY <1>2, <1>3

\* A step in which servers pass on what there is to tell.
LEMMA ServerStep ==
  ASSUME SuperInv, UNCHANGED <<gqueue, handler, gsent, gacked, gconn, gwt, greq, gkey, ggot>>,
         gnet' \in [Servers -> Seq(GroupItems)], dt' \in [Servers -> [Delivers -> Seq(GroupItems)]],
         gmessages' \in [Members -> Seq(GroupItems)],
         gexcused' \in [Members -> SUBSET [id : Nat, why : GroupReasons]],
         \A d \in Members : gexcused[d] \subseteq gexcused'[d],
         \A d \in gconn : \A id \in 1..Len(gqueue) :
           Covers(gmessages[d], id) \/ OnServer(d, id) =>
             Covers(gmessages'[d], id) \/ OnServer(d, id)' \/ \E e \in gexcused'[d] : e.id = id
  PROVE  SuperInv'
<1>1. SuperTyped' BY DEF SuperInv, SuperTyped
<1>2. HandlersOwn' /\ AcksOwn' BY OwnKept
<1>3. ASSUME NEW d \in Members PROVE MemberOK(d)' /\ \A id : Asking(d, id) => Asking(d, id)'
  BY MemberKept DEF SuperInv
<1>4. ASSUME NEW d \in gconn, NEW id \in 1..Len(gqueue) PROVE Learns(d, id)'
  <2>1. d \in Members BY DEF SuperInv, SuperTyped
  <2>2. Asking(d, id) \/ Covers(gmessages[d], id) \/ OnServer(d, id) \/ Announcing(id)
    BY DEF SuperInv, Learns
  <2>3. Announcing(id) => Announcing(id)' BY DEF Announcing
  <2>4. (\E e \in gexcused'[d] : e.id = id) => Asking(d, id)' BY DEF Asking, Sg!Excused
  <2> QED BY <1>3, <2>1, <2>2, <2>3, <2>4 DEF Learns
<1> QED BY <1>1, <1>2, <1>3, <1>4 DEF SuperInv

\* DispatchGroupMessage: the notification reaches the devices, a deliver, or is lost.
LEMMA DispatchGroupInv ==
  ASSUME SuperInv, NEW s \in Servers, Sg!DispatchGroupMessage(s)
  PROVE  SuperInv'
<1> DEFINE item == <<Head(gnet[s])>>
<1>1. /\ gnet[s] # << >> /\ gnet' = [gnet EXCEPT ![s] = Tail(@)]
      /\ UNCHANGED <<gqueue, handler, gsent, gacked, gconn, gwt, greq, gkey, ggot>>
  BY DEF Sg!DispatchGroupMessage, Sg!sendVars, Sg!connVars, Sg!clientVars
<1>2. PICK g \in Delivers :
        \/ Sg!DispatchMessageToGroup(s, item) /\ UNCHANGED dt
        \/ dt' = [dt EXCEPT ![s][g] = @ \o item] /\ UNCHANGED <<gmessages, gexcused>>
        \/ Sg!Unheard(s, item, "not loaded") /\ UNCHANGED <<dt, gmessages>>
  BY DEF Sg!DispatchGroupMessage
<1>3. SuperTyped BY DEF SuperInv
<1>4. gnet[s] \in Seq(GroupItems) /\ \A t \in Servers : gnet'[t] = IF t = s THEN Tail(gnet[s]) ELSE gnet[t]
  BY <1>1, <1>3 DEF SuperTyped
<1>5. Tail(gnet[s]) \in Seq(GroupItems) /\ item \in Seq(GroupItems) BY <1>1, <1>4, TailTells
<1>6. gnet' \in [Servers -> Seq(GroupItems)] BY <1>1, <1>3, <1>5 DEF SuperTyped
<1> HIDE DEF item
<1>7. ASSUME NEW t \in Servers, NEW id, Tells(gnet[t], id)
      PROVE  Tells(gnet'[t], id) \/ (t = s /\ Tells(item, id))
  BY <1>1, <1>4, <1>7, TailTells DEF item
<1>8. \A d \in gconn : d \in Members /\ GroupHomes[d] \in Servers /\ (GroupHomes[d] = s => d \in Sg!Local(s))
  BY <1>3, SuperGiven DEF SuperTyped, Sg!Local
<1>9. CASE Sg!DispatchMessageToGroup(s, item) /\ UNCHANGED dt
  <2>1. ASSUME NEW d \in gconn, NEW id \in 1..Len(gqueue), Covers(gmessages[d], id) \/ OnServer(d, id)
        PROVE  Covers(gmessages'[d], id) \/ OnServer(d, id)' \/ \E e \in gexcused'[d] : e.id = id
    <3>1. Covers(gmessages[d], id) \/ (d \in Sg!Local(s) /\ Tells(item, id)) =>
            Covers(gmessages'[d], id) \/ \E e \in gexcused'[d] : e.id = id
      BY <1>3, <1>5, <1>8, <1>9, DispatchSays
    <3>2. CASE Covers(gmessages[d], id) BY <3>1, <3>2
    <3>3. CASE Tells(gnet[GroupHomes[d]], id) BY <1>7, <1>8, <3>1, <3>3 DEF OnServer
    <3>4. CASE \E h \in Delivers : Tells(dt[GroupHomes[d]][h], id) BY <1>9, <3>4 DEF OnServer
    <3> QED BY <2>1, <3>2, <3>3, <3>4 DEF OnServer
  <2>2. /\ gmessages' \in [Members -> Seq(GroupItems)]
        /\ gexcused' \in [Members -> SUBSET [id : Nat, why : GroupReasons]]
        /\ \A d \in Members : gexcused[d] \subseteq gexcused'[d]
    BY <1>3, <1>5, <1>9, DispatchSays
  <2>3. dt' \in [Servers -> [Delivers -> Seq(GroupItems)]] BY <1>3, <1>9 DEF SuperTyped
  <2> QED BY <1>1, <1>6, <2>1, <2>2, <2>3, ServerStep
<1>10. CASE dt' = [dt EXCEPT ![s][g] = @ \o item] /\ UNCHANGED <<gmessages, gexcused>>
  <2>1. dt[s] \in [Delivers -> Seq(GroupItems)] /\ dt[s][g] \in Seq(GroupItems) BY <1>3 DEF SuperTyped
  <2>2. dt[s][g] \o item \in Seq(GroupItems) BY <1>5, <2>1, ConcatTells
  <2>3. dt' \in [Servers -> [Delivers -> Seq(GroupItems)]] BY <1>3, <1>10, <2>2 DEF SuperTyped
  <2>4. dt'[s][g] = dt[s][g] \o item
    BY <1>3, <1>10 DEF SuperTyped
  <2>5. \A t \in Servers, h \in Delivers : (t # s \/ h # g) => dt'[t][h] = dt[t][h]
    BY <1>3, <1>10 DEF SuperTyped
  <2>6. ASSUME NEW t \in Servers, NEW h \in Delivers, NEW id, Tells(dt[t][h], id) PROVE Tells(dt'[t][h], id)
    <3>1. CASE t = s /\ h = g BY <1>5, <2>1, <2>4, <2>6, <3>1, ConcatTells
    <3>2. CASE ~(t = s /\ h = g) BY <2>5, <2>6, <3>2
    <3> QED BY <3>1, <3>2
  <2>7. ASSUME NEW id, Tells(item, id) PROVE Tells(dt'[s][g], id)
    BY <1>5, <2>1, <2>4, <2>7, ConcatTells
  <2>8. ASSUME NEW d \in gconn, NEW id \in 1..Len(gqueue), OnServer(d, id)
        PROVE  OnServer(d, id)'
    BY <1>7, <1>8, <2>6, <2>7, <2>8 DEF OnServer
  <2>9. \A d \in Members : gexcused[d] \subseteq gexcused'[d] BY <1>10
  <2>10. /\ gmessages' \in [Members -> Seq(GroupItems)]
         /\ gexcused' \in [Members -> SUBSET [id : Nat, why : GroupReasons]]
    BY <1>3, <1>10 DEF SuperTyped
  <2>11. \A d \in gconn : gmessages'[d] = gmessages[d] BY <1>10
  <2> QED BY <1>1, <1>6, <2>3, <2>8, <2>9, <2>10, <2>11, ServerStep
<1>11. CASE Sg!Unheard(s, item, "not loaded") /\ UNCHANGED <<dt, gmessages>>
  <2>0. "not loaded" \in GroupReasons BY DEF GroupReasons
  <2>1. /\ gexcused' \in [Members -> SUBSET [id : Nat, why : GroupReasons]]
        /\ \A d \in Members : gexcused[d] \subseteq gexcused'[d]
        /\ \A d \in Members : \A id : d \in Sg!Local(s) /\ Tells(item, id) => \E e \in gexcused'[d] : e.id = id
    BY <1>3, <1>5, <1>11, <2>0, UnheardSays
  <2>2. ASSUME NEW d \in gconn, NEW id \in 1..Len(gqueue), OnServer(d, id)
        PROVE  OnServer(d, id)' \/ \E e \in gexcused'[d] : e.id = id
    BY <1>7, <1>8, <1>11, <2>1, <2>2 DEF OnServer
  <2>3. gmessages' \in [Members -> Seq(GroupItems)] /\ dt' \in [Servers -> [Delivers -> Seq(GroupItems)]]
    BY <1>3, <1>11 DEF SuperTyped
  <2>4. \A d \in gconn : gmessages'[d] = gmessages[d] BY <1>11
  <2> QED BY <1>1, <1>6, <2>1, <2>2, <2>3, <2>4, ServerStep
<1> QED BY <1>2, <1>9, <1>10, <1>11

\* DispatchMessage of a deliver: the same of what waited for the group.
LEMMA DispatchMessageInv ==
  ASSUME SuperInv, NEW s \in Servers, NEW g \in Delivers, Sg!DispatchMessage(s, g)
  PROVE  SuperInv'
<1> DEFINE item == <<Head(dt[s][g])>>
<1>1. /\ dt[s][g] # << >> /\ dt' = [dt EXCEPT ![s][g] = Tail(@)]
      /\ UNCHANGED <<gqueue, handler, gsent, gacked, gconn, gwt, greq, gkey, ggot, gnet>>
  BY DEF Sg!DispatchMessage, Sg!sendVars, Sg!connVars, Sg!clientVars
<1>2. \/ Sg!DispatchMessageToGroup(s, item)
      \/ Sg!Unheard(s, item, "not loaded") /\ UNCHANGED gmessages
  BY DEF Sg!DispatchMessage
<1>3. SuperTyped BY DEF SuperInv
<1>4. dt[s] \in [Delivers -> Seq(GroupItems)] /\ dt[s][g] \in Seq(GroupItems) BY <1>3 DEF SuperTyped
<1>5. Tail(dt[s][g]) \in Seq(GroupItems) /\ item \in Seq(GroupItems) BY <1>1, <1>4, TailTells
<1>6. dt' \in [Servers -> [Delivers -> Seq(GroupItems)]] BY <1>1, <1>3, <1>5 DEF SuperTyped
<1>7. gnet' \in [Servers -> Seq(GroupItems)] BY <1>1, <1>3 DEF SuperTyped
<1>8. dt'[s][g] = Tail(dt[s][g]) /\ \A t \in Servers, h \in Delivers : (t # s \/ h # g) => dt'[t][h] = dt[t][h]
  BY <1>1, <1>3 DEF SuperTyped
<1> HIDE DEF item
<1>9. ASSUME NEW t \in Servers, NEW h \in Delivers, NEW id, Tells(dt[t][h], id)
      PROVE  Tells(dt'[t][h], id) \/ (t = s /\ Tells(item, id))
  <2>1. CASE t = s /\ h = g BY <1>1, <1>4, <1>8, <1>9, <2>1, TailTells DEF item
  <2>2. CASE ~(t = s /\ h = g) BY <1>8, <1>9, <2>2
  <2> QED BY <2>1, <2>2
<1>10. \A d \in gconn : d \in Members /\ GroupHomes[d] \in Servers /\ (GroupHomes[d] = s => d \in Sg!Local(s))
  BY <1>3, SuperGiven DEF SuperTyped, Sg!Local
<1>11. CASE Sg!DispatchMessageToGroup(s, item)
  <2>1. ASSUME NEW d \in gconn, NEW id \in 1..Len(gqueue), Covers(gmessages[d], id) \/ OnServer(d, id)
        PROVE  Covers(gmessages'[d], id) \/ OnServer(d, id)' \/ \E e \in gexcused'[d] : e.id = id
    <3>1. Covers(gmessages[d], id) \/ (d \in Sg!Local(s) /\ Tells(item, id)) =>
            Covers(gmessages'[d], id) \/ \E e \in gexcused'[d] : e.id = id
      BY <1>3, <1>5, <1>10, <1>11, DispatchSays
    <3>2. CASE Covers(gmessages[d], id) BY <3>1, <3>2
    <3>3. CASE Tells(gnet[GroupHomes[d]], id) BY <1>1, <3>3 DEF OnServer
    <3>4. CASE \E h \in Delivers : Tells(dt[GroupHomes[d]][h], id) BY <1>9, <1>10, <3>1, <3>4 DEF OnServer
    <3> QED BY <2>1, <3>2, <3>3, <3>4 DEF OnServer
  <2>2. /\ gmessages' \in [Members -> Seq(GroupItems)]
        /\ gexcused' \in [Members -> SUBSET [id : Nat, why : GroupReasons]]
        /\ \A d \in Members : gexcused[d] \subseteq gexcused'[d]
    BY <1>3, <1>5, <1>11, DispatchSays
  <2> QED BY <1>1, <1>6, <1>7, <2>1, <2>2, ServerStep
<1>12. CASE Sg!Unheard(s, item, "not loaded") /\ UNCHANGED gmessages
  <2>0. "not loaded" \in GroupReasons BY DEF GroupReasons
  <2>1. /\ gexcused' \in [Members -> SUBSET [id : Nat, why : GroupReasons]]
        /\ \A d \in Members : gexcused[d] \subseteq gexcused'[d]
        /\ \A d \in Members : \A id : d \in Sg!Local(s) /\ Tells(item, id) => \E e \in gexcused'[d] : e.id = id
    BY <1>3, <1>5, <1>12, <2>0, UnheardSays
  <2>2. ASSUME NEW d \in gconn, NEW id \in 1..Len(gqueue), OnServer(d, id)
        PROVE  OnServer(d, id)' \/ \E e \in gexcused'[d] : e.id = id
    BY <1>1, <1>9, <1>10, <2>1, <2>2 DEF OnServer
  <2>3. gmessages' \in [Members -> Seq(GroupItems)] BY <1>3, <1>12 DEF SuperTyped
  <2>4. \A d \in gconn : gmessages'[d] = gmessages[d] BY <1>12
  <2> QED BY <1>1, <1>6, <1>7, <2>1, <2>2, <2>3, <2>4, ServerStep
<1> QED BY <1>2, <1>11, <1>12

\* What the properties need of a list that gets another element.
LEMMA PushSays ==
  ASSUME NEW S, NEW s \in Seq(S), NEW x \in S
  PROVE  /\ Append(s, x) \in Seq(S) /\ DOMAIN s = 1..Len(s) /\ Len(s) \in Nat
         /\ DOMAIN Append(s, x) = 1..Len(s) + 1
         /\ Append(s, x)[Len(s) + 1] = x /\ \A i \in 1..Len(s) : Append(s, x)[i] = s[i]
BY Dp!AppendSays

\* Position i of a queue is position i - 1 of its tail.
LEMMA Shift ==
  ASSUME NEW n \in Nat
  PROVE  /\ \A i \in 1..n : i # 1 => i - 1 \in 1..n - 1 /\ (i - 1) + 1 = i
         /\ \A i \in 1..n - 1 : i + 1 \in 1..n
OBVIOUS

\* Begin: a new message, which nobody has a handler or an acknowledgement of.
LEMMA BeginInv ==
  ASSUME SuperInv, NEW s \in Senders, Sg!Begin(s)
  PROVE  SuperInv'
<1>1. /\ handler[s] = None /\ gsent < GroupMsgs /\ gsent' = gsent + 1
      /\ UNCHANGED <<gqueue, gacked, gnet, dt, gconn, gwt, gmessages, greq, gkey, ggot, gexcused>>
  BY DEF Sg!Begin, Sg!connVars, Sg!clientVars
<1>2. SuperTyped BY DEF SuperInv
<1>3. gsent \in Nat /\ GroupMsgs \in Nat /\ gsent + 1 \in 1..GroupMsgs
  BY <1>1, <1>2, ConstantsAreBounds DEF SuperTyped, Sg!SuperGroupAssumption
<1>4. \/ UNCHANGED handler
      \/ \E k \in {"client", "http"} :
           handler' = [handler EXCEPT ![s] = [step |-> "save", kind |-> k, msg |-> gsent + 1, id |-> 0]]
  <2>1. KindsInGroup[gsent + 1] \subseteq {"client", "http"} BY <1>3, SuperGiven
  <2> QED BY <2>1 DEF Sg!Begin
<1>5. /\ handler' \in [Senders -> GroupHandlers \cup {None}]
      /\ \A t \in Senders : t # s => handler'[t] = handler[t]
      /\ \/ handler'[s] = None
         \/ /\ handler'[s] # None /\ handler'[s].step = "save" /\ handler'[s].msg = gsent + 1
  <2>1. CASE UNCHANGED handler BY <1>1, <1>2, <2>1 DEF SuperTyped
  <2>2. ASSUME NEW k \in {"client", "http"},
               handler' = [handler EXCEPT ![s] = [step |-> "save", kind |-> k, msg |-> gsent + 1, id |-> 0]]
        PROVE  <1>5!1 /\ <1>5!2 /\ <1>5!3
    <3>1. [step |-> "save", kind |-> k, msg |-> gsent + 1, id |-> 0] \in GroupHandlers
      BY <1>3 DEF GroupHandlers
    <3> QED BY <1>2, <2>2, <3>1, SuperGiven DEF SuperTyped
  <2> QED BY <1>4, <2>1, <2>2
<1>6. SuperTyped' BY <1>1, <1>2, <1>3, <1>5 DEF SuperTyped
<1>7. \A t \in Senders : handler[t] # None => handler[t].msg \in 1..gsent
  BY DEF SuperInv, HandlersOwn
<1>8. /\ \A i \in DOMAIN gqueue : gqueue[i] <= gsent /\ gqueue[i] \in Nat
      /\ \A a \in gacked : a.msg \in 1..gsent
  BY <1>2 DEF SuperInv, AcksOwn, SuperTyped
<1>9. HandlersOwn'
  <2> SUFFICES ASSUME NEW t \in Senders, handler'[t] # None
               PROVE  /\ handler'[t].msg \in 1..gsent'
                      /\ \A u \in Senders : u # t /\ handler'[u] # None => handler'[u].msg # handler'[t].msg
                      /\ \A a \in gacked' : a.msg # handler'[t].msg
                      /\ handler'[t].step = "save" => \A i \in DOMAIN gqueue' : gqueue'[i] # handler'[t].msg
                      /\ handler'[t].step = "publish" =>
                           handler'[t].id \in DOMAIN gqueue' /\ gqueue'[handler'[t].id] = handler'[t].msg
    BY DEF HandlersOwn
  <2>1. CASE t = s
    <3>1. \A u \in Senders : u # t /\ handler'[u] # None => handler'[u].msg # gsent + 1
      BY <1>3, <1>5, <1>7, <2>1
    <3>2. \A a \in gacked' : a.msg # gsent + 1 BY <1>1, <1>3, <1>8
    <3>3. \A i \in DOMAIN gqueue' : gqueue'[i] # gsent + 1 BY <1>1, <1>3, <1>8
    <3> QED BY <1>1, <1>3, <1>5, <2>1, <3>1, <3>2, <3>3
  <2>2. CASE t # s
    <3>1. handler'[t] = handler[t] /\ handler[t].msg \in 1..gsent BY <1>5, <1>7, <2>2
    <3>2. \A u \in Senders : u # t /\ handler'[u] # None => handler'[u].msg # handler[t].msg
      <4>1. ASSUME NEW u \in Senders, u # t, handler'[u] # None PROVE handler'[u].msg # handler[t].msg
        <5>1. CASE u = s BY <1>3, <1>5, <3>1, <4>1, <5>1
        <5>2. CASE u # s BY <1>5, <2>2, <4>1, <5>2 DEF SuperInv, HandlersOwn
        <5> QED BY <5>1, <5>2
      <4> QED BY <4>1
    <3>3. handler[t].msg \in 1..gsent' BY <1>1, <1>3, <3>1
    <3>4. /\ \A a \in gacked : a.msg # handler[t].msg
          /\ handler[t].step = "save" => \A i \in DOMAIN gqueue : gqueue[i] # handler[t].msg
          /\ handler[t].step = "publish" => handler[t].id \in DOMAIN gqueue /\ gqueue[handler[t].id] = handler[t].msg
      BY <3>1 DEF SuperInv, HandlersOwn
    <3> QED BY <1>1, <3>1, <3>2, <3>3, <3>4
  <2> QED BY <2>1, <2>2
<1>10. AcksOwn'
  <2>1. AckTellsKey' BY <1>1 DEF SuperInv, AcksOwn, AckTellsKey, Sg!AckTellsKey
  <2>2. \A i \in DOMAIN gqueue' : gqueue'[i] <= gsent' BY <1>1, <1>3, <1>8
  <2>3. \A a \in gacked' : a.msg \in 1..gsent' BY <1>1, <1>3, <1>8
  <2> QED BY <2>1, <2>2, <2>3 DEF AcksOwn
<1>11. ASSUME NEW d \in Members PROVE MemberOK(d)' /\ \A id : Asking(d, id) => Asking(d, id)'
  BY <1>1, MemberKept DEF SuperInv
<1>12. ASSUME NEW d \in gconn', NEW id \in 1..Len(gqueue') PROVE Learns(d, id)'
  <2>1. d \in Members /\ Learns(d, id) BY <1>1, <1>2 DEF SuperInv, SuperTyped
  <2>2. Announcing(id) => Announcing(id)' BY <1>1, <1>5 DEF Announcing
  <2>3. OnServer(d, id) => OnServer(d, id)' BY <1>1 DEF OnServer
  <2> QED BY <1>1, <1>11, <2>1, <2>2, <2>3 DEF Learns
<1> QED BY <1>6, <1>9, <1>10, <1>11, <1>12 DEF SuperInv

\* Of the handlers of others, none works on the message of one.
LEMMA OthersKept ==
  ASSUME SuperInv, NEW s \in Senders, handler[s] # None, NEW t \in Senders, t # s, handler[t] # None,
         gqueue' = gqueue \/ gqueue' = Append(gqueue, handler[s].msg),
         gacked' \subseteq gacked \cup {[msg |-> handler[s].msg, id |-> n] : n \in Nat}
  PROVE  /\ handler[t].msg \in 1..gsent /\ handler[t].msg # handler[s].msg
         /\ \A a \in gacked' : a.msg # handler[t].msg
         /\ handler[t].step = "save" => \A i \in DOMAIN gqueue' : gqueue'[i] # handler[t].msg
         /\ handler[t].step = "publish" => handler[t].id \in DOMAIN gqueue' /\ gqueue'[handler[t].id] = handler[t].msg
<1>1. /\ handler[t].msg \in 1..gsent /\ handler[t].msg # handler[s].msg
      /\ \A a \in gacked : a.msg # handler[t].msg
      /\ handler[t].step = "save" => \A i \in DOMAIN gqueue : gqueue[i] # handler[t].msg
      /\ handler[t].step = "publish" => handler[t].id \in DOMAIN gqueue /\ gqueue[handler[t].id] = handler[t].msg
  BY DEF SuperInv, HandlersOwn
<1>2. \A a \in gacked' : a.msg # handler[t].msg BY <1>1
<1>3. gqueue \in Seq(Nat) /\ handler[s].msg \in Nat
  BY DEF SuperInv, SuperTyped, HandlersOwn
<1>4. CASE gqueue' = gqueue BY <1>1, <1>2, <1>4
<1>5. CASE gqueue' = Append(gqueue, handler[s].msg)
  <2>1. /\ DOMAIN gqueue = 1..Len(gqueue) /\ Len(gqueue) \in Nat /\ DOMAIN gqueue' = 1..Len(gqueue) + 1
        /\ gqueue'[Len(gqueue) + 1] = handler[s].msg /\ \A i \in 1..Len(gqueue) : gqueue'[i] = gqueue[i]
    BY <1>3, <1>5, PushSays
  <2>2. \A i \in DOMAIN gqueue' : i = Len(gqueue) + 1 \/ i \in DOMAIN gqueue BY <2>1
  <2>3. DOMAIN gqueue \subseteq DOMAIN gqueue' BY <2>1
  <2> QED BY <1>1, <1>2, <2>1, <2>2, <2>3
<1> QED BY <1>4, <1>5

\* SaveGroupMessage: what is saved will be published, or nobody is told of it.
LEMMA SaveGroupMessageInv ==
  ASSUME SuperInv, NEW s \in Senders, Sg!SaveGroupMessage(s)
  PROVE  SuperInv'
<1> DEFINE N == Len(gqueue)
           m == handler[s].msg
           saved == gqueue' = Append(gqueue, m)
           next == [handler EXCEPT ![s] = Sg!ToPublish(handler[s], N + 1)]
           untold == [id |-> N + 1, why |-> "untold"]
<1>1. /\ handler[s] # None /\ handler[s].step = "save"
      /\ UNCHANGED <<gsent, gnet, dt, gconn, gwt, gmessages, greq, gkey, ggot>>
      /\ \/ saved /\ UNCHANGED <<gacked, gexcused>> /\ handler' = next
         \/ /\ Sg!Finished(s, 0)
            /\ \/ UNCHANGED <<gqueue, gexcused>>
               \/ saved /\ gexcused' = [d \in Members |-> gexcused[d] \cup {untold}]
  BY DEF Sg!SaveGroupMessage, Sg!At, Sg!Saved, Sg!Excuse, Sg!connVars, Sg!clientVars
<1>2. SuperTyped BY DEF SuperInv
<1>3. /\ m \in Nat /\ m \in 1..gsent /\ N \in Nat /\ gqueue \in Seq(Nat) /\ gsent \in Nat
      /\ handler[s] \in GroupHandlers /\ \A i \in DOMAIN gqueue : gqueue[i] # m
      /\ \A a \in gacked : a.msg # m
  BY <1>1, <1>2 DEF SuperInv, SuperTyped, HandlersOwn
<1> HIDE DEF m, N
<1>4. ASSUME saved
      PROVE  /\ gqueue' \in Seq(Nat) /\ DOMAIN gqueue = 1..N /\ DOMAIN gqueue' = 1..N + 1
             /\ Len(gqueue') = N + 1
             /\ gqueue'[N + 1] = m /\ \A i \in 1..N : gqueue'[i] = gqueue[i]
  BY <1>3, <1>4, PushSays, Dp!AppendSays DEF N
<1>5. gqueue' = gqueue \/ saved BY <1>1
<1>6. gqueue' \in Seq(Nat) BY <1>3, <1>4, <1>5
<1>7. /\ \A d \in Members : gexcused[d] \subseteq gexcused'[d]
      /\ gexcused' \in [Members -> SUBSET [id : Nat, why : GroupReasons]]
  <2>1. untold \in [id : Nat, why : GroupReasons] BY <1>3 DEF GroupReasons
  <2> QED BY <1>1, <1>2, <2>1 DEF SuperTyped
<1>8. /\ \A t \in Senders : t # s => handler'[t] = handler[t]
      /\ handler' \in [Senders -> GroupHandlers \cup {None}]
      /\ \/ /\ handler'[s] = None
            /\ \/ UNCHANGED <<gqueue, gexcused>>
               \/ saved /\ gexcused' = [d \in Members |-> gexcused[d] \cup {untold}]
         \/ /\ saved /\ gacked' = gacked /\ handler'[s] # None
            /\ handler'[s].step = "publish" /\ handler'[s].id = N + 1 /\ handler'[s].msg = m
  <2>1. CASE saved /\ UNCHANGED <<gacked, gexcused>> /\ handler' = next
    <3> DEFINE h == handler[s]
    <3>1. h \in [step : {"save", "publish"}, kind : {"client", "http"}, msg : Nat, id : Nat]
      BY <1>3 DEF GroupHandlers
    <3>2. handler' = [handler EXCEPT ![s] = [step |-> "publish", kind |-> h.kind, msg |-> h.msg, id |-> N + 1]]
      BY <2>1 DEF Sg!ToPublish
    <3>3. [step |-> "publish", kind |-> h.kind, msg |-> h.msg, id |-> N + 1] \in GroupHandlers
      BY <1>3, <3>1 DEF GroupHandlers
    <3> QED BY <1>2, <2>1, <3>2, <3>3, SuperGiven DEF SuperTyped, m
  <2>2. CASE /\ Sg!Finished(s, 0)
             /\ \/ UNCHANGED <<gqueue, gexcused>>
                \/ saved /\ gexcused' = [d \in Members |-> gexcused[d] \cup {untold}]
    <3>1. /\ \A t \in Senders : t # s => handler'[t] = handler[t]
          /\ handler' \in [Senders -> GroupHandlers \cup {None}] /\ handler'[s] = None
      BY <1>2, <2>2 DEF SuperTyped, Sg!Finished
    <3> QED BY <2>2, <3>1
  <2> QED BY <1>1, <2>1, <2>2
<1>9. /\ gacked' = gacked \/ gacked' = gacked \cup {[msg |-> m, id |-> 0]}
      /\ handler'[s] # None => gacked' = gacked
  <2>1. CASE Sg!Finished(s, 0)
    <3>1. handler'[s] = None BY <1>2, <2>1 DEF SuperTyped, Sg!Finished
    <3> QED BY <2>1, <3>1 DEF Sg!Finished, m
  <2> QED BY <1>1, <2>1
<1>10. SuperTyped' BY <1>1, <1>2, <1>6, <1>7, <1>8 DEF SuperTyped
<1>11. HandlersOwn'
  <2> SUFFICES ASSUME NEW t \in Senders, handler'[t] # None
               PROVE  /\ handler'[t].msg \in 1..gsent'
                      /\ \A u \in Senders : u # t /\ handler'[u] # None => handler'[u].msg # handler'[t].msg
                      /\ \A a \in gacked' : a.msg # handler'[t].msg
                      /\ handler'[t].step = "save" => \A i \in DOMAIN gqueue' : gqueue'[i] # handler'[t].msg
                      /\ handler'[t].step = "publish" =>
                           handler'[t].id \in DOMAIN gqueue' /\ gqueue'[handler'[t].id] = handler'[t].msg
    BY DEF HandlersOwn
  <2>1. gacked' \subseteq gacked \cup {[msg |-> m, id |-> n] : n \in Nat} BY <1>9
  <2>2. \A u \in Senders : handler'[u] # None => handler'[u].msg = handler[u].msg /\ handler[u] # None
    BY <1>1, <1>8 DEF m
  <2>3. \A u \in Senders : u # t /\ handler'[u] # None => handler'[u].msg # handler'[t].msg
    BY <2>2 DEF SuperInv, HandlersOwn
  <2>4. CASE t = s
    <3>1. /\ saved /\ gacked' = gacked /\ handler'[s].step = "publish" /\ handler'[s].id = N + 1
          /\ handler'[s].msg = m
      BY <1>8, <2>4
    <3>2. N + 1 \in DOMAIN gqueue' /\ gqueue'[N + 1] = m BY <1>3, <1>4, <3>1
    <3> QED BY <1>1, <1>3, <2>3, <2>4, <3>1, <3>2
  <2>5. CASE t # s
    <3>1. handler'[t] = handler[t] BY <1>8, <2>5
    <3>2. /\ handler[t].msg \in 1..gsent /\ \A a \in gacked' : a.msg # handler[t].msg
          /\ handler[t].step = "save" => \A i \in DOMAIN gqueue' : gqueue'[i] # handler[t].msg
          /\ handler[t].step = "publish" =>
               handler[t].id \in DOMAIN gqueue' /\ gqueue'[handler[t].id] = handler[t].msg
      BY <1>1, <1>5, <2>1, <2>5, <3>1, OthersKept DEF m
    <3> QED BY <1>1, <2>3, <3>1, <3>2
  <2> QED BY <2>4, <2>5
<1>12. AcksOwn'
  <2>1. \A i \in DOMAIN gqueue' : gqueue'[i] <= gsent'
    <3>1. \A i \in DOMAIN gqueue : gqueue[i] <= gsent BY DEF SuperInv, AcksOwn
    <3>2. CASE gqueue' = gqueue BY <1>1, <3>1, <3>2
    <3>3. CASE saved
      <4>1. \A i \in DOMAIN gqueue' : i = N + 1 \/ i \in 1..N BY <1>3, <1>4, <3>3
      <4> QED BY <1>1, <1>3, <1>4, <3>1, <3>3, <4>1
    <3> QED BY <1>5, <3>2, <3>3
  <2>2. \A a \in gacked' : a.msg \in 1..gsent'
    <3>1. \A a \in gacked : a.msg \in 1..gsent BY DEF SuperInv, AcksOwn
    <3> QED BY <1>1, <1>3, <1>9, <3>1
  <2>3. ASSUME NEW a \in gacked'
        PROVE  \/ a.id \in DOMAIN gqueue' /\ gqueue'[a.id] = a.msg
               \/ /\ a.id = 0
                  /\ \A id \in DOMAIN gqueue' : gqueue'[id] = a.msg =>
                       \A d \in Members : [id |-> id, why |-> "untold"] \in gexcused'[d]
    <3>1. CASE a \in gacked
      <4>1. \/ a.id \in DOMAIN gqueue /\ gqueue[a.id] = a.msg
            \/ /\ a.id = 0
               /\ \A id \in DOMAIN gqueue : gqueue[id] = a.msg =>
                    \A d \in Members : [id |-> id, why |-> "untold"] \in gexcused[d]
        BY <3>1 DEF SuperInv, AcksOwn, AckTellsKey, Sg!AckTellsKey
      <4>2. CASE gqueue' = gqueue BY <1>7, <4>1, <4>2
      <4>3. CASE saved
        <5>1. a.msg # m BY <1>3, <3>1
        <5>2. /\ DOMAIN gqueue \subseteq DOMAIN gqueue' /\ \A i \in DOMAIN gqueue : gqueue'[i] = gqueue[i]
              /\ \A i \in DOMAIN gqueue' : i \in DOMAIN gqueue \/ gqueue'[i] = m
          BY <1>3, <1>4, <4>3
        <5> QED BY <1>7, <4>1, <5>1, <5>2
      <4> QED BY <1>5, <4>2, <4>3
    <3>2. CASE a \notin gacked
      <4>1. a.msg = m /\ a.id = 0 BY <1>9, <3>2
      <4>2. Sg!Finished(s, 0) BY <1>1, <3>2
      <4>3. CASE UNCHANGED <<gqueue, gexcused>> BY <1>3, <4>1, <4>3
      <4>4. CASE saved /\ gexcused' = [d \in Members |-> gexcused[d] \cup {untold}]
        <5>1. \A i \in DOMAIN gqueue' : gqueue'[i] = m => i = N + 1 BY <1>3, <1>4, <4>4
        <5>2. \A d \in Members : untold \in gexcused'[d] BY <4>4
        <5> QED BY <4>1, <5>1, <5>2
      <4>5. CASE saved /\ UNCHANGED <<gacked, gexcused>> /\ handler' = next BY <3>2, <4>5
      <4> QED BY <1>1, <4>3, <4>4, <4>5
    <3> QED BY <3>1, <3>2
  <2>4. AckTellsKey' BY <2>3 DEF AckTellsKey, Sg!AckTellsKey
  <2> QED BY <2>1, <2>2, <2>4 DEF AcksOwn
<1>13. ASSUME NEW d \in Members PROVE MemberOK(d)' /\ \A id : Asking(d, id) => Asking(d, id)'
  BY <1>1, <1>7, MemberKept DEF SuperInv
<1>14. ASSUME NEW d \in gconn', NEW id \in 1..Len(gqueue') PROVE Learns(d, id)'
  <2>1. d \in Members /\ d \in gconn BY <1>1, <1>2 DEF SuperTyped
  <2>2. CASE id \in 1..N
    <3>1. Learns(d, id) BY <2>1, <2>2 DEF SuperInv, N
    <3>2. Announcing(id) => Announcing(id)' BY <1>1, <1>8 DEF Announcing
    <3>3. OnServer(d, id) => OnServer(d, id)' BY <1>1 DEF OnServer
    <3> QED BY <1>1, <1>13, <2>1, <3>1, <3>2, <3>3 DEF Learns
  <2>3. CASE id \notin 1..N
    <3>1. saved BY <1>5, <2>3 DEF N
    <3>2. id = N + 1 BY <1>3, <1>4, <2>3, <3>1
    <3>3. CASE handler'[s] # None
      <4>1. Announcing(id)' BY <1>8, <3>2, <3>3 DEF Announcing
      <4> QED BY <4>1 DEF Learns
    <3>4. CASE UNCHANGED <<gqueue, gexcused>> BY <2>3, <3>4 DEF N
    <3>5. CASE saved /\ gexcused' = [e \in Members |-> gexcused[e] \cup {untold}]
      <4>1. untold \in gexcused'[d] BY <2>1, <3>5
      <4>2. Asking(d, id)' BY <3>2, <4>1 DEF Asking, Sg!Excused
      <4> QED BY <4>2 DEF Learns
    <3> QED BY <1>8, <3>3, <3>4, <3>5
  <2> QED BY <2>2, <2>3
<1> QED BY <1>10, <1>11, <1>12, <1>13, <1>14 DEF SuperInv

\* SendGroupMessage: everybody is told, here at once and elsewhere by the servers.
LEMMA SendGroupMessageInv ==
  ASSUME SuperInv, NEW s \in Senders, Sg!SendGroupMessage(s)
  PROVE  SuperInv'
<1> DEFINE h == handler[s]
           home == GroupHomes[s]
           items == IF h.kind = "client" THEN Sg!HandleSuperGroupMessage(h.id) ELSE Sg!SendGroupIMMessage(h.id)
<1>1. /\ h # None /\ h.step = "publish"
      /\ gnet' = [t \in Servers |-> IF t = home THEN gnet[t] ELSE gnet[t] \o items]
      /\ Sg!DispatchMessageToGroup(home, items) /\ Sg!Finished(s, h.id)
      /\ UNCHANGED <<gqueue, gsent, dt, gconn, gwt, greq, gkey, ggot>>
  BY DEF Sg!SendGroupMessage, Sg!At, Sg!HandlePublishGroup, Sg!connVars, Sg!clientVars
<1>2. SuperTyped /\ home \in Servers BY SuperGiven DEF SuperInv
<1>3. /\ h \in GroupHandlers /\ h.id \in Nat /\ h.msg \in Nat /\ h.msg \in 1..gsent
      /\ h.id \in DOMAIN gqueue /\ gqueue[h.id] = h.msg /\ gsent \in Nat
  BY <1>1, <1>2 DEF SuperInv, SuperTyped, HandlersOwn, GroupHandlers
<1>4. items \in Seq(GroupItems) /\ Tells(items, h.id)
  <2> DEFINE im == [kind |-> "im", id |-> h.id]
             notify == [kind |-> "notify", id |-> h.id]
  <2>1. im \in GroupItems /\ notify \in GroupItems /\ notify.kind = "notify" /\ notify.id = h.id
    BY <1>3 DEF GroupItems
  <2>2. CASE h.kind = "client"
    <3>1. items = <<im, notify>> BY <2>2 DEF Sg!HandleSuperGroupMessage, Sg!Notify
    <3> HIDE DEF im, notify, items
    <3>2. items \in Seq(GroupItems) /\ 2 \in DOMAIN items /\ items[2] = notify BY <2>1, <3>1
    <3> QED BY <2>1, <3>2 DEF Tells
  <2>3. CASE h.kind # "client"
    <3>1. items = <<notify>> BY <2>3 DEF Sg!SendGroupIMMessage, Sg!Notify
    <3> HIDE DEF im, notify, items
    <3>2. items \in Seq(GroupItems) /\ 1 \in DOMAIN items /\ items[1] = notify BY <2>1, <3>1
    <3> QED BY <2>1, <3>2 DEF Tells
  <2> QED BY <2>2, <2>3
<1> HIDE DEF items
<1>5. /\ gmessages' \in [Members -> Seq(GroupItems)]
      /\ gexcused' \in [Members -> SUBSET [id : Nat, why : GroupReasons]]
      /\ \A d \in Members : gexcused[d] \subseteq gexcused'[d]
      /\ \A d \in Members : \A id \in 1..Len(gqueue) :
           Covers(gmessages[d], id) \/ (d \in Sg!Local(home) /\ Tells(items, id)) =>
             Covers(gmessages'[d], id) \/ \E e \in gexcused'[d] : e.id = id
  BY <1>1, <1>2, <1>4, DispatchSays
<1>6. ASSUME NEW t \in Servers
      PROVE  /\ gnet'[t] \in Seq(GroupItems)
             /\ \A id : Tells(gnet[t], id) \/ (t # home /\ Tells(items, id)) => Tells(gnet'[t], id)
  <2>1. gnet[t] \in Seq(GroupItems) BY <1>2 DEF SuperTyped
  <2>2. CASE t = home BY <1>1, <2>1, <2>2
  <2>3. CASE t # home
    <3>1. gnet'[t] = gnet[t] \o items BY <1>1, <2>3
    <3> QED BY <1>4, <2>1, <3>1, ConcatTells
  <2> QED BY <2>2, <2>3
<1>7. gnet' \in [Servers -> Seq(GroupItems)]
  <2>1. gnet' = [t \in Servers |-> gnet'[t]] BY <1>1
  <2> QED BY <1>6, <2>1
<1>8. /\ handler' \in [Senders -> GroupHandlers \cup {None}] /\ handler'[s] = None
      /\ \A t \in Senders : t # s => handler'[t] = handler[t]
      /\ gacked' \subseteq gacked \cup {[msg |-> h.msg, id |-> h.id]}
  BY <1>1, <1>2 DEF Sg!Finished, SuperTyped
<1>9. SuperTyped' BY <1>1, <1>2, <1>5, <1>7, <1>8 DEF SuperTyped
<1>10. HandlersOwn'
  <2> SUFFICES ASSUME NEW t \in Senders, handler'[t] # None
               PROVE  /\ handler'[t].msg \in 1..gsent'
                      /\ \A u \in Senders : u # t /\ handler'[u] # None => handler'[u].msg # handler'[t].msg
                      /\ \A a \in gacked' : a.msg # handler'[t].msg
                      /\ handler'[t].step = "save" => \A i \in DOMAIN gqueue' : gqueue'[i] # handler'[t].msg
                      /\ handler'[t].step = "publish" =>
                           handler'[t].id \in DOMAIN gqueue' /\ gqueue'[handler'[t].id] = handler'[t].msg
    BY DEF HandlersOwn
  <2>1. t # s /\ handler'[t] = handler[t] BY <1>8
  <2>2. \A u \in Senders : u # t /\ handler'[u] # None => handler'[u].msg # handler[t].msg
    BY <1>8, <2>1 DEF SuperInv, HandlersOwn
  <2>3. gacked' \subseteq gacked \cup {[msg |-> handler[s].msg, id |-> n] : n \in Nat} BY <1>3, <1>8
  <2>4. /\ handler[t].msg \in 1..gsent /\ \A a \in gacked' : a.msg # handler[t].msg
        /\ handler[t].step = "save" => \A i \in DOMAIN gqueue' : gqueue'[i] # handler[t].msg
        /\ handler[t].step = "publish" =>
             handler[t].id \in DOMAIN gqueue' /\ gqueue'[handler[t].id] = handler[t].msg
    BY <1>1, <2>1, <2>3, OthersKept
  <2> QED BY <1>1, <2>1, <2>2, <2>4
<1>11. AcksOwn'
  <2>1. ASSUME NEW a \in gacked'
        PROVE  /\ a.msg \in 1..gsent'
               /\ \/ a.id \in DOMAIN gqueue' /\ gqueue'[a.id] = a.msg
                  \/ /\ a.id = 0
                     /\ \A id \in DOMAIN gqueue' : gqueue'[id] = a.msg =>
                          \A d \in Members : [id |-> id, why |-> "untold"] \in gexcused'[d]
    <3>1. CASE a \in gacked
      <4>1. /\ a.msg \in 1..gsent
            /\ \/ a.id \in DOMAIN gqueue /\ gqueue[a.id] = a.msg
               \/ /\ a.id = 0
                  /\ \A id \in DOMAIN gqueue : gqueue[id] = a.msg =>
                       \A d \in Members : [id |-> id, why |-> "untold"] \in gexcused[d]
        BY <3>1 DEF SuperInv, AcksOwn, AckTellsKey, Sg!AckTellsKey
      <4> QED BY <1>1, <1>5, <4>1
    <3>2. CASE a = [msg |-> h.msg, id |-> h.id] BY <1>1, <1>3, <3>2
    <3> QED BY <1>8, <3>1, <3>2
  <2>2. AckTellsKey' BY <2>1 DEF AckTellsKey, Sg!AckTellsKey
  <2>3. \A i \in DOMAIN gqueue' : gqueue'[i] <= gsent' BY <1>1 DEF SuperInv, AcksOwn
  <2> QED BY <2>1, <2>2, <2>3 DEF AcksOwn
<1>12. ASSUME NEW d \in Members PROVE MemberOK(d)' /\ \A id : Asking(d, id) => Asking(d, id)'
  BY <1>1, <1>5, MemberKept DEF SuperInv
<1>13. ASSUME NEW d \in gconn', NEW id \in 1..Len(gqueue') PROVE Learns(d, id)'
  <2>1. /\ d \in Members /\ d \in gconn /\ GroupHomes[d] \in Servers /\ id \in 1..Len(gqueue)
        /\ GroupHomes[d] = home => d \in Sg!Local(home)
    BY <1>1, <1>2, SuperGiven DEF SuperTyped, Sg!Local
  <2>2. Asking(d, id) \/ Covers(gmessages[d], id) \/ OnServer(d, id) \/ Announcing(id)
    BY <2>1 DEF SuperInv, Learns
  <2>3. (\E e \in gexcused'[d] : e.id = id) => Asking(d, id)' BY DEF Asking, Sg!Excused
  <2>4. Covers(gmessages[d], id) \/ (d \in Sg!Local(home) /\ Tells(items, id)) =>
          Covers(gmessages'[d], id) \/ Asking(d, id)'
    BY <1>5, <2>1, <2>3
  <2>5. CASE Asking(d, id) BY <1>12, <2>1, <2>5 DEF Learns
  <2>6. CASE Covers(gmessages[d], id) BY <2>4, <2>6 DEF Learns
  <2>7. CASE OnServer(d, id)
    <3>1. OnServer(d, id)' BY <1>1, <1>6, <2>1, <2>7 DEF OnServer
    <3> QED BY <3>1 DEF Learns
  <2>8. CASE Announcing(id)
    <3>1. PICK t \in Senders : handler[t] # None /\ handler[t].step = "publish" /\ handler[t].id = id
      BY <2>8 DEF Announcing
    <3>2. CASE t = s
      <4>1. Tells(items, id) BY <1>4, <3>1, <3>2
      <4>2. CASE GroupHomes[d] = home BY <2>1, <2>4, <4>1, <4>2 DEF Learns
      <4>3. CASE GroupHomes[d] # home
        <5>1. OnServer(d, id)' BY <1>6, <2>1, <4>1, <4>3 DEF OnServer
        <5> QED BY <5>1 DEF Learns
      <4> QED BY <4>2, <4>3
    <3>3. CASE t # s
      <4>1. Announcing(id)' BY <1>8, <3>1, <3>3 DEF Announcing
      <4> QED BY <4>1 DEF Learns
    <3> QED BY <3>2, <3>3
  <2> QED BY <2>2, <2>5, <2>6, <2>7, <2>8
<1> QED BY <1>9, <1>10, <1>11, <1>12, <1>13 DEF SuperInv

\* A step of one device: what it has learned or was told of, it still will learn.
LEMMA ClientStep ==
  ASSUME SuperInv, SuperTyped', NEW d \in Members, gconn' \subseteq gconn \cup {d},
         UNCHANGED <<gqueue, handler, gsent, gacked, gnet, dt>>,
         \A e \in Members : gexcused[e] \subseteq gexcused'[e],
         \A e \in Members : e # d =>
           /\ greq'[e] = greq[e] /\ gwt'[e] = gwt[e] /\ gkey'[e] = gkey[e] /\ ggot'[e] = ggot[e]
           /\ gmessages'[e] = gmessages[e],
         MemberOK(d)',
         d \in gconn' => \A id \in 1..Len(gqueue) :
           (d \in gconn => Asking(d, id) \/ Covers(gmessages[d], id)) =>
             Asking(d, id)' \/ Covers(gmessages'[d], id)
  PROVE  SuperInv'
<1>1. HandlersOwn' /\ AcksOwn' BY OwnKept
<1>2. ASSUME NEW e \in Members, e # d PROVE MemberOK(e)' /\ \A id : Asking(e, id) => Asking(e, id)'
  BY <1>2, MemberKept DEF SuperInv
<1>3. \A e \in Members : MemberOK(e)' BY <1>2
<1>4. ASSUME NEW e \in gconn', NEW id \in 1..Len(gqueue') PROVE Learns(e, id)'
  <2>1. e \in Members /\ id \in 1..Len(gqueue) BY DEF SuperTyped
  <2>2. /\ OnServer(e, id) => OnServer(e, id)'
        /\ Announcing(id) => Announcing(id)'
    BY DEF OnServer, Announcing
  <2>3. e \in gconn => Asking(e, id) \/ Covers(gmessages[e], id) \/ OnServer(e, id) \/ Announcing(id)
    BY <2>1 DEF SuperInv, Learns
  <2>4. CASE e = d BY <2>1, <2>2, <2>3, <2>4 DEF Learns
  <2>5. CASE e # d BY <1>2, <2>1, <2>2, <2>3, <2>5 DEF Learns
  <2> QED BY <2>4, <2>5
<1> QED BY <1>1, <1>3, <1>4 DEF SuperInv

\* Forget: the cache has no part in what there is to learn.
LEMMA ForgetInv ==
  ASSUME SuperInv, NEW s \in Servers, Sg!Forget(s)
  PROVE  SuperInv'
<1>1. UNCHANGED <<gqueue, handler, gsent, gacked, gnet, dt, gconn, gwt, gmessages, greq, gkey, ggot, gexcused>>
  BY DEF Sg!Forget, Sg!sendVars, Sg!connVars, Sg!clientVars
<1>2. \A d \in gconn : gmessages'[d] = gmessages[d] /\ \A id : OnServer(d, id) => OnServer(d, id)'
  BY <1>1 DEF OnServer
<1>3. /\ gnet' \in [Servers -> Seq(GroupItems)] /\ dt' \in [Servers -> [Delivers -> Seq(GroupItems)]]
      /\ gmessages' \in [Members -> Seq(GroupItems)]
      /\ gexcused' \in [Members -> SUBSET [id : Nat, why : GroupReasons]]
      /\ \A d \in Members : gexcused[d] \subseteq gexcused'[d]
  BY <1>1 DEF SuperInv, SuperTyped
<1> QED BY <1>1, <1>2, <1>3, ServerStep

\* Login: the client asks for all there is behind its key.
LEMMA LoginInv ==
  ASSUME SuperInv, NEW d \in Members, Sg!Login(d)
  PROVE  SuperInv'
<1>1. /\ gconn' = gconn \cup {d} /\ greq' = [greq EXCEPT ![d] = <<gkey[d]>>] /\ d \notin gconn
      /\ UNCHANGED <<gqueue, handler, gsent, gacked, gnet, dt, gwt, gmessages, gkey, ggot, gexcused>>
  BY DEF Sg!Login, Sg!sendVars
<1>2. SuperTyped BY DEF SuperInv
<1>3. /\ gkey[d] \in Nat /\ greq'[d] = <<gkey[d]>> /\ <<gkey[d]>> \in Seq(Nat)
      /\ DOMAIN <<gkey[d]>> = {1} /\ <<gkey[d]>>[1] = gkey[d]
  BY <1>1, <1>2 DEF SuperTyped
<1>4. SuperTyped' BY <1>1, <1>2, <1>3 DEF SuperTyped
<1>5. Has(d)' = Has(d) BY <1>1 DEF Has, Sg!Excused
<1>6. MemberOK(d)' BY <1>1, <1>3, <1>5 DEF SuperInv, MemberOK
<1>7. \A id \in 1..Len(gqueue) : Asking(d, id)'
  <2> SUFFICES ASSUME NEW id \in 1..Len(gqueue) PROVE Asking(d, id)' OBVIOUS
  <2>1. id \in Int /\ (id <= gkey[d] \/ gkey[d] < id) BY <1>3
  <2>2. 1 \in DOMAIN greq'[d] /\ greq'[d][1] = gkey[d] BY <1>3
  <2> QED BY <1>1, <2>1, <2>2 DEF Asking
<1>8. \A e \in Members : e # d => greq'[e] = greq[e] BY <1>1, <1>2 DEF SuperTyped
<1> QED BY <1>1, <1>4, <1>6, <1>7, <1>8, ClientStep

\* HandleClientClosed: a device that is not connected learns of nothing.
LEMMA HandleClientClosedInv ==
  ASSUME SuperInv, NEW d \in Members, Sg!HandleClientClosed(d)
  PROVE  SuperInv'
<1>1. /\ gconn' = gconn \ {d} /\ gmessages' = [gmessages EXCEPT ![d] = << >>]
      /\ gwt' = [gwt EXCEPT ![d] = << >>] /\ greq' = [greq EXCEPT ![d] = << >>]
      /\ UNCHANGED <<gqueue, handler, gsent, gacked, gnet, dt, gkey, ggot, gexcused>>
  BY DEF Sg!HandleClientClosed, Sg!sendVars
<1>2. SuperTyped BY DEF SuperInv
<1>3. SuperTyped'
  <2>1. << >> \in Seq(GroupItems) /\ << >> \in Seq(GroupAnswers) /\ << >> \in Seq(Nat) OBVIOUS
  <2> QED BY <1>1, <1>2, <2>1 DEF SuperTyped
<1>4. greq'[d] = << >> /\ gwt'[d] = << >> /\ DOMAIN << >> = {} BY <1>1, <1>2 DEF SuperTyped
<1>5. Has(d)' = Has(d) BY <1>1 DEF Has, Sg!Excused
<1>6. MemberOK(d)' BY <1>1, <1>4, <1>5 DEF SuperInv, MemberOK
<1>7. \A e \in Members : e # d =>
        greq'[e] = greq[e] /\ gwt'[e] = gwt[e] /\ gmessages'[e] = gmessages[e]
  BY <1>1, <1>2 DEF SuperTyped
<1>8. d \notin gconn' BY <1>1
<1> QED BY <1>1, <1>3, <1>6, <1>7, <1>8, ClientStep

\* HandleGroupSync: the answer holds what is behind the key, or it is excused.
LEMMA HandleGroupSyncInv ==
  ASSUME SuperInv, NEW d \in Members, Sg!HandleGroupSync(d)
  PROVE  SuperInv'
<1> DEFINE k == Head(greq[d])
           N == Len(gqueue)
           new == Sg!After(k)
           ids == {id \in new : id > N - SyncLimit}
           end == IF new = {} THEN k ELSE N
           answer == [ids |-> ids, end |-> end]
           missing == [id : Nat, why : GroupReasons]
<1>1. /\ d \in gconn /\ greq[d] # << >> /\ greq' = [greq EXCEPT ![d] = Tail(@)]
      /\ UNCHANGED <<gqueue, handler, gsent, gacked, gnet, dt, gconn, gmessages, gkey, ggot>>
      /\ \/ /\ gwt' = [gwt EXCEPT ![d] = Append(@, answer)]
            /\ gexcused' = [gexcused EXCEPT ![d] = @ \cup Sg!Excuse(new \ ids, "too old")]
         \/ /\ gexcused' = [gexcused EXCEPT ![d] = @ \cup Sg!Excuse(new, "unanswered")]
            /\ UNCHANGED gwt
         \/ /\ gexcused' = [gexcused EXCEPT ![d] = @ \cup Sg!Excuse(new, "not cached")]
            /\ UNCHANGED gwt
  BY DEF Sg!HandleGroupSync, Sg!sendVars
<1>2. SuperTyped BY DEF SuperInv
<1>3. /\ greq[d] \in Seq(Nat) /\ gwt[d] \in Seq(GroupAnswers) /\ gkey[d] \in Nat /\ N \in Nat
      /\ SyncLimit \in Nat
  BY <1>2, SuperGiven DEF SuperTyped
<1>4. /\ Tail(greq[d]) \in Seq(Nat) /\ Len(Tail(greq[d])) = Len(greq[d]) - 1
      /\ k = greq[d][1] /\ k \in Nat /\ 1 \in DOMAIN greq[d] /\ DOMAIN greq[d] = 1..Len(greq[d])
      /\ Len(greq[d]) \in Nat /\ DOMAIN Tail(greq[d]) = 1..Len(greq[d]) - 1
      /\ \A i \in 1..Len(greq[d]) - 1 : Tail(greq[d])[i] = greq[d][i + 1]
  <2>1. /\ Tail(greq[d]) \in Seq(Nat) /\ Len(Tail(greq[d])) = Len(greq[d]) - 1
        /\ Head(greq[d]) = greq[d][1] /\ greq[d][1] \in Nat /\ Len(greq[d]) \in Nat \ {0}
        /\ \A i \in 1..Len(greq[d]) - 1 : Tail(greq[d])[i] = greq[d][i + 1]
    BY <1>1, <1>3, Dp!TailSays
  <2>2. DOMAIN greq[d] = 1..Len(greq[d]) /\ DOMAIN Tail(greq[d]) = 1..Len(Tail(greq[d])) BY <1>3, <2>1
  <2> QED BY <2>1, <2>2
<1>5. k <= gkey[d] BY <1>4 DEF SuperInv, MemberOK
<1>6. \A id : id \in new <=> id \in 1..N /\ id > k BY DEF Sg!After
<1> HIDE DEF k, N, new
<1>7. new \subseteq Nat /\ ids \subseteq new /\ end \in Nat BY <1>3, <1>4, <1>6
<1>8. answer \in GroupAnswers
  <2> HIDE DEF ids, end
  <2> QED BY <1>7 DEF GroupAnswers
<1>9. ASSUME NEW S \in SUBSET Nat, NEW why \in GroupReasons
      PROVE  /\ Sg!Excuse(S, why) \in SUBSET missing
             /\ \A id \in S : \E e \in Sg!Excuse(S, why) : e.id = id
  <2>1. ASSUME NEW id \in S
        PROVE  [id |-> id, why |-> why] \in Sg!Excuse(S, why) /\ [id |-> id, why |-> why] \in missing
    BY DEF Sg!Excuse
  <2>2. \A x \in Sg!Excuse(S, why) : \E id \in S : x = [id |-> id, why |-> why] BY DEF Sg!Excuse
  <2>3. ASSUME NEW id \in S PROVE \E e \in Sg!Excuse(S, why) : e.id = id
    <3>1. [id |-> id, why |-> why].id = id OBVIOUS
    <3> QED BY <2>1, <3>1
  <2> QED BY <2>1, <2>2, <2>3
<1>10. PICK S \in SUBSET Nat, why \in GroupReasons :
         /\ gexcused' = [gexcused EXCEPT ![d] = @ \cup Sg!Excuse(S, why)]
         /\ \/ S = new \ ids /\ gwt' = [gwt EXCEPT ![d] = Append(@, answer)]
            \/ S = new /\ UNCHANGED gwt
  <2>1. new \ ids \in SUBSET Nat /\ new \in SUBSET Nat BY <1>7
  <2>2. "too old" \in GroupReasons /\ "unanswered" \in GroupReasons /\ "not cached" \in GroupReasons
    BY DEF GroupReasons
  <2> HIDE DEF ids, answer
  <2> QED BY <1>1, <2>1, <2>2
<1> HIDE DEF ids, answer, end
<1>11. /\ gexcused' \in [Members -> SUBSET missing]
       /\ \A e \in Members : gexcused[e] \subseteq gexcused'[e]
       /\ gexcused'[d] = gexcused[d] \cup Sg!Excuse(S, why)
  BY <1>2, <1>9, <1>10 DEF SuperTyped
<1>12. /\ greq' \in [Members -> Seq(Nat)] /\ greq'[d] = Tail(greq[d])
       /\ \A e \in Members : e # d => greq'[e] = greq[e] /\ gwt'[e] = gwt[e]
  BY <1>1, <1>2, <1>4, <1>10 DEF SuperTyped
<1>13. /\ Append(gwt[d], answer) \in Seq(GroupAnswers) /\ DOMAIN gwt[d] = 1..Len(gwt[d])
       /\ DOMAIN Append(gwt[d], answer) = 1..Len(gwt[d]) + 1 /\ Len(gwt[d]) \in Nat
       /\ Append(gwt[d], answer)[Len(gwt[d]) + 1] = answer
       /\ \A i \in 1..Len(gwt[d]) : Append(gwt[d], answer)[i] = gwt[d][i]
  BY <1>3, <1>8, PushSays
<1>14. /\ gwt' \in [Members -> Seq(GroupAnswers)]
       /\ gwt'[d] = gwt[d] \/ gwt'[d] = Append(gwt[d], answer)
  BY <1>2, <1>10, <1>13 DEF SuperTyped
<1>15. SuperTyped' BY <1>1, <1>2, <1>11, <1>12, <1>14 DEF SuperTyped
<1>16. Has(d) \subseteq Has(d)' /\ (\A id \in S : id \in Sg!Excused(d)') /\ Sg!Excused(d) \subseteq Sg!Excused(d)'
  <2>1. Sg!Excused(d) \subseteq Sg!Excused(d)' BY <1>11 DEF Sg!Excused
  <2>2. \A id \in S : id \in Sg!Excused(d)' BY <1>9, <1>11 DEF Sg!Excused
  <2>3. Has(d) \subseteq Has(d)' BY <1>1, <2>1 DEF Has
  <2> QED BY <2>1, <2>2, <2>3
<1>17. 1..gkey[d] \subseteq Has(d) /\ \A i \in DOMAIN gwt[d] : 1..gwt[d][i].end \subseteq Has(d) \cup gwt[d][i].ids
  BY DEF SuperInv, MemberOK
<1>18. ASSUME S = new \ ids PROVE 1..answer.end \subseteq Has(d)' \cup answer.ids
  <2> SUFFICES ASSUME NEW id \in 1..end PROVE id \in Has(d)' \cup ids BY DEF answer
  <2>1. id \in Nat /\ id >= 1 /\ id <= end BY <1>7
  <2>2. CASE id <= gkey[d]
    <3>1. id \in 1..gkey[d] BY <1>3, <2>1, <2>2
    <3> QED BY <1>16, <1>17, <3>1
  <2>3. CASE ~(id <= gkey[d])
    <3>1. id > k /\ new # {} BY <1>3, <1>4, <1>5, <2>1, <2>3 DEF end
    <3>2. id \in new BY <1>3, <1>6, <2>1, <3>1 DEF end
    <3> QED BY <1>16, <1>18, <3>2 DEF Has
  <2> QED BY <2>2, <2>3
<1>19. MemberOK(d)'
  <2>1. 1..gkey'[d] \subseteq Has(d)' BY <1>1, <1>16, <1>17
  <2>2. \A i \in DOMAIN greq'[d] : greq'[d][i] <= gkey'[d]
    <3>1. \A i \in DOMAIN greq[d] : greq[d][i] <= gkey[d] BY DEF SuperInv, MemberOK
    <3>2. DOMAIN greq'[d] = 1..Len(greq[d]) - 1 BY <1>4, <1>12, Zenon
    <3>3. \A i \in 1..Len(greq[d]) - 1 : i + 1 \in DOMAIN greq[d] BY <1>4, Shift
    <3>4. \A i \in 1..Len(greq[d]) - 1 : greq'[d][i] = greq[d][i + 1] BY <1>4, <1>12, Zenon
    <3> QED BY <1>1, <3>1, <3>2, <3>3, <3>4
  <2>3. \A i \in DOMAIN gwt'[d] : 1..gwt'[d][i].end \subseteq Has(d)' \cup gwt'[d][i].ids
    <3>1. CASE gwt'[d] = gwt[d] BY <1>16, <1>17, <3>1
    <3>2. CASE gwt'[d] # gwt[d]
      <4>1. S = new \ ids /\ gwt'[d] = Append(gwt[d], answer) BY <1>10, <1>14, <3>2
      <4>2. ASSUME NEW i \in DOMAIN gwt'[d]
            PROVE  1..gwt'[d][i].end \subseteq Has(d)' \cup gwt'[d][i].ids
        <5>1. CASE i \in DOMAIN gwt[d]
          <6>1. gwt'[d][i] = gwt[d][i] BY <1>13, <4>1, <5>1
          <6> QED BY <1>16, <1>17, <5>1, <6>1
        <5>2. CASE i \notin DOMAIN gwt[d]
          <6>1. gwt'[d][i] = answer BY <1>13, <4>1, <5>2
          <6> QED BY <1>18, <4>1, <6>1
        <5> QED BY <5>1, <5>2
      <4> QED BY <4>2
    <3> QED BY <3>1, <3>2
  <2> QED BY <2>1, <2>2, <2>3 DEF MemberOK
<1>20. ASSUME NEW id \in 1..Len(gqueue), Asking(d, id) PROVE Asking(d, id)'
  <2>0. id \in Nat /\ id \in 1..N BY <1>3 DEF N
  <2>1. CASE id <= gkey[d] \/ id \in Sg!Excused(d) BY <1>1, <1>16, <2>1 DEF Asking
  <2>2. ASSUME NEW i \in DOMAIN gwt[d], id <= gwt[d][i].end PROVE Asking(d, id)'
    <3>1. i \in DOMAIN gwt'[d] /\ gwt'[d][i] = gwt[d][i] BY <1>13, <1>14
    <3> QED BY <2>2, <3>1 DEF Asking
  <2>3. ASSUME NEW i \in DOMAIN greq[d], greq[d][i] < id PROVE Asking(d, id)'
    <3>1. CASE i = 1
      <4>1. id \in new BY <1>4, <1>6, <2>0, <2>3, <3>1
      <4>2. CASE id \in S BY <1>16, <4>2 DEF Asking
      <4>3. CASE id \notin S
        <5>1. gwt' = [gwt EXCEPT ![d] = Append(@, answer)] BY <1>10, <4>1, <4>3
        <5>2. gwt'[d] = Append(gwt[d], answer) BY <1>2, <5>1 DEF SuperTyped
        <5>3. Len(gwt[d]) + 1 \in DOMAIN gwt'[d] /\ gwt'[d][Len(gwt[d]) + 1] = answer BY <1>13, <5>2
        <5>4. id <= answer.end BY <2>0, <4>1, <1>3 DEF answer, end
        <5> QED BY <5>3, <5>4 DEF Asking
      <4> QED BY <4>2, <4>3
    <3>2. CASE i # 1
      <4>0. i \in 1..Len(greq[d]) BY <1>4
      <4>1. i - 1 \in 1..Len(greq[d]) - 1 /\ (i - 1) + 1 = i BY <1>4, <3>2, <4>0, Shift
      <4>2. i - 1 \in DOMAIN greq'[d] BY <1>4, <1>12, <4>1, Zenon
      <4>3. greq'[d][i - 1] = greq[d][i] BY <1>4, <1>12, <4>1
      <4> QED BY <2>3, <4>2, <4>3 DEF Asking
    <3> QED BY <3>1, <3>2
  <2> QED BY <1>20, <2>1, <2>2, <2>3 DEF Asking
<1> QED BY <1>1, <1>11, <1>12, <1>15, <1>19, <1>20, ClientStep

\* WriteAnswer: the client takes what the answer holds, and its key if it is larger.
LEMMA WriteAnswerInv ==
  ASSUME SuperInv, NEW d \in Members, Sg!WriteAnswer(d)
  PROVE  SuperInv'
<1> DEFINE answer == Head(gwt[d])
           end == answer.end
<1>1. /\ gwt[d] # << >> /\ gwt' = [gwt EXCEPT ![d] = Tail(@)]
      /\ ggot' = [ggot EXCEPT ![d] = @ \cup answer.ids]
      /\ gkey' = [gkey EXCEPT ![d] = IF end > @ THEN end ELSE @]
      /\ UNCHANGED <<gqueue, handler, gsent, gacked, gnet, dt, gconn, gmessages, greq, gexcused>>
  BY DEF Sg!WriteAnswer, Sg!sendVars
<1>2. SuperTyped BY DEF SuperInv
<1>3. gwt[d] \in Seq(GroupAnswers) /\ gkey[d] \in Nat /\ ggot[d] \in SUBSET Nat /\ greq[d] \in Seq(Nat)
  BY <1>2 DEF SuperTyped
<1>4. /\ Tail(gwt[d]) \in Seq(GroupAnswers) /\ Len(Tail(gwt[d])) = Len(gwt[d]) - 1
      /\ answer = gwt[d][1] /\ gwt[d][1] \in GroupAnswers /\ 1 \in DOMAIN gwt[d]
      /\ DOMAIN gwt[d] = 1..Len(gwt[d]) /\ Len(gwt[d]) \in Nat
      /\ \A i \in 1..Len(gwt[d]) - 1 : Tail(gwt[d])[i] = gwt[d][i + 1]
  BY <1>1, <1>3, Dp!TailSays
<1> HIDE DEF answer
<1>5. end \in Nat /\ answer.ids \in SUBSET Nat BY <1>4 DEF GroupAnswers
<1>6. \A x \in DOMAIN gwt[d] : gwt[d][x] \in GroupAnswers /\ gwt[d][x].end \in Nat
  <2>1. \A x \in DOMAIN gwt[d] : gwt[d][x] \in GroupAnswers BY <1>3
  <2> QED BY <2>1 DEF GroupAnswers
<1> HIDE DEF end
<1>7. /\ gwt'[d] = Tail(gwt[d]) /\ ggot'[d] = ggot[d] \cup answer.ids
      /\ gkey'[d] = IF end > gkey[d] THEN end ELSE gkey[d]
      /\ gkey'[d] \in Nat /\ greq'[d] = greq[d]
  BY <1>1, <1>2, <1>3, <1>5 DEF SuperTyped
<1>8. SuperTyped' BY <1>1, <1>2, <1>3, <1>4, <1>5, <1>7 DEF SuperTyped
<1>9. Has(d) \subseteq Has(d)' /\ answer.ids \subseteq Has(d)' BY <1>1, <1>7 DEF Has, Sg!Excused
<1>10. /\ 1..gkey[d] \subseteq Has(d) /\ \A i \in DOMAIN greq[d] : greq[d][i] <= gkey[d]
       /\ \A i \in DOMAIN gwt[d] : 1..gwt[d][i].end \subseteq Has(d) \cup gwt[d][i].ids
  BY DEF SuperInv, MemberOK
<1>11. \A i \in DOMAIN gwt'[d] : i + 1 \in DOMAIN gwt[d] /\ gwt'[d][i] = gwt[d][i + 1] BY <1>4, <1>7
<1>12. MemberOK(d)'
  <2>1. 1..gkey'[d] \subseteq Has(d)'
    <3>1. 1..end \subseteq Has(d)' BY <1>4, <1>9, <1>10 DEF end
    <3> QED BY <1>7, <1>9, <1>10, <3>1
  <2>2. \A i \in DOMAIN greq'[d] : greq'[d][i] <= gkey'[d]
    <3>1. \A i \in DOMAIN greq[d] : greq[d][i] \in Nat BY <1>3
    <3> QED BY <1>3, <1>5, <1>7, <1>10, <3>1
  <2>3. \A i \in DOMAIN gwt'[d] : 1..gwt'[d][i].end \subseteq Has(d)' \cup gwt'[d][i].ids
    BY <1>9, <1>10, <1>11
  <2> QED BY <2>1, <2>2, <2>3 DEF MemberOK
<1>13. ASSUME NEW id \in 1..Len(gqueue), Asking(d, id) PROVE Asking(d, id)'
  <2>0. id \in Nat OBVIOUS
  <2>1. CASE id <= gkey[d]
    <3>1. id <= gkey'[d] BY <1>3, <1>5, <1>7, <2>0, <2>1
    <3> QED BY <3>1 DEF Asking
  <2>2. CASE id \in Sg!Excused(d) \/ \E i \in DOMAIN greq[d] : greq[d][i] < id
    BY <1>1, <2>2 DEF Asking, Sg!Excused
  <2>3. ASSUME NEW i \in DOMAIN gwt[d], id <= gwt[d][i].end PROVE Asking(d, id)'
    <3>1. CASE i = 1
      <4>1. id <= end BY <1>4, <2>3, <3>1 DEF end
      <4>2. id <= gkey'[d] BY <1>3, <1>5, <1>7, <2>0, <4>1
      <4> QED BY <4>2 DEF Asking
    <3>2. CASE i # 1
      <4>1. i - 1 \in DOMAIN gwt'[d] /\ gwt'[d][i - 1] = gwt[d][i] BY <1>4, <1>7, <3>2
      <4> QED BY <2>3, <4>1 DEF Asking
    <3> QED BY <3>1, <3>2
  <2> QED BY <1>13, <2>1, <2>2, <2>3 DEF Asking
<1>14. \A e \in Members : e # d =>
         greq'[e] = greq[e] /\ gwt'[e] = gwt[e] /\ gkey'[e] = gkey[e] /\ ggot'[e] = ggot[e]
         /\ gmessages'[e] = gmessages[e]
  BY <1>1, <1>2 DEF SuperTyped
<1> QED BY <1>1, <1>8, <1>12, <1>13, <1>14, ClientStep

\* The requests a client makes when it takes from lwt: one for each notification
\* of a key it has not reached.
LEMMA AsksSays ==
  ASSUME NEW list \in Seq(GroupItems), NEW k \in Nat,
         NEW news, news = {i \in DOMAIN list : list[i].kind = "notify" /\ list[i].id > k}
  PROVE  /\ Sg!Cardinality(news) \in Nat
         /\ \A id \in Nat : Covers(list, id) /\ id > k => Sg!Cardinality(news) >= 1
<1>1. Sg!Cardinality(news) = Cardinality(news) BY Zenon DEF Sg!Cardinality, Cardinality
<1>2. Len(list) \in Nat /\ DOMAIN list = 1..Len(list) /\ news \subseteq 1..Len(list) OBVIOUS
<1>3. IsFiniteSet(1..Len(list)) BY <1>2, FS_Interval
<1>4. IsFiniteSet(news) BY <1>2, <1>3, FS_Subset
<1>5. Cardinality(news) \in Nat BY <1>4, FS_CardinalityType
<1>6. ASSUME NEW id \in Nat, Covers(list, id), id > k PROVE Cardinality(news) >= 1
  <2>1. PICK i \in DOMAIN list : list[i].kind = "notify" /\ id <= list[i].id BY <1>6 DEF Covers
  <2>2. list[i] \in GroupItems OBVIOUS
  <2>3. list[i].id \in Nat BY <2>2 DEF GroupItems
  <2>4. i \in news BY <1>6, <2>1, <2>3
  <2>5. Cardinality(news) # 0 BY <1>4, <2>4, FS_EmptySet
  <2> QED BY <1>5, <2>5
<1> QED BY <1>1, <1>5, <1>6

\* SendMessages: a notification of a key not reached makes the client ask.
LEMMA SendMessagesInv ==
  ASSUME SuperInv, NEW d \in Members, Sg!SendMessages(d)
  PROVE  SuperInv'
<1> DEFINE list == gmessages[d]
           k == gkey[d]
           news == {i \in DOMAIN list : list[i].kind = "notify" /\ list[i].id > k}
           n == Sg!Cardinality(news)
           more == [i \in 1..n |-> k]
           old == greq[d]
           asks == old \o more
<1>1. /\ gmessages' = [gmessages EXCEPT ![d] = << >>] /\ greq' = [greq EXCEPT ![d] = asks]
      /\ UNCHANGED <<gqueue, handler, gsent, gacked, gnet, dt, gconn, gwt, gkey, ggot, gexcused>>
  BY DEF Sg!SendMessages, Sg!sendVars, Sg!connVars
<1>2. SuperTyped BY DEF SuperInv
<1>3. list \in Seq(GroupItems) /\ k \in Nat /\ old \in Seq(Nat) BY <1>2 DEF SuperTyped
<1>4. n \in Nat /\ \A id \in Nat : Covers(list, id) /\ id > k => n >= 1 BY <1>3, AsksSays
<1> HIDE DEF list, k, n, old
<1>5. more \in Seq(Nat) /\ Len(more) = n /\ \A i \in 1..n : more[i] = k BY <1>3, <1>4
<1> HIDE DEF more
<1>6. /\ asks \in Seq(Nat) /\ Len(asks) = Len(old) + n /\ Len(old) \in Nat
      /\ \A i \in 1..Len(old) : asks[i] = old[i]
      /\ \A i \in 1..n : asks[Len(old) + i] = k
  <2>1. /\ old \o more \in Seq(Nat) /\ Len(old \o more) = Len(old) + Len(more) /\ Len(old) \in Nat
        /\ \A i \in 1..Len(old) : (old \o more)[i] = old[i]
        /\ \A i \in 1..Len(more) : (old \o more)[Len(old) + i] = more[i]
    BY <1>3, <1>5, Dp!ConcatSays
  <2> HIDE DEF asks
  <2>2. asks = old \o more BY DEF asks
  <2> QED BY <1>5, <2>1, <2>2
<1>7. DOMAIN asks = 1..Len(old) + n /\ DOMAIN old = 1..Len(old) BY <1>3, <1>6
<1> HIDE DEF asks
<1>8. greq'[d] = asks /\ \A e \in Members : e # d => greq'[e] = greq[e] /\ gmessages'[e] = gmessages[e]
  BY <1>1, <1>2 DEF SuperTyped
<1>9. SuperTyped'
  <2>1. << >> \in Seq(GroupItems) OBVIOUS
  <2> QED BY <1>1, <1>2, <1>6, <2>1 DEF SuperTyped
<1>10. Has(d)' = Has(d) BY <1>1 DEF Has, Sg!Excused
<1>11. MemberOK(d)'
  <2>1. \A i \in DOMAIN old : old[i] <= k BY DEF SuperInv, MemberOK, old, k
  <2>2. \A i \in DOMAIN asks : asks[i] <= k
    <3> SUFFICES ASSUME NEW i \in DOMAIN asks PROVE asks[i] <= k OBVIOUS
    <3>1. CASE i <= Len(old)
      <4>1. i \in 1..Len(old) BY <1>4, <1>6, <1>7, <3>1
      <4> QED BY <1>6, <1>7, <2>1, <4>1
    <3>2. CASE ~(i <= Len(old))
      <4>1. i - Len(old) \in 1..n /\ Len(old) + (i - Len(old)) = i BY <1>4, <1>6, <1>7, <3>2
      <4>2. asks[i] = k BY <1>6, <4>1
      <4> QED BY <1>3, <4>2
    <3> QED BY <3>1, <3>2
  <2>3. \A i \in DOMAIN greq'[d] : greq'[d][i] <= gkey'[d] BY <1>1, <1>8, <2>2 DEF k
  <2> QED BY <1>1, <1>10, <2>3 DEF SuperInv, MemberOK
<1>12. ASSUME NEW id \in 1..Len(gqueue), Asking(d, id) \/ Covers(list, id) PROVE Asking(d, id)'
  <2>0. id \in Nat OBVIOUS
  <2>1. CASE id <= k \/ id \in Sg!Excused(d) \/ \E i \in DOMAIN gwt[d] : id <= gwt[d][i].end
    BY <1>1, <2>1 DEF Asking, Sg!Excused, k
  <2>2. ASSUME NEW i \in DOMAIN old, old[i] < id PROVE Asking(d, id)'
    <3>1. i \in DOMAIN asks /\ asks[i] = old[i] BY <1>4, <1>6, <1>7
    <3> QED BY <1>8, <2>2, <3>1 DEF Asking
  <2>3. CASE Covers(list, id) /\ id > k
    <3>1. n >= 1 BY <1>4, <2>0, <2>3
    <3>2. 1 \in 1..n /\ Len(old) + 1 \in DOMAIN asks BY <1>4, <1>6, <1>7, <3>1
    <3>3. asks[Len(old) + 1] = k BY <1>6, <3>2
    <3>4. k < id BY <1>3, <2>0, <2>3
    <3> QED BY <1>8, <3>2, <3>3, <3>4 DEF Asking
  <2>4. id <= k \/ id > k BY <1>3, <2>0
  <2> QED BY <1>12, <2>1, <2>2, <2>3, <2>4 DEF Asking, old, k
<1> QED BY <1>1, <1>8, <1>9, <1>11, <1>12, ClientStep DEF list

\* In the beginning there is nothing to learn.
LEMMA SuperInvInit == Sg!Init => SuperInv
<1> SUFFICES ASSUME Sg!Init PROVE SuperInv OBVIOUS
<1>1. /\ gqueue = << >> /\ handler = [s \in Senders |-> None] /\ gsent = 0 /\ gacked = {}
      /\ gnet = [s \in Servers |-> << >>] /\ dt = [s \in Servers |-> [g \in Delivers |-> << >>]]
      /\ gconn = {} /\ gmessages = [d \in Members |-> << >>] /\ gwt = [d \in Members |-> << >>]
      /\ greq = [d \in Members |-> << >>] /\ gkey = [d \in Members |-> 0]
      /\ ggot = [d \in Members |-> {}] /\ gexcused = [d \in Members |-> {}]
  BY DEF Sg!Init
<1>2. /\ << >> \in Seq(Nat) /\ << >> \in Seq(GroupItems) /\ << >> \in Seq(GroupAnswers)
      /\ DOMAIN << >> = {}
  OBVIOUS
<1>3. SuperTyped BY <1>1, <1>2 DEF SuperTyped
<1>4. HandlersOwn BY <1>1 DEF HandlersOwn
<1>5. AcksOwn BY <1>1, <1>2 DEF AcksOwn, AckTellsKey, Sg!AckTellsKey
<1>6. ASSUME NEW d \in Members PROVE MemberOK(d)
  <2>1. gkey[d] = 0 /\ greq[d] = << >> /\ gwt[d] = << >> BY <1>1
  <2>2. 1..0 = {} OBVIOUS
  <2> QED BY <1>2, <2>1, <2>2 DEF MemberOK
<1> QED BY <1>1, <1>3, <1>4, <1>5, <1>6 DEF SuperInv

\* What other components do changes nothing here.
LEMMA SuperInvStutter ==
  ASSUME SuperInv, UNCHANGED groupVars
  PROVE  SuperInv'
<1>1. UNCHANGED <<gqueue, handler, gsent, gacked, gnet, dt, gconn, gwt, gmessages, greq, gkey, ggot, gexcused>>
  BY DEF groupVars
<1>2. \A d \in gconn : gmessages'[d] = gmessages[d] /\ \A id : OnServer(d, id) => OnServer(d, id)'
  BY <1>1 DEF OnServer
<1>3. /\ gnet' \in [Servers -> Seq(GroupItems)] /\ dt' \in [Servers -> [Delivers -> Seq(GroupItems)]]
      /\ gmessages' \in [Members -> Seq(GroupItems)]
      /\ gexcused' \in [Members -> SUBSET [id : Nat, why : GroupReasons]]
      /\ \A d \in Members : gexcused[d] \subseteq gexcused'[d]
  BY <1>1 DEF SuperInv, SuperTyped
<1> QED BY <1>1, <1>2, <1>3, ServerStep

\* Each action of SuperGroup keeps the invariant.
LEMMA SuperInvNext ==
  ASSUME SuperInv, Sg!Next
  PROVE  SuperInv'
<1>1. ASSUME NEW s \in Senders, Sg!Begin(s) \/ Sg!SaveGroupMessage(s) \/ Sg!SendGroupMessage(s)
      PROVE  SuperInv'
  BY <1>1, BeginInv, SaveGroupMessageInv, SendGroupMessageInv
<1>2. ASSUME NEW s \in Servers,
             Sg!DispatchGroupMessage(s) \/ Sg!Forget(s) \/ \E g \in Delivers : Sg!DispatchMessage(s, g)
      PROVE  SuperInv'
  BY <1>2, DispatchGroupInv, ForgetInv, DispatchMessageInv
<1>3. ASSUME NEW d \in Members,
             \/ Sg!Login(d) \/ Sg!HandleClientClosed(d) \/ Sg!HandleGroupSync(d)
             \/ Sg!WriteAnswer(d) \/ Sg!SendMessages(d)
      PROVE  SuperInv'
  BY <1>3, LoginInv, HandleClientClosedInv, HandleGroupSyncInv, WriteAnswerInv, SendMessagesInv
<1> QED BY <1>1, <1>2, <1>3 DEF Sg!Next

\* The invariant of the instance.
THEOREM SuperInvariant == Spec => []SuperInv
<1>1. Init => SuperInv BY SuperInvInit DEF Init
<1>2. ASSUME SuperInv, [Next]_<<which, cacheVars, keyVars, peerVars, groupVars>>
      PROVE  SuperInv'
  <2>1. CASE Sg!Next BY <1>2, <2>1, SuperInvNext
  <2>2. CASE UNCHANGED groupVars BY <1>2, <2>2, SuperInvStutter
  <2>3. Sg!Next \/ UNCHANGED groupVars BY <1>2, Zenon DEF Next
  <2> QED BY <2>1, <2>2, <2>3
<1> QED BY <1>1, <1>2, PTL DEF Spec

\* GroupSynced: when nothing is under way, what a member has not reached is excused,
\* and below its key it has everything, or was not told.
THEOREM AccessGroupSynced == Spec => []GroupSynced
<1>1. ASSUME SuperInv, NEW d \in Members
      PROVE  /\ Sg!Quiet(d) => Sg!Unread(d) \subseteq Sg!Excused(d)
             /\ 1..gkey[d] \subseteq ggot[d] \cup Sg!Excused(d)
  <2>1. ASSUME Sg!Quiet(d), NEW id \in Sg!Unread(d) PROVE id \in Sg!Excused(d)
    <3>1. id \in 1..Len(gqueue) /\ id > gkey[d] /\ gkey[d] \in Nat
      BY <1>1 DEF Sg!Unread, Sg!After, SuperInv, SuperTyped
    <3>2. /\ d \in gconn /\ greq[d] = << >> /\ gwt[d] = << >> /\ gmessages[d] = << >>
          /\ gnet[GroupHomes[d]] = << >> /\ \A g \in Delivers : dt[GroupHomes[d]][g] = << >>
          /\ \A s \in Senders : handler[s] = None
      BY <2>1 DEF Sg!Quiet
    <3>3. DOMAIN << >> = {} OBVIOUS
    <3>4. ~Covers(gmessages[d], id) /\ ~OnServer(d, id) /\ ~Announcing(id)
      BY <3>2, <3>3 DEF Covers, OnServer, Tells, Announcing
    <3>5. Asking(d, id) BY <1>1, <3>1, <3>2, <3>4 DEF SuperInv, Learns
    <3>6. id \in Nat /\ ~(id <= gkey[d]) BY <3>1
    <3> QED BY <3>2, <3>3, <3>5, <3>6 DEF Asking
  <2>2. 1..gkey[d] \subseteq ggot[d] \cup Sg!Excused(d) BY <1>1 DEF SuperInv, MemberOK, Has
  <2> QED BY <2>1, <2>2
<1>2. SuperInv => GroupSynced BY <1>1 DEF GroupSynced, Sg!GroupSynced
<1> QED BY <1>2, SuperInvariant, PTL

\* AckTellsKey: an acknowledgement has the key of the message, or none, and then
\* nobody was told of it.
THEOREM AccessAckTellsKey == Spec => []AckTellsKey
<1>1. SuperInv => AckTellsKey BY DEF SuperInv, AcksOwn
<1> QED BY <1>1, SuperInvariant, PTL
=============================================================================
